----------------------------- MODULE RedisProofs -----------------------------
(***************************************************************************)
(* What the smaller parts over Redis promise, for any number of calls,     *)
(* attempts, schedules and connections, and for every value of the other   *)
(* constants: of two calls of a lock whose works ran beside each other one *)
(* at most is told its work's value; a step of a job has one value,        *)
(* whoever asks; an occurrence of a schedule adds its job once, and none   *)
(* is skipped; a connection hears a message once; a rate limit allows no   *)
(* more than a burst and what its rate gives; a client is open while       *)
(* somebody holds it; the groups of a queue keep to their caps, each with  *)
(* a turn while it has a job and a slot; and a call that listened when its *)
(* job ended is told its outcome.                                          *)
(***************************************************************************)
EXTENDS RedisLock, QueueSteps, QueueSchedules, KeyedStreams, RateLimit, Connections,
        GroupedQueue, FinishedWaits, FiniteSetTheorems, WellFoundedInduction, TLAPS

(***************************************************************************)
(* The lock: a call's SET takes the key once, so who has lost the key has  *)
(* lost it for good and finds so at its end.                               *)
(***************************************************************************)

\* A call that holds the key, or was told that it held it to its end.
Held(c) == lockKey = c \/ call[c].came = "done"

\* A call answers the value of its work as it ends, not before; a SET is on its
\* way of a call that tries, or of one that ended without a value; and of two calls
\* whose works ran beside each other, whose SETs are past, one at most has held
\* the key all along.
LockInv ==
  /\ LockTypeOK
  /\ \A c \in Calls : call[c].came = "done" => call[c].at = "ended"
  /\ \A c \in Calls : call[c].at = "taking" => lockKey # c
  /\ \A c \in lateSets : call[c].at = "ended" /\ call[c].came # "done"
  /\ \A p \in beside :
       /\ p[1] # p[2] /\ ~(Held(p[1]) /\ Held(p[2]))
       /\ \A c \in {p[1], p[2]} : call[c].at \notin {"taking", "taken"} /\ c \notin lateSets

\* What a call's step writes of it.
LEMMA LockGoesIs ==
  ASSUME LockTypeOK, NEW c \in Calls,
         NEW at \in {"taking", "taken", "working", "releasing", "givingBack", "ended"},
         NEW came \in {"none", "done", "held", "lost", "threw", "died"},
         LockGoes(c, at, came)
  PROVE  /\ call' \in [Calls -> LockCall]
         /\ call'[c].at = at /\ call'[c].came = came
         /\ \A d \in Calls \ {c} : call'[d] = call[d]
BY DEF LockTypeOK, LockGoes, LockCall

\* A step of one call begins no work beside another's: it frees the key at most, or
\* takes it by a SET, and answers "done" only of a call whose key it held.
LEMMA LockStep ==
  ASSUME LockInv, NEW c \in Calls, call' \in [Calls -> LockCall], UNCHANGED beside,
         call[c].at # "ended", call'[c].at # "taking",
         call'[c].at = "taken" => call[c].at = "taking",
         lockKey' \in {lockKey, NoCaller} \/ (lockKey' = c /\ call[c].at = "taking"),
         \/ UNCHANGED lateSets
         \/ lateSets' = lateSets \cup {c} /\ call[c].at = "taking" /\ call'[c].at = "ended"
                                  /\ call'[c].came # "done",
         call'[c].came = "done" => call'[c].at = "ended" /\ lockKey = c,
         \A d \in Calls \ {c} : call'[d] = call[d]
  PROVE  LockInv'
<1>1. LockTypeOK'
  BY DEF LockInv, LockTypeOK
<1>2. \A d \in Calls : call'[d].came = "done" => call'[d].at = "ended"
  BY DEF LockInv
<1>3. \A d \in Calls : call'[d].at = "taking" => lockKey' # d
  BY LockAssumption DEF LockInv
<1>4. \A d \in lateSets' : call'[d].at = "ended" /\ call'[d].came # "done"
  BY DEF LockInv, LockTypeOK
<1>5. ASSUME NEW p \in beside'
      PROVE  /\ p[1] # p[2] /\ ~(Held(p[1]) /\ Held(p[2]))'
             /\ \A d \in {p[1], p[2]} : call'[d].at \notin {"taking", "taken"} /\ d \notin lateSets'
  <2>1. /\ p \in beside /\ p[1] \in Calls /\ p[2] \in Calls
    BY DEF LockInv, LockTypeOK
  <2>2. ASSUME NEW d \in {p[1], p[2]}
        PROVE  /\ call'[d].at \notin {"taking", "taken"} /\ d \notin lateSets'
               /\ Held(d)' => Held(d)
    <3>1. d \in Calls /\ call[d].at \notin {"taking", "taken"} /\ d \notin lateSets
      BY <2>1 DEF LockInv
    <3>2. CASE d = c
      BY <3>1, <3>2, LockAssumption DEF Held
    <3>3. CASE d # c
      BY <3>1, <3>3, LockAssumption DEF Held
    <3> QED BY <3>2, <3>3
  <2> QED BY <2>1, <2>2 DEF LockInv
<1> QED BY <1>1, <1>2, <1>3, <1>4, <1>5 DEF LockInv

\* Every step keeps the invariant.
LEMMA LockKeeps == LockInv /\ [LockNext]_lockVars => LockInv'
<1> SUFFICES ASSUME LockInv, [LockNext]_lockVars PROVE LockInv'
  OBVIOUS
<1>0. LockTypeOK
  BY DEF LockInv
<1>1. ASSUME NEW c \in Calls, SetRuns(c)
      PROVE  LockInv'
  <2>1. LockGoes(c, "taken", "none") /\ UNCHANGED <<lateSets, beside>>
    BY <1>1 DEF SetRuns
  <2>2. lockKey' = c /\ call[c].at = "taking"
    BY <1>1 DEF SetRuns
  <2> QED BY <1>0, <2>1, <2>2, LockGoesIs, LockStep
<1>2. ASSUME NEW c \in Calls, TryAgain(c)
      PROVE  LockInv'
  <2>1. CASE call[c].left > 0
    <3>1. /\ LockTypeOK' /\ UNCHANGED <<lockKey, lateSets, beside>>
          /\ \A d \in Calls : call'[d].at = call[d].at /\ call'[d].came = call[d].came
      BY <1>0, <1>2, <2>1, LockAssumption DEF TryAgain, LockTypeOK, LockCall
    <3>2. \A d \in Calls : Held(d)' <=> Held(d)
      BY <3>1 DEF Held
    <3> QED BY <1>0, <3>1, <3>2 DEF LockInv, LockTypeOK
  <2>2. CASE ~(call[c].left > 0)
    <3>1. LockGoes(c, "ended", "held") /\ UNCHANGED <<lockKey, lateSets, beside>>
      BY <1>2, <2>2 DEF TryAgain
    <3>2. call[c].at = "taking"
      BY <1>2 DEF TryAgain
    <3> QED BY <1>0, <3>1, <3>2, LockGoesIs, LockStep
  <2> QED BY <2>1, <2>2
<1>3. ASSUME NEW c \in Calls, TakeFails(c) \/ CallDies(c)
      PROVE  LockInv'
  <2>1. PICK came \in {"threw", "died"} : LockGoes(c, "ended", came)
    BY <1>3 DEF TakeFails, CallDies
  <2>2. /\ UNCHANGED <<lockKey, beside>> /\ call[c].at # "ended"
        /\ lateSets' = IF call[c].at = "taking" THEN lateSets \cup {c} ELSE lateSets
    BY <1>3 DEF TakeFails, CallDies, LeavesSet
  <2>3. /\ call' \in [Calls -> LockCall] /\ call'[c].at = "ended" /\ call'[c].came = came
        /\ \A d \in Calls \ {c} : call'[d] = call[d]
    BY <1>0, <2>1, LockGoesIs
  <2> QED BY <2>2, <2>3, LockStep
<1>4. ASSUME NEW c \in Calls, LateSet(c)
      PROVE  LockInv'
  <2>1. /\ c \in lateSets /\ lateSets' = lateSets \ {c} /\ UNCHANGED <<call, beside>>
        /\ lockKey' \in {lockKey, c}
    BY <1>4 DEF LateSet
  <2>2. \A p \in beside : p[1] \in Calls \ {c} /\ p[2] \in Calls \ {c}
    BY <1>0, <2>1 DEF LockInv, LockTypeOK
  <2>3. \A d \in Calls \ {c} : Held(d)' => Held(d)
    BY <2>1 DEF Held
  <2>4. LockTypeOK'
    BY <1>0, <2>1 DEF LockTypeOK
  <2>5. \A d \in Calls : call'[d].at = "taking" => lockKey' # d
    BY <2>1 DEF LockInv
  <2>6. \A p \in beside' :
          /\ p[1] # p[2] /\ ~(Held(p[1]) /\ Held(p[2]))'
          /\ \A d \in {p[1], p[2]} : call'[d].at \notin {"taking", "taken"} /\ d \notin lateSets'
    BY <2>1, <2>2, <2>3 DEF LockInv
  <2> QED BY <2>1, <2>4, <2>5, <2>6 DEF LockInv
<1>5. ASSUME NEW c \in Calls, WorkBegins(c)
      PROVE  LockInv'
  <2>1. /\ call[c].at = "taken" /\ UNCHANGED <<lockKey, lateSets>>
        /\ beside' = beside \cup { <<c, d>> : d \in Working }
    BY <1>5 DEF WorkBegins
  <2>2. /\ call' \in [Calls -> LockCall] /\ call'[c].at = "working" /\ call'[c].came = "none"
        /\ \A d \in Calls \ {c} : call'[d] = call[d]
    BY <1>0, <1>5, LockGoesIs DEF WorkBegins
  <2>3. LockTypeOK'
    BY <1>0, <2>1, <2>2 DEF LockTypeOK, Working
  <2>4. c \notin lateSets /\ \A p \in beside : p[1] # c /\ p[2] # c
    BY <2>1 DEF LockInv
  <2>5. ASSUME NEW p \in beside'
        PROVE  /\ p[1] # p[2] /\ ~(Held(p[1]) /\ Held(p[2]))'
               /\ \A d \in {p[1], p[2]} : call'[d].at \notin {"taking", "taken"} /\ d \notin lateSets'
    <3>1. CASE p \in beside
      <4>1. p[1] \in Calls \ {c} /\ p[2] \in Calls \ {c}
        BY <1>0, <2>4, <3>1 DEF LockTypeOK
      <4>2. (Held(p[1])' <=> Held(p[1])) /\ (Held(p[2])' <=> Held(p[2]))
        BY <2>1, <2>2, <4>1 DEF Held
      <4> QED BY <2>1, <2>2, <3>1, <4>1, <4>2 DEF LockInv
    <3>2. CASE p \notin beside
      <4>1. PICK d \in Working : p = <<c, d>>
        BY <2>1, <3>2
      <4>2. d \in Calls \ {c} /\ call[d].at = "working" /\ d \notin lateSets
        BY <2>1, <4>1 DEF Working, LockInv
      <4>3. call[d].came # "done" /\ call'[d] = call[d]
        BY <2>2, <4>2 DEF LockInv
      <4>4. ~(Held(c) /\ Held(d))'
        BY <2>2, <4>2, <4>3 DEF Held
      <4> QED BY <2>1, <2>2, <2>4, <4>1, <4>2, <4>3, <4>4
    <3> QED BY <3>1, <3>2
  <2>6. \A d \in Calls : call'[d].came = "done" => call'[d].at = "ended"
    BY <2>2 DEF LockInv
  <2>7. \A d \in Calls : call'[d].at = "taking" => lockKey' # d
    BY <2>1, <2>2 DEF LockInv
  <2>8. \A d \in lateSets' : call'[d].at = "ended" /\ call'[d].came # "done"
    BY <1>0, <2>1, <2>2, <2>4 DEF LockInv, LockTypeOK
  <2> QED BY <2>3, <2>5, <2>6, <2>7, <2>8 DEF LockInv
<1>6. ASSUME NEW c \in Calls, WorkEnds(c)
      PROVE  LockInv'
  <2>1. PICK at \in {"releasing", "givingBack"} : LockGoes(c, at, "none")
    BY <1>6 DEF WorkEnds
  <2>2. UNCHANGED <<lockKey, lateSets, beside>> /\ call[c].at = "working"
    BY <1>6 DEF WorkEnds
  <2>3. /\ call' \in [Calls -> LockCall] /\ call'[c].at = at /\ call'[c].came = "none"
        /\ \A d \in Calls \ {c} : call'[d] = call[d]
    BY <1>0, <2>1, LockGoesIs
  <2> QED BY <2>2, <2>3, LockStep
<1>7. ASSUME NEW c \in Calls, ReleaseKey(c)
      PROVE  LockInv'
  <2>1. /\ LockGoes(c, "ended", IF StillOwn(c) THEN "done" ELSE "lost")
        /\ UNCHANGED <<lateSets, beside>>
        /\ lockKey' = FreedBy(c) /\ call[c].at = "releasing"
    BY <1>7 DEF ReleaseKey
  <2>2. /\ call' \in [Calls -> LockCall] /\ call'[c].at = "ended"
        /\ call'[c].came = "done" => lockKey = c
        /\ \A d \in Calls \ {c} : call'[d] = call[d]
    BY <1>0, <2>1, LockGoesIs DEF StillOwn
  <2>3. lockKey' \in {lockKey, NoCaller}
    BY <2>1 DEF FreedBy
  <2> QED BY <2>1, <2>2, <2>3, LockStep
<1>8. ASSUME NEW c \in Calls, ReleaseFails(c) \/ GiveBack(c)
      PROVE  LockInv'
  <2>1. /\ LockGoes(c, "givingBack", "none") \/ LockGoes(c, "ended", "threw")
        /\ call[c].at \in {"releasing", "givingBack"} /\ UNCHANGED <<lateSets, beside>>
    BY <1>8 DEF ReleaseFails, GiveBack
  <2>2. lockKey' \in {lockKey, NoCaller}
    BY <1>8 DEF ReleaseFails, GiveBack, FreedBy
  <2>3. /\ call' \in [Calls -> LockCall] /\ call'[c].at \in {"givingBack", "ended"}
        /\ call'[c].came # "done"
        /\ \A d \in Calls \ {c} : call'[d] = call[d]
    BY <1>0, <2>1, LockGoesIs
  <2> QED BY <2>1, <2>2, <2>3, LockStep
<1>9. CASE LockLapses
  <2>1. lockKey' = NoCaller /\ UNCHANGED <<call, lateSets, beside>>
    BY <1>9 DEF LockLapses
  <2>2. \A d \in Calls : lockKey' # d /\ (Held(d)' => Held(d))
    BY <2>1, LockAssumption DEF Held
  <2> QED BY <1>0, <2>1, <2>2 DEF LockInv, LockTypeOK
<1>10. CASE UNCHANGED lockVars
  <2>1. UNCHANGED <<lockKey, call, lateSets, beside>>
    BY <1>10 DEF lockVars
  <2> QED BY <2>1 DEF LockInv, LockTypeOK, Held
<1> QED BY <1>1, <1>2, <1>3, <1>4, <1>5, <1>6, <1>7, <1>8, <1>9, <1>10 DEF LockNext

\* Of two calls whose works ran beside each other one at most is told its work's
\* value, however late the SET's answer or the release comes, for any number of
\* calls of the lock.
THEOREM DoneNeverBesideHolds == LockSpec => []DoneNeverBeside
<1>1. LockInit => LockInv
  BY LockAssumption DEF LockInit, LockInv, LockTypeOK, LockCall
<1>2. LockInv => DoneNeverBeside
  BY DEF LockInv, Held, DoneNeverBeside
<1> QED BY <1>1, <1>2, LockKeeps, PTL DEF LockSpec

(***************************************************************************)
(* Steps: who began while it holds the job finds no value when it commits. *)
(***************************************************************************)

\* An attempt that was let begin while it holds the job finds the hash still
\* without a value when it commits: who stored one since held the job since. And
\* every value given, or read and on its way, is the one stored.
StepInv ==
  /\ StepsTypeOK
  /\ \A a \in StepAttempts :
       /\ a > held.token => attempt[a].at = "none"
       /\ attempt[a].at \in {"begun", "working", "committing"} /\ a = held.token => stored = 0
       /\ attempt[a].given # 0 => attempt[a].given = stored
       /\ attempt[a].at \in {"none", "run", "begun", "working", "committing"} => attempt[a].given = 0

\* A step of one attempt that stores nothing keeps the invariant.
LEMMA StepOfOne ==
  ASSUME StepInv, NEW a \in StepAttempts, attempt[a].at # "none",
         NEW x \in [at : {"run", "begun", "read", "working", "committing", "given", "ended"},
                    given : StepValues],
         attempt' = [attempt EXCEPT ![a] = x],
         UNCHANGED <<held, stored, aborted>>,
         x.at \in {"begun", "working", "committing"} /\ a = held.token => stored = 0,
         x.given # 0 => x.given = stored,
         x.at \in {"run", "begun", "working", "committing"} => x.given = 0
  PROVE  StepInv'
<1>1. StepsTypeOK' /\ attempt'[a] = x /\ \A b \in StepAttempts \ {a} : attempt'[b] = attempt[b]
  BY DEF StepInv, StepsTypeOK
<1> QED BY <1>1 DEF StepInv

\* Every step keeps the invariant.
LEMMA StepKeeps == StepInv /\ [StepsNext]_stepVars => StepInv'
<1> SUFFICES ASSUME StepInv, [StepsNext]_stepVars PROVE StepInv'
  OBVIOUS
<1> USE DEF StepInv
<1>1. CASE ClaimAgain
  <2> DEFINE n == held.token + 1
  <2>1. n \in StepAttempts /\ held' = [token |-> n, leased |-> TRUE] /\ UNCHANGED <<stored, aborted>>
    BY <1>1, StepsAssumption DEF ClaimAgain, AttemptsLeft, StepsTypeOK, StepAttempts, StepValues
  <2>2. attempt' = [attempt EXCEPT ![n].at = "run"] /\ held.token \in StepValues
    BY <1>1 DEF ClaimAgain, Moves, StepsTypeOK
  <2>3. /\ StepsTypeOK' /\ attempt'[n] = [attempt[n] EXCEPT !.at = "run"]
        /\ \A b \in StepAttempts \ {n} : attempt'[b] = attempt[b]
    BY <2>1, <2>2, StepsAssumption DEF StepsTypeOK, StepAttempts, StepValues
  <2>4. attempt[n].at = "none" /\ n > held.token /\ \A b \in StepAttempts : b > n => b > held.token
    BY <2>1, <2>2 DEF StepAttempts, StepValues
  <2>5. attempt'[n].at = "run" /\ attempt'[n].given = 0
    BY <2>1, <2>3, <2>4 DEF StepsTypeOK
  <2>6. held'.token = n /\ \A b \in StepAttempts : b > n => attempt[b].at = "none"
    BY <2>1, <2>4
  <2> HIDE DEF n
  <2>7. ASSUME NEW b \in StepAttempts \ {n}
        PROVE  b > n => attempt'[b].at = "none"
    BY <2>3, <2>6
  <2>8. ASSUME NEW b \in StepAttempts
        PROVE  /\ b > held'.token => attempt'[b].at = "none"
               /\ attempt'[b].at \in {"begun", "working", "committing"} /\ b = held'.token => stored' = 0
               /\ attempt'[b].given # 0 => attempt'[b].given = stored'
               /\ attempt'[b].at \in {"none", "run", "begun", "working", "committing"} => attempt'[b].given = 0
    <3>1. CASE b = n
      <4>1. n \in Nat /\ ~(n > n)
        BY <2>1 DEF StepAttempts
      <4> QED BY <3>1, <2>5, <2>6, <4>1
    <3>2. CASE b # n
      BY <3>2, <2>1, <2>3, <2>6, <2>7
    <3> QED BY <3>1, <3>2
  <2> QED BY <2>3, <2>8
<1>2. CASE LeaseLapses \/ RenewLate \/ \E a \in StepAttempts : AttemptFails(a)
  <2>1. held'.token = held.token /\ StepsTypeOK' /\ UNCHANGED <<stored, attempt, aborted>>
    BY <1>2 DEF LeaseLapses, RenewLate, AttemptFails, StepsTypeOK
  <2> QED BY <2>1
<1>3. ASSUME NEW a \in StepAttempts, AbortRun(a)
      PROVE  StepInv'
  <2>1. StepsTypeOK' /\ UNCHANGED <<held, stored, attempt>>
    BY <1>3 DEF AbortRun, StepsTypeOK
  <2> QED BY <2>1
<1>4. ASSUME NEW a \in StepAttempts, StepBegin(a)
      PROVE  StepInv'
  <2>1. attempt[a].at = "run" /\ attempt[a].given = 0 /\ UNCHANGED <<held, stored, aborted>>
    BY <1>4 DEF StepBegin
  <2>2. CASE a \in aborted \/ ~HoldsJob(a)
    <3>1. attempt' = [attempt EXCEPT ![a] = [attempt[a] EXCEPT !.at = "ended"]]
      BY <1>4, <2>2 DEF StepBegin, Moves
    <3> QED BY <2>1, <3>1, StepOfOne DEF StepsTypeOK
  <2>3. CASE ~(a \in aborted \/ ~HoldsJob(a)) /\ stored # 0
    <3>1. attempt' = [attempt EXCEPT ![a] = [at |-> "read", given |-> stored]]
      BY <1>4, <2>3 DEF StepBegin
    <3> QED BY <2>1, <3>1, StepOfOne DEF StepsTypeOK
  <2>4. CASE ~(a \in aborted \/ ~HoldsJob(a)) /\ stored = 0
    <3>1. attempt' = [attempt EXCEPT ![a] = [attempt[a] EXCEPT !.at = "begun"]]
      BY <1>4, <2>4 DEF StepBegin, Moves
    <3> QED BY <2>1, <2>4, <3>1, StepOfOne DEF StepsTypeOK
  <2> QED BY <2>2, <2>3, <2>4
<1>5. ASSUME NEW a \in StepAttempts, StepAnswered(a)
      PROVE  StepInv'
  <2>1. attempt[a].at \in {"begun", "read"} /\ UNCHANGED <<held, stored, aborted>>
    BY <1>5 DEF StepAnswered
  <2>2. /\ attempt[a] \in [at : {"none", "run", "begun", "read", "working", "committing", "given", "ended"},
                           given : StepValues]
        /\ 0 \in StepValues
    BY StepsAssumption DEF StepsTypeOK, StepValues
  <2>3. CASE a \in aborted
    <3>1. attempt' = [attempt EXCEPT ![a] = [at |-> "ended", given |-> 0]]
      BY <1>5, <2>3 DEF StepAnswered
    <3> QED BY <2>1, <2>2, <3>1, StepOfOne
  <2>4. CASE a \notin aborted
    <3> DEFINE to == IF attempt[a].at = "read" THEN "given" ELSE "working"
               x == [attempt[a] EXCEPT !.at = to]
    <3>1. attempt' = [attempt EXCEPT ![a] = x]
      BY <1>5, <2>4 DEF StepAnswered
    <3>2. /\ x \in [at : {"given", "working"}, given : StepValues] /\ x.given = attempt[a].given
          /\ x.at = "working" => attempt[a].at = "begun"
      BY <2>1, <2>2
    <3> HIDE DEF x
    <3> QED BY <2>1, <3>1, <3>2, StepOfOne
  <2> QED BY <2>3, <2>4
<1>6. ASSUME NEW a \in StepAttempts, StepWorked(a)
      PROVE  StepInv'
  <2>1. /\ attempt[a].at = "working" /\ UNCHANGED <<held, stored, aborted>>
        /\ attempt' = [attempt EXCEPT ![a] = [attempt[a] EXCEPT !.at = "committing"]]
    BY <1>6 DEF StepWorked, Moves
  <2> QED BY <2>1, StepOfOne DEF StepsTypeOK
<1>7. ASSUME NEW a \in StepAttempts, StepCommit(a)
      PROVE  StepInv'
  <2>1. PICK answered \in BOOLEAN : attempt' = [attempt EXCEPT ![a] =
          IF HoldsJob(a) /\ answered /\ a \notin aborted THEN [at |-> "given", given |-> a]
          ELSE [at |-> "ended", given |-> 0]]
    BY <1>7 DEF StepCommit
  <2>2. /\ attempt[a].at = "committing" /\ UNCHANGED <<held, aborted>>
        /\ stored' = IF HoldsJob(a) THEN a ELSE stored
        /\ 0 \in StepValues /\ a \in StepValues
    BY <1>7, StepsAssumption DEF StepCommit, StepAttempts, StepValues
  <2>3. CASE HoldsJob(a)
    <3>1. a = held.token /\ stored = 0 /\ \A b \in StepAttempts : attempt[b].given = 0
      BY <2>2, <2>3 DEF HoldsJob
    <3>2. /\ StepsTypeOK' /\ attempt'[a].at \in {"given", "ended"} /\ attempt'[a].given \in {0, a}
          /\ \A b \in StepAttempts \ {a} : attempt'[b] = attempt[b]
      BY <2>1, <2>2, <2>3 DEF StepsTypeOK
    <3> QED BY <2>2, <2>3, <3>1, <3>2
  <2>4. CASE ~HoldsJob(a)
    <3>1. attempt' = [attempt EXCEPT ![a] = [at |-> "ended", given |-> 0]] /\ stored' = stored
      BY <2>1, <2>2, <2>4
    <3> QED BY <2>2, <3>1, StepOfOne
  <2> QED BY <2>3, <2>4
<1>8. ASSUME NEW a \in StepAttempts, StepFails(a)
      PROVE  StepInv'
  <2>1. /\ attempt[a].at # "none" /\ UNCHANGED <<held, stored, aborted>> /\ 0 \in StepValues
        /\ attempt' = [attempt EXCEPT ![a] = [at |-> "ended", given |-> 0]]
    BY <1>8, StepsAssumption DEF StepFails, StepValues
  <2> QED BY <2>1, StepOfOne
<1>9. CASE UNCHANGED stepVars
  BY <1>9 DEF stepVars, StepsTypeOK
<1> QED BY <1>1, <1>2, <1>3, <1>4, <1>5, <1>6, <1>7, <1>8, <1>9 DEF StepsNext

\* Every attempt that is given the step's value is given the one the hash holds,
\* for any number of attempts, leases lapsing and renewed late as they may.
THEOREM OneStepValueHolds == StepsSpec => []OneStepValue
<1>1. StepsInit => StepInv
  BY StepsAssumption DEF StepsInit, StepInv, StepsTypeOK, StepAttempts, StepValues
<1>2. StepInv => OneStepValue
  BY DEF StepInv, OneStepValue
<1> QED BY <1>1, <1>2, StepKeeps, PTL DEF StepsSpec

(***************************************************************************)
(* Schedules: once a moment has fired the schedule stands at a later one,  *)
(* unless a call that read it before wrote an earlier one since.           *)
(***************************************************************************)

\* The types of the variables, with moments as late as periods and skews make them.
SchedulesTyped ==
  /\ clock \in 0 .. MaxTime
  /\ schedules \in [Schedules -> [spec : Specs, origin : {"definition", "runtime"}, next : Nat] \cup {NoSchedule}]
  /\ firer \in [Firers -> [id : Schedules, spec : Specs, due : Nat] \cup {NothingDue}]
  /\ admin \in [Admins -> [call : {"upsert", "sync"}, specs : [Schedules -> Specs \cup {NoSpec}],
                           next : [Schedules -> Nat]] \cup {NoCall}]
  /\ fired \in [Schedules \X (0 .. MaxTime) -> Nat]

\* A late call wrote a moment of s up to t.
LateUpTo(s, t) == \E u \in 0 .. t : <<s, u>> \in late

\* An occurrence that added its job has come, and its schedule stands at a later
\* one, or is gone: unless a late call wrote an earlier moment.
FiredIsPast ==
  \A s \in Schedules, t \in 0 .. MaxTime :
    (fired[<<s, t>>] # 0 /\ ~LateUpTo(s, t)) =>
      /\ fired[<<s, t>>] = 1 /\ t <= clock
      /\ schedules[s] # NoSchedule => schedules[s].next > t

SchedulesInv == SchedulesTyped /\ FiredIsPast

\* The grids move on: what follows a moment is later than it.
LEMMA GridMoves ==
  ASSUME NEW p \in Nat \ {0}, NEW t \in Nat
  PROVE  NextAfter(p, t) \in Nat /\ NextAfter(p, t) > t
<1>1. (t \div p + 1) * p > t /\ (t \div p + 1) * p \in Int
  OBVIOUS
<1> QED BY <1>1 DEF NextAfter

\* The first moment of a spec, broken or not, which its list's SYNC stores.
LEMMA FirstIsNat ==
  ASSUME NEW spec \in Specs, NEW now \in Nat
  PROVE  FirstNext(spec, now) \in Nat
<1>1. spec.period \in Nat \ {0}
  BY SchedulesAssumption
<1>2. NextAfter(spec.period, now) \in Nat
  BY <1>1, GridMoves
<1>3. CASE spec.kind = "every"
  BY <1>1, <1>3 DEF FirstNext
<1>4. CASE spec.kind # "every"
  BY <1>2, <1>4 DEF FirstNext
<1> QED BY <1>3, <1>4

\* The moments clients work out: all after the one they go on from.
LEMMA MomentsMove ==
  ASSUME NEW spec \in Specs, spec.kind # "broken", NEW now \in Nat, NEW due \in Nat
  PROVE  /\ NextOf(spec, due, now) \in Nat /\ NextOf(spec, due, now) > due
         /\ FirstNext(spec, now) \in Nat
<1>1. spec.period \in Nat \ {0}
  BY SchedulesAssumption
<1>2. Later(due, now) \in Nat /\ Later(due, now) >= due
  BY DEF Later
<1>3. NextAfter(spec.period, Later(due, now)) \in Nat /\ NextAfter(spec.period, Later(due, now)) > due
  <2> DEFINE p == spec.period
             t == Later(due, now)
  <2>1. p \in Nat \ {0} /\ t \in Nat /\ t >= due
    BY <1>1, <1>2
  <2> HIDE DEF p, t
  <2>2. NextAfter(p, t) \in Nat /\ NextAfter(p, t) > t
    BY <2>1, GridMoves
  <2>3. NextAfter(p, t) > due
    BY <2>1, <2>2
  <2> QED BY <2>2, <2>3 DEF p, t
<1>4. FirstNext(spec, now) \in Nat
  BY FirstIsNat
<1>5. CASE spec.kind = "every"
  <2> DEFINE k == Later(1, (now - due) \div spec.period + 1)
  <2>1. k \in Nat \ {0}
    BY <1>1 DEF Later
  <2> HIDE DEF k
  <2>2. due + k * spec.period \in Nat /\ due + k * spec.period > due
    BY <1>1, <2>1
  <2>3. NextOf(spec, due, now) = due + k * spec.period
    BY <1>5 DEF k, NextOf, NextEvery
  <2> QED BY <1>4, <2>2, <2>3
<1>6. CASE spec.kind # "every"
  BY <1>3, <1>4, <1>6 DEF NextOf
<1> QED BY <1>5, <1>6

\* What no step but FIRE and the calls changes.
LEMMA StaysPast ==
  ASSUME SchedulesInv, SchedulesTyped', UNCHANGED <<fired, late>>, clock' >= clock,
         \A s \in Schedules : \/ schedules'[s] = NoSchedule
                              \/ /\ schedules[s] # NoSchedule /\ schedules'[s] # NoSchedule
                                 /\ schedules'[s].next >= schedules[s].next
  PROVE  SchedulesInv'
<1> SUFFICES ASSUME NEW s \in Schedules, NEW t \in 0 .. MaxTime, fired[<<s, t>>] # 0, ~LateUpTo(s, t)
             PROVE  /\ fired[<<s, t>>] = 1 /\ t <= clock'
                    /\ schedules'[s] # NoSchedule => schedules'[s].next > t
  BY DEF SchedulesInv, FiredIsPast, LateUpTo
<1>1. fired[<<s, t>>] = 1 /\ t <= clock /\ (schedules[s] # NoSchedule => schedules[s].next > t)
  BY DEF SchedulesInv, FiredIsPast
<1>2. clock \in Nat /\ clock' \in Nat /\ t \in Nat
  BY SchedulesAssumption DEF SchedulesInv, SchedulesTyped
<1>3. /\ schedules'[s] # NoSchedule => schedules'[s].next \in Nat
      /\ schedules[s] # NoSchedule => schedules[s].next \in Nat
  BY DEF SchedulesInv, SchedulesTyped
<1> QED BY <1>1, <1>2, <1>3

\* A call on its way says of each schedule it lists what it is and its first moment.
LEMMA CallTyped ==
  ASSUME SchedulesInv, NEW a \in Admins, admin[a] # NoCall
  PROVE  /\ admin[a].call \in {"upsert", "sync"}
         /\ \A s \in Schedules : /\ admin[a].next[s] \in Nat
                                 /\ admin[a].specs[s] \in Specs \cup {NoSpec}
BY DEF SchedulesInv, SchedulesTyped

\* UPSERT and SYNC: a schedule keeps its moment, moves to one that has not come,
\* to one that is recorded as late, or goes.
LEMMA ArriveKeeps ==
  ASSUME SchedulesInv, NEW a \in Admins, ArriveCall(a)
  PROVE  SchedulesInv'
<1>1. /\ admin[a] # NoCall /\ UNCHANGED <<clock, firer, fired>>
      /\ admin' = [admin EXCEPT ![a] = NoCall]
      /\ schedules' = [s \in Schedules |->
           IF s \in Writable(a) THEN Upserted(a, s)
           ELSE IF admin[a].call = "sync" /\ s \in owned /\ schedules[s].origin = "definition" THEN NoSchedule
           ELSE schedules[s]]
      /\ late' = late \cup { <<s, admin[a].next[s]>> :
                             s \in { t \in Writable(a) : admin[a].next[t] <= clock /\ ~Keeps(a, t) } }
  BY DEF ArriveCall
<1>2. ASSUME NEW s \in Writable(a)
      PROVE  s \in Schedules /\ admin[a].specs[s] \in Specs
  BY <1>1, <1>2, CallTyped DEF Writable, Listed
<1>3. ASSUME NEW s \in Schedules, Keeps(a, s), s \in Writable(a)
      PROVE  schedules[s] # NoSchedule
  BY <1>2, <1>3, SchedulesAssumption DEF Keeps, NoSchedule
<1>4. ASSUME NEW s \in Writable(a)
      PROVE  /\ Upserted(a, s) \in [spec : Specs, origin : {"definition", "runtime"}, next : Nat]
             /\ Upserted(a, s).next = IF Keeps(a, s) THEN schedules[s].next ELSE admin[a].next[s]
  <2>1. s \in Schedules /\ admin[a].specs[s] \in Specs /\ admin[a].next[s] \in Nat
    BY <1>1, <1>2, CallTyped
  <2>2. Keeps(a, s) => schedules[s].next \in Nat
    BY <2>1, <1>3 DEF SchedulesInv, SchedulesTyped
  <2>3. Upserted(a, s) = [spec |-> admin[a].specs[s],
                          origin |-> IF admin[a].call = "sync" THEN "definition" ELSE "runtime",
                          next |-> IF Keeps(a, s) THEN schedules[s].next ELSE admin[a].next[s]]
    BY DEF Upserted
  <2> QED BY <2>1, <2>2, <2>3
<1>5. SchedulesTyped'
  <2>1. schedules' \in [Schedules -> [spec : Specs, origin : {"definition", "runtime"}, next : Nat] \cup {NoSchedule}]
    BY <1>1, <1>4 DEF SchedulesInv, SchedulesTyped
  <2>2. admin' \in [Admins -> [call : {"upsert", "sync"}, specs : [Schedules -> Specs \cup {NoSpec}],
                               next : [Schedules -> Nat]] \cup {NoCall}]
    BY <1>1 DEF SchedulesInv, SchedulesTyped
  <2> QED BY <1>1, <2>1, <2>2 DEF SchedulesInv, SchedulesTyped
<1>6. ASSUME NEW s \in Schedules, NEW t \in 0 .. MaxTime, fired[<<s, t>>] # 0, ~LateUpTo(s, t)'
      PROVE  /\ fired[<<s, t>>] = 1 /\ t <= clock
             /\ schedules'[s] # NoSchedule => schedules'[s].next > t
  <2>1. fired[<<s, t>>] = 1 /\ t <= clock /\ (schedules[s] # NoSchedule => schedules[s].next > t)
    BY <1>1, <1>6 DEF SchedulesInv, FiredIsPast, LateUpTo
  <2>2. CASE s \notin Writable(a)
    BY <1>1, <2>1, <2>2
  <2>3. CASE s \in Writable(a) /\ Keeps(a, s)
    BY <1>1, <1>3, <1>4, <2>1, <2>3
  <2>4. CASE s \in Writable(a) /\ ~Keeps(a, s)
    <3>1. schedules'[s].next = admin[a].next[s] /\ admin[a].next[s] \in Nat
      BY <1>1, <1>4, <2>4, CallTyped
    <3>2. ASSUME admin[a].next[s] <= t PROVE FALSE
      <4>1. clock \in Nat /\ t \in Nat
        BY SchedulesAssumption DEF SchedulesInv, SchedulesTyped
      <4>2. admin[a].next[s] <= clock /\ admin[a].next[s] \in 0 .. t
        BY <2>1, <3>1, <3>2, <4>1
      <4>3. <<s, admin[a].next[s]>> \in late'
        BY <1>1, <2>4, <4>2
      <4> QED BY <1>6, <4>2, <4>3 DEF LateUpTo
    <3>3. t \in Nat
      OBVIOUS
    <3> QED BY <2>1, <3>1, <3>2, <3>3
  <2> QED BY <2>2, <2>3, <2>4
<1> QED BY <1>1, <1>5, <1>6 DEF SchedulesInv, FiredIsPast

\* FIRE adds the job of the moment its schedule stands at, which no earlier one
\* can have added, and moves the schedule past it.
LEMMA FireKeeps ==
  ASSUME SchedulesInv, NEW w \in Firers, Fire(w)
  PROVE  SchedulesInv'
<1> DEFINE i == firer[w].id
           due == firer[w].due
<1>1. /\ firer[w] # NothingDue /\ firer[w].spec.kind # "broken"
      /\ firer' = [firer EXCEPT ![w] = NothingDue] /\ UNCHANGED <<clock, admin, late>>
  BY DEF Fire
<1>2. i \in Schedules /\ due \in Nat /\ firer[w].spec \in Specs /\ clock \in Nat
  BY <1>1, SchedulesAssumption DEF SchedulesInv, SchedulesTyped
<1>3. firer' \in [Firers -> [id : Schedules, spec : Specs, due : Nat] \cup {NothingDue}]
  BY <1>1 DEF SchedulesInv, SchedulesTyped
<1>4. CASE ~StillDue(w)
  <2>1. UNCHANGED <<schedules, fired>>
    BY <1>4 DEF Fire
  <2> QED BY <1>1, <1>3, <2>1 DEF SchedulesInv, SchedulesTyped, FiredIsPast, LateUpTo
<1>5. CASE StillDue(w)
  <2>1. PICK now \in ClientTimes :
          /\ schedules' = [schedules EXCEPT ![i].next = NextOf(firer[w].spec, due, now)]
          /\ fired' = [fired EXCEPT ![<<i, due>>] = @ + 1]
    BY <1>5 DEF Fire
  <2> DEFINE n == NextOf(firer[w].spec, due, now)
  <2>2. now \in Nat
    BY DEF ClientTimes
  <2>3. n \in Nat /\ n > due
    BY <1>1, <1>2, <2>2, MomentsMove
  <2> HIDE DEF n
  <2>4. schedules[i] # NoSchedule /\ schedules[i].next = due /\ due <= clock /\ due \in 0 .. MaxTime
    <3>1. clock <= MaxTime /\ MaxTime \in Nat
      BY SchedulesAssumption DEF SchedulesInv, SchedulesTyped
    <3>2. schedules[i] # NoSchedule /\ schedules[i].next = due /\ due <= clock
      BY <1>5 DEF StillDue
    <3> QED BY <1>2, <3>1, <3>2
  <2>5. /\ schedules' \in [Schedules -> [spec : Specs, origin : {"definition", "runtime"}, next : Nat] \cup {NoSchedule}]
        /\ schedules'[i].next = n /\ \A s \in Schedules \ {i} : schedules'[s] = schedules[s]
    <3>1. schedules' = [schedules EXCEPT ![i] = [schedules[i] EXCEPT !.next = n]]
      BY <2>1 DEF n
    <3>2. [schedules[i] EXCEPT !.next = n] \in [spec : Specs, origin : {"definition", "runtime"}, next : Nat]
      BY <1>2, <2>3, <2>4 DEF SchedulesInv, SchedulesTyped
    <3>3. [schedules[i] EXCEPT !.next = n].next = n
      BY <1>2, <2>4 DEF SchedulesInv, SchedulesTyped
    <3> QED BY <1>2, <3>1, <3>2, <3>3 DEF SchedulesInv, SchedulesTyped
  <2>6. /\ fired' \in [Schedules \X (0 .. MaxTime) -> Nat]
        /\ fired'[<<i, due>>] = fired[<<i, due>>] + 1
        /\ \A s \in Schedules, t \in 0 .. MaxTime : <<s, t>> # <<i, due>> => fired'[<<s, t>>] = fired[<<s, t>>]
    BY <1>2, <2>1, <2>4 DEF SchedulesInv, SchedulesTyped
  <2>7. SchedulesTyped'
    BY <1>1, <1>3, <2>5, <2>6 DEF SchedulesInv, SchedulesTyped
  <2>8. ASSUME NEW s \in Schedules, NEW t \in 0 .. MaxTime, fired'[<<s, t>>] # 0, ~LateUpTo(s, t)
        PROVE  /\ fired'[<<s, t>>] = 1 /\ t <= clock
               /\ schedules'[s] # NoSchedule => schedules'[s].next > t
    <3>1. CASE s = i /\ t = due
      <4>1. fired[<<i, due>>] = 0
        BY <1>2, <2>4, <2>8, <3>1 DEF SchedulesInv, FiredIsPast
      <4> QED BY <2>3, <2>4, <2>5, <2>6, <3>1, <4>1
    <3>2. CASE s = i /\ t # due
      <4>1. fired[<<i, t>>] = 1 /\ t <= clock /\ due > t
        BY <2>4, <2>6, <2>8, <3>2 DEF SchedulesInv, FiredIsPast
      <4>2. fired'[<<s, t>>] = 1 /\ schedules'[s].next = n
        BY <2>5, <2>6, <3>2, <4>1
      <4>3. t \in Nat
        OBVIOUS
      <4> QED BY <1>2, <2>3, <4>1, <4>2, <4>3
    <3>3. CASE s # i
      BY <2>5, <2>6, <2>8, <3>3 DEF SchedulesInv, FiredIsPast
    <3> QED BY <3>1, <3>2, <3>3
  <2> QED BY <1>1, <2>7, <2>8 DEF SchedulesInv, FiredIsPast, LateUpTo
<1> QED BY <1>4, <1>5

\* DEFER moves a schedule on.
LEMMA DeferKeeps ==
  ASSUME SchedulesInv, NEW w \in Firers, Deferred(w)
  PROVE  SchedulesInv'
<1> DEFINE i == firer[w].id
<1>1. /\ firer[w] # NothingDue
      /\ firer' = [firer EXCEPT ![w] = NothingDue] /\ UNCHANGED <<clock, admin, fired, late>>
  BY DEF Deferred
<1>2. i \in Schedules /\ firer[w].due \in Nat /\ clock \in Nat
  BY <1>1, SchedulesAssumption DEF SchedulesInv, SchedulesTyped
<1>3. firer' \in [Firers -> [id : Schedules, spec : Specs, due : Nat] \cup {NothingDue}]
  BY <1>1 DEF SchedulesInv, SchedulesTyped
<1>4. PICK now \in ClientTimes :
        IF StillDue(w) /\ now + Defer > firer[w].due
        THEN schedules' = [schedules EXCEPT ![i].next = now + Defer]
        ELSE UNCHANGED schedules
  BY DEF Deferred
<1>5. CASE UNCHANGED schedules
  BY <1>1, <1>2, <1>3, <1>5, StaysPast DEF SchedulesInv, SchedulesTyped
<1>6. CASE StillDue(w) /\ now + Defer > firer[w].due
  <2> DEFINE n == now + Defer
  <2>1. n \in Nat /\ schedules[i] # NoSchedule /\ n > schedules[i].next
    BY <1>2, <1>6, SchedulesAssumption DEF ClientTimes, StillDue
  <2>2. schedules' = [schedules EXCEPT ![i] = [schedules[i] EXCEPT !.next = n]]
    BY <1>4, <1>6
  <2> HIDE DEF n
  <2>3. /\ [schedules[i] EXCEPT !.next = n] \in [spec : Specs, origin : {"definition", "runtime"}, next : Nat]
        /\ [schedules[i] EXCEPT !.next = n].next = n /\ schedules[i].next \in Nat
    BY <1>2, <2>1 DEF SchedulesInv, SchedulesTyped
  <2>4. /\ schedules' \in [Schedules -> [spec : Specs, origin : {"definition", "runtime"}, next : Nat] \cup {NoSchedule}]
        /\ schedules'[i].next = n /\ \A s \in Schedules \ {i} : schedules'[s] = schedules[s]
    BY <1>2, <2>2, <2>3 DEF SchedulesInv, SchedulesTyped
  <2>5. \A s \in Schedules : \/ schedules'[s] = NoSchedule
                             \/ /\ schedules[s] # NoSchedule /\ schedules'[s] # NoSchedule
                                /\ schedules'[s].next >= schedules[s].next
    <3> SUFFICES ASSUME NEW s \in Schedules, schedules'[s] # NoSchedule
                 PROVE  schedules[s] # NoSchedule /\ schedules'[s].next >= schedules[s].next
      OBVIOUS
    <3>1. CASE s = i
      BY <2>1, <2>3, <2>4, <3>1
    <3>2. CASE s # i
      <4>1. schedules'[s] = schedules[s] /\ schedules[s] # NoSchedule
        BY <2>4, <3>2
      <4>2. schedules[s].next \in Nat
        BY <4>1 DEF SchedulesInv, SchedulesTyped
      <4> QED BY <4>1, <4>2
    <3> QED BY <3>1, <3>2
  <2>6. SchedulesTyped'
    BY <1>1, <1>3, <2>4 DEF SchedulesInv, SchedulesTyped
  <2> QED BY <1>1, <1>2, <2>5, <2>6, StaysPast
<1> QED BY <1>4, <1>5, <1>6

\* Every step keeps the invariant.
LEMMA SchedulesKeep == SchedulesInv /\ [SchedulesNext]_scheduleVars => SchedulesInv'
<1> SUFFICES ASSUME SchedulesInv, [SchedulesNext]_scheduleVars PROVE SchedulesInv'
  OBVIOUS
<1>0. clock \in Nat /\ MaxTime \in Nat
  BY SchedulesAssumption DEF SchedulesInv, SchedulesTyped
<1>1. ASSUME NEW a \in Admins, NEW s \in Schedules, NEW spec \in Specs, SendUpsert(a, s, spec)
      PROVE  SchedulesInv'
  <2>1. PICK now \in ClientTimes :
          admin' = [admin EXCEPT ![a] = [call |-> "upsert",
                      specs |-> [t \in Schedules |-> IF t = s THEN spec ELSE NoSpec],
                      next |-> [t \in Schedules |-> IF t = s THEN FirstNext(spec, now) ELSE 0]]]
    BY <1>1 DEF SendUpsert
  <2>2. FirstNext(spec, now) \in Nat
    BY FirstIsNat DEF ClientTimes
  <2>3. UNCHANGED <<clock, schedules, firer, fired, late>>
    BY <1>1 DEF SendUpsert
  <2>4. SchedulesTyped'
    BY <2>1, <2>2, <2>3 DEF SchedulesInv, SchedulesTyped
  <2> QED BY <2>3, <2>4 DEF SchedulesInv, FiredIsPast, LateUpTo
<1>2. ASSUME NEW a \in Admins, NEW list \in Lists, SendSync(a, list)
      PROVE  SchedulesInv'
  <2>1. PICK now \in ClientTimes :
          admin' = [admin EXCEPT ![a] =
            [call |-> "sync", specs |-> list,
             next |-> [s \in Schedules |-> IF list[s] = NoSpec THEN 0 ELSE FirstNext(list[s], now)]]]
    BY <1>2 DEF SendSync
  <2>2. list \in [Schedules -> Specs \cup {NoSpec}]
    BY SchedulesAssumption
  <2>3. [s \in Schedules |-> IF list[s] = NoSpec THEN 0 ELSE FirstNext(list[s], now)] \in [Schedules -> Nat]
    BY <2>2, FirstIsNat DEF ClientTimes
  <2>4. UNCHANGED <<clock, schedules, firer, fired, late>>
    BY <1>2 DEF SendSync
  <2>5. SchedulesTyped'
    BY <2>1, <2>2, <2>3, <2>4 DEF SchedulesInv, SchedulesTyped
  <2> QED BY <2>4, <2>5 DEF SchedulesInv, FiredIsPast, LateUpTo
<1>3. ASSUME NEW a \in Admins, ArriveCall(a)
      PROVE  SchedulesInv'
  BY <1>3, ArriveKeeps
<1>4. ASSUME NEW a \in Admins, LoseCall(a)
      PROVE  SchedulesInv'
  BY <1>4 DEF LoseCall, SchedulesInv, SchedulesTyped, FiredIsPast, LateUpTo
<1>5. ASSUME NEW s \in Schedules, Unschedule(s)
      PROVE  SchedulesInv'
  <2>1. /\ schedules' = [schedules EXCEPT ![s] = NoSchedule]
        /\ UNCHANGED <<clock, firer, admin, fired, late>>
    BY <1>5 DEF Unschedule
  <2>2. SchedulesTyped'
    BY <2>1 DEF SchedulesInv, SchedulesTyped
  <2>3. \A r \in Schedules \ {s} : schedules'[r] = schedules[r]
    BY <2>1 DEF SchedulesInv, SchedulesTyped
  <2> QED BY <2>1, <2>2, <2>3 DEF SchedulesInv, SchedulesTyped, FiredIsPast, LateUpTo
<1>6. ASSUME NEW s \in Schedules, NEW w \in Firers, ClaimDue(w, s)
      PROVE  SchedulesInv'
  <2>1. /\ firer' = [firer EXCEPT ![w] = [id |-> s, spec |-> schedules[s].spec, due |-> schedules[s].next]]
        /\ UNCHANGED <<clock, schedules, admin, fired, late>> /\ schedules[s] # NoSchedule
    BY <1>6 DEF ClaimDue
  <2>2. SchedulesTyped'
    BY <2>1 DEF SchedulesInv, SchedulesTyped
  <2> QED BY <2>1, <2>2 DEF SchedulesInv, FiredIsPast, LateUpTo
<1>7. ASSUME NEW w \in Firers, Fire(w) \/ Deferred(w)
      PROVE  SchedulesInv'
  BY <1>7, FireKeeps, DeferKeeps
<1>8. ASSUME NEW w \in Firers, LeaveRound(w)
      PROVE  SchedulesInv'
  BY <1>8 DEF LeaveRound, SchedulesInv, SchedulesTyped, FiredIsPast, LateUpTo
<1>9. CASE SchedulesTick
  <2>1. UNCHANGED <<schedules, firer, admin, fired, late>> /\ clock' = clock + 1 /\ clock' \in 0 .. MaxTime
    BY <1>0, <1>9 DEF SchedulesTick
  <2>2. SchedulesTyped'
    BY <2>1 DEF SchedulesInv, SchedulesTyped
  <2>3. ASSUME NEW t \in 0 .. MaxTime, t <= clock PROVE t <= clock'
    BY <1>0, <2>1, <2>3
  <2> QED BY <2>1, <2>2, <2>3 DEF SchedulesInv, FiredIsPast, LateUpTo
<1>10. CASE UNCHANGED scheduleVars
  BY <1>10 DEF scheduleVars, SchedulesInv, SchedulesTyped, FiredIsPast, LateUpTo
<1> QED
  BY <1>1, <1>2, <1>3, <1>4, <1>5, <1>6, <1>7, <1>8, <1>9, <1>10 DEF SchedulesNext

\* No schedule at first, and nothing fired.
LEMMA SchedulesStart == SchedulesInit => SchedulesInv
BY SchedulesAssumption DEF SchedulesInit, SchedulesInv, SchedulesTyped, FiredIsPast

\* An occurrence adds one job at most, whoever holds it and however far the clocks
\* are apart, unless a late call wrote a moment that had passed.
THEOREM OncePerOccurrenceHolds == SchedulesSpec => []OncePerOccurrence
<1>1. ASSUME SchedulesInv, NEW s \in Schedules, NEW t \in 0 .. MaxTime
      PROVE  fired[<<s, t>>] <= 1 \/ LateUpTo(s, t)
  BY <1>1 DEF SchedulesInv, SchedulesTyped, FiredIsPast
<1>2. SchedulesInv => OncePerOccurrence
  BY <1>1 DEF LateUpTo, OncePerOccurrence
<1> QED BY <1>2, SchedulesStart, SchedulesKeep, PTL DEF SchedulesSpec

\* Only FIRE moves it on.
LEMMA OnlyFireMoves ==
  ASSUME SchedulesInv, [SchedulesNext]_scheduleVars, NEW s \in Schedules, DueMovesOn(s)
  PROVE  \E w \in Firers : Fire(w) /\ StillDue(w) /\ firer[w].id = s
<1> USE DEF DueMovesOn
<1>1. schedules' # schedules
  OBVIOUS
<1>2. ASSUME NEW a \in Admins, ArriveCall(a)
      PROVE  FALSE
  <2>1. /\ admin[a] # NoCall
        /\ schedules'[s] = IF s \in Writable(a) THEN Upserted(a, s)
                           ELSE IF admin[a].call = "sync" /\ s \in owned /\ schedules[s].origin = "definition"
                                THEN NoSchedule ELSE schedules[s]
    BY <1>2 DEF ArriveCall
  <2>2. NoSchedule.origin # "definition"
    BY DEF NoSchedule
  <2>3. s \in Writable(a) /\ schedules'[s] = Upserted(a, s)
    BY <2>1, <2>2
  <2>4. admin[a].call = "sync"
    BY <2>3 DEF Writable
  <2>5. Upserted(a, s).spec = admin[a].specs[s]
    BY DEF Upserted
  <2>6. Keeps(a, s)
    BY <2>3, <2>4, <2>5 DEF Keeps
  <2> QED BY <2>3, <2>6 DEF Upserted
<1>3. ASSUME NEW r \in Schedules, Unschedule(r)
      PROVE  FALSE
  BY <1>3 DEF Unschedule, NoSchedule, SchedulesInv, SchedulesTyped
<1>4. ASSUME NEW w \in Firers, Deferred(w)
      PROVE  FALSE
  <2>1. PICK now \in ClientTimes : schedules' = [schedules EXCEPT ![firer[w].id].next = now + Defer]
    BY <1>1, <1>4 DEF Deferred
  <2>2. firer[w].id # s
    BY <1>4 DEF Deferred
  <2> QED BY <2>1, <2>2 DEF SchedulesInv, SchedulesTyped
<1>5. ASSUME NEW w \in Firers, Fire(w)
      PROVE  StillDue(w) /\ firer[w].id = s
  <2>1. StillDue(w)
    BY <1>1, <1>5 DEF Fire
  <2>2. PICK now \in ClientTimes :
          schedules' = [schedules EXCEPT ![firer[w].id].next = NextOf(firer[w].spec, firer[w].due, now)]
    BY <1>5, <2>1 DEF Fire
  <2> DEFINE n == NextOf(firer[w].spec, firer[w].due, now)
  <2> HIDE DEF n
  <2>3. schedules' = [schedules EXCEPT ![firer[w].id].next = n]
    BY <2>2 DEF n
  <2> QED BY <2>1, <2>3 DEF SchedulesInv, SchedulesTyped
<1>6. \E w \in Firers : Fire(w)
  <2>1. CASE SchedulesNext
    BY <2>1, <1>1, <1>2, <1>3, <1>4 DEF SchedulesNext, SendUpsert, SendSync, LoseCall, ClaimDue, LeaveRound, SchedulesTick
  <2>2. CASE UNCHANGED scheduleVars
    BY <1>1, <2>2 DEF scheduleVars
  <2> QED BY <2>1, <2>2
<1> QED BY <1>5, <1>6

\* FIRE adds one job to the occurrence its schedule stands at.
LEMMA FireAdds ==
  ASSUME SchedulesInv, NEW w \in Firers, Fire(w), StillDue(w)
  PROVE  LET o == <<firer[w].id, schedules[firer[w].id].next>> IN fired'[o] = fired[o] + 1
<1> DEFINE i == firer[w].id
           due == firer[w].due
<1>1. fired' = [fired EXCEPT ![<<i, due>>] = @ + 1] /\ firer[w] # NothingDue
  BY DEF Fire
<1>2. i \in Schedules /\ due \in Nat /\ schedules[i].next = due /\ due <= clock
  BY <1>1 DEF SchedulesInv, SchedulesTyped, StillDue
<1>3. clock <= MaxTime /\ clock \in Nat /\ MaxTime \in Nat
  BY SchedulesAssumption DEF SchedulesInv, SchedulesTyped
<1>4. <<i, due>> \in Schedules \X (0 .. MaxTime)
  BY <1>2, <1>3
<1> QED BY <1>1, <1>2, <1>4 DEF SchedulesInv, SchedulesTyped

\* No deploy skips an occurrence: what moves a schedule that stays on past a moment
\* that has come is the step that adds its job.
THEOREM DueIsFiredHolds == SchedulesSpec => DueIsFired
<1>1. ASSUME SchedulesInv, [SchedulesNext]_scheduleVars, NEW s \in Schedules, DueMovesOn(s)
      PROVE  fired'[<<s, schedules[s].next>>] = fired[<<s, schedules[s].next>>] + 1
  <2>1. PICK w \in Firers : Fire(w) /\ StillDue(w) /\ firer[w].id = s
    BY <1>1, OnlyFireMoves
  <2> QED BY <1>1, <2>1, FireAdds
<1>2. SchedulesInv /\ [SchedulesNext]_scheduleVars =>
        [\A s \in Schedules :
           DueMovesOn(s) => fired'[<<s, schedules[s].next>>] = fired[<<s, schedules[s].next>>] + 1]_scheduleVars
  BY <1>1
<1> QED BY <1>2, SchedulesStart, SchedulesKeep, PTL DEF SchedulesSpec, DueIsFired

(***************************************************************************)
(* Channels: each message is once on its way to a connection, and is read  *)
(* only while the hub that carries it lives.                               *)
(***************************************************************************)

\* Message m is in the queue q of a connection; q holds none twice.
Carries(q, m) == \E i \in 1 .. Len(q) : q[i] = m
NoneTwice(q) == \A i, j \in 1 .. Len(q) : q[i] = q[j] => i = j

\* It is on its way here on the subscription the hub holds.
Coming(h, as, m) == h.opened # NoAttempt /\ Carries(as[h.opened].pipe, m)

Sends == {"confirmed", "open", "closing"}

AttemptsOK(as) ==
  /\ as \in [Attempts -> [at : {"none", "sent", "confirmed", "open", "closing", "over"},
                          pipe : Seq(Messages)]]
  /\ \A a \in Attempts : /\ NoneTwice(as[a].pipe)
                         /\ as[a].at \in {"none", "sent"} => as[a].pipe = <<>>

Stream == [at : {"new", "in", "left"}, awaits : Attempts \cup {NoAttempt},
           ready : BOOLEAN, heard : [Messages -> Nat]]

Message == [at : {"new", "reached", "answered", "here", "repeated"}, owed : SUBSET Streams]

\* The hub counts the iterators it holds, which are those that are in, and is
\* live while its attempt is open.
HubOK ==
  /\ hub \in [by : SUBSET Streams, count : Nat, opened : Attempts \cup {NoAttempt},
              live : BOOLEAN, closed : BOOLEAN]
  /\ IsFiniteSet(hub.by) /\ hub.count = Cardinality(hub.by)
  /\ \A s \in Streams : s \in hub.by <=> streams[s].at = "in"
  /\ hub.opened # NoAttempt => attempts[hub.opened].at \in {"sent", "confirmed", "open"}
  /\ hub.live <=> hub.opened # NoAttempt /\ attempts[hub.opened].at = "open"

\* An iterator that is in awaits the attempt of the hub, and is ready only while
\* that is live.
StreamsOK ==
  /\ streams \in [Streams -> Stream]
  /\ \A s \in Streams :
       /\ streams[s].at = "new" => ~streams[s].ready /\ streams[s].awaits = NoAttempt
       /\ streams[s].at = "in" /\ streams[s].awaits # NoAttempt => streams[s].awaits = hub.opened
       /\ streams[s].at = "in" /\ streams[s].ready => hub.live

\* A message is on connections once Redis took it, and who it was promised to was
\* ready by then.
MessagesOK ==
  /\ messages \in [Messages -> Message]
  /\ \A m \in Messages :
       /\ \A a \in Attempts :
            Carries(attempts[a].pipe, m) => messages[m].at \in {"reached", "answered", "repeated"}
       /\ \A s \in messages[m].owed : KeyOf[s] = KeyOf[m] /\ streams[s].ready /\ streams[s].at # "new"

\* How often it may be heard still: a connection of the hub brings it once.
HeardOK ==
  \A s \in Streams, m \in Messages :
    /\ messages[m].at = "new" => streams[s].heard[m] = 0
    /\ streams[s].heard[m] <= IF messages[m].at = "repeated" THEN 2 ELSE 1
    /\ Coming(hub, attempts, m) => streams[s].heard[m] <= IF messages[m].at = "repeated" THEN 1 ELSE 0
    /\ s \in messages[m].owed /\ streams[s].at = "in" => streams[s].heard[m] > 0 \/ Coming(hub, attempts, m)

StreamsInv == AttemptsOK(attempts) /\ HubOK /\ StreamsOK /\ MessagesOK /\ HeardOK

-----------------------------------------------------------------------------

\* The first message leaves its connection.
LEMMA TailCarries ==
  ASSUME NEW q \in Seq(Messages), q # <<>>, NoneTwice(q)
  PROVE  /\ Head(q) \in Messages /\ Tail(q) \in Seq(Messages) /\ NoneTwice(Tail(q))
         /\ Carries(q, Head(q)) /\ ~Carries(Tail(q), Head(q))
         /\ \A m : m # Head(q) => (Carries(Tail(q), m) <=> Carries(q, m))
<1>1. /\ Head(q) \in Messages /\ Head(q) = q[1] /\ Tail(q) \in Seq(Messages)
      /\ Len(q) \in Nat \ {0} /\ Len(Tail(q)) = Len(q) - 1
      /\ \A i \in 1 .. Len(q) - 1 : Tail(q)[i] = q[i + 1]
  OBVIOUS
<1>2. NoneTwice(Tail(q))
  <2> SUFFICES ASSUME NEW i \in 1 .. Len(q) - 1, NEW j \in 1 .. Len(q) - 1, q[i + 1] = q[j + 1]
               PROVE  i = j
    BY <1>1 DEF NoneTwice
  <2>1. i + 1 \in 1 .. Len(q) /\ j + 1 \in 1 .. Len(q)
    BY <1>1
  <2>2. i + 1 = j + 1
    BY <2>1 DEF NoneTwice
  <2> QED BY <2>2
<1>3. Carries(q, Head(q))
  BY <1>1 DEF Carries
<1>4. ~Carries(Tail(q), Head(q))
  <2> SUFFICES ASSUME NEW i \in 1 .. Len(q) - 1, q[i + 1] = q[1] PROVE FALSE
    BY <1>1 DEF Carries
  <2>1. i + 1 \in 1 .. Len(q) /\ 1 \in 1 .. Len(q) /\ i + 1 # 1
    BY <1>1
  <2> QED BY <2>1 DEF NoneTwice
<1>5. ASSUME NEW m, m # Head(q)
      PROVE  Carries(Tail(q), m) <=> Carries(q, m)
  <2>1. ASSUME Carries(Tail(q), m) PROVE Carries(q, m)
    <3>1. PICK i \in 1 .. Len(q) - 1 : q[i + 1] = m
      BY <1>1, <2>1 DEF Carries
    <3>2. i + 1 \in 1 .. Len(q)
      BY <1>1
    <3> QED BY <3>1, <3>2 DEF Carries
  <2>2. ASSUME Carries(q, m) PROVE Carries(Tail(q), m)
    <3>1. PICK i \in 1 .. Len(q) : q[i] = m
      BY <2>2 DEF Carries
    <3>2. i # 1
      BY <1>1, <1>5, <3>1
    <3>3. i - 1 \in 1 .. Len(q) - 1 /\ (i - 1) + 1 = i
      BY <1>1, <3>2
    <3> QED BY <1>1, <3>1, <3>3 DEF Carries
  <2> QED BY <2>1, <2>2
<1> QED BY <1>1, <1>2, <1>3, <1>4, <1>5

\* A message joins a connection that had it not.
LEMMA AppendCarries ==
  ASSUME NEW q \in Seq(Messages), NEW m \in Messages, NoneTwice(q), ~Carries(q, m)
  PROVE  /\ Append(q, m) \in Seq(Messages) /\ NoneTwice(Append(q, m))
         /\ \A n : Carries(Append(q, m), n) <=> n = m \/ Carries(q, n)
<1>1. /\ Append(q, m) \in Seq(Messages) /\ Len(q) \in Nat /\ Len(Append(q, m)) = Len(q) + 1
      /\ Append(q, m)[Len(q) + 1] = m /\ \A i \in 1 .. Len(q) : Append(q, m)[i] = q[i]
  OBVIOUS
<1>2. \A i \in 1 .. Len(q) + 1 : i \in 1 .. Len(q) \/ i = Len(q) + 1
  BY <1>1
<1>3. NoneTwice(Append(q, m))
  BY <1>1, <1>2 DEF NoneTwice, Carries
<1>4. ASSUME NEW n
      PROVE  Carries(Append(q, m), n) <=> n = m \/ Carries(q, n)
  <2>1. 1 .. Len(q) \subseteq 1 .. Len(q) + 1 /\ Len(q) + 1 \in 1 .. Len(q) + 1
    BY <1>1
  <2> QED BY <1>1, <1>2, <2>1 DEF Carries
<1> QED BY <1>1, <1>3, <1>4

\* Nothing is on an empty queue.
LEMMA NothingCarried == \A m : ~Carries(<<>>, m) /\ NoneTwice(<<>>) /\ <<>> \in Seq(Messages)
BY DEF Carries, NoneTwice

-----------------------------------------------------------------------------

\* A step that tells no iterator anything and publishes nothing.
LEMMA HeardKept ==
  ASSUME HeardOK, UNCHANGED messages,
         \A s \in Streams : streams'[s].heard = streams[s].heard,
         \A s \in Streams, m \in Messages :
           s \in messages[m].owed /\ streams'[s].at = "in" =>
             streams[s].at = "in" /\ (Coming(hub, attempts, m) => Coming(hub', attempts', m)),
         \A m \in Messages : Coming(hub', attempts', m) => Coming(hub, attempts, m)
  PROVE  HeardOK'
BY DEF HeardOK

\* Of messages that are published as before, and on connections that were.
LEMMA MessagesKept ==
  ASSUME MessagesOK, UNCHANGED messages,
         \A s \in Streams : /\ streams[s].ready => streams'[s].ready
                            /\ streams[s].at # "new" => streams'[s].at # "new",
         \A a \in Attempts, m \in Messages :
           Carries(attempts'[a].pipe, m) => Carries(attempts[a].pipe, m)
  PROVE  MessagesOK'
<1>1. \A m \in Messages : messages[m].owed \subseteq Streams
  BY DEF MessagesOK, Message
<1> QED BY <1>1 DEF MessagesOK

\* The attempts with one of them elsewhere, its connection as it was or closed.
LEMMA AttemptMoves ==
  ASSUME AttemptsOK(attempts), NEW a \in Attempts,
         NEW x \in [at : {"none", "sent", "confirmed", "open", "closing", "over"}, pipe : Seq(Messages)],
         x.pipe = attempts[a].pipe \/ x.pipe = <<>>,
         x.at \in {"none", "sent"} => x.pipe = <<>>,
         attempts' = [attempts EXCEPT ![a] = x]
  PROVE  /\ AttemptsOK(attempts') /\ attempts'[a] = x /\ \A b \in Attempts \ {a} : attempts'[b] = attempts[b]
         /\ \A b \in Attempts, m \in Messages :
              Carries(attempts'[b].pipe, m) => Carries(attempts[b].pipe, m)
<1>1. attempts'[a] = x /\ \A b \in Attempts \ {a} : attempts'[b] = attempts[b]
  BY DEF AttemptsOK
<1>2. attempts' \in [Attempts -> [at : {"none", "sent", "confirmed", "open", "closing", "over"}, pipe : Seq(Messages)]]
  BY DEF AttemptsOK
<1>3. ASSUME NEW b \in Attempts
      PROVE  /\ NoneTwice(attempts'[b].pipe)
             /\ attempts'[b].at \in {"none", "sent"} => attempts'[b].pipe = <<>>
             /\ \A m \in Messages : Carries(attempts'[b].pipe, m) => Carries(attempts[b].pipe, m)
  BY <1>1, NothingCarried DEF AttemptsOK
<1> QED BY <1>1, <1>2, <1>3 DEF AttemptsOK

\* Redis takes the SUBSCRIBE.
LEMMA ConfirmKeeps ==
  ASSUME StreamsInv, NEW a \in Attempts, Confirm(a)
  PROVE  StreamsInv'
<1> USE DEF StreamsInv
<1> DEFINE x == [attempts[a] EXCEPT !.at = "confirmed"]
<1>1. /\ attempts[a].at = "sent" /\ attempts' = [attempts EXCEPT ![a] = x]
      /\ UNCHANGED <<hub, streams, messages, fallback>>
  BY DEF Confirm
<1>2. /\ x \in [at : {"none", "sent", "confirmed", "open", "closing", "over"}, pipe : Seq(Messages)]
      /\ x.pipe = attempts[a].pipe /\ x.at = "confirmed"
  BY DEF AttemptsOK
<1> HIDE DEF x
<1>3. /\ AttemptsOK(attempts') /\ attempts'[a] = x /\ \A b \in Attempts \ {a} : attempts'[b] = attempts[b]
      /\ \A b \in Attempts, m \in Messages : Carries(attempts'[b].pipe, m) => Carries(attempts[b].pipe, m)
  BY <1>1, <1>2, AttemptMoves
<1>4. HubOK' /\ StreamsOK'
  BY <1>1, <1>2, <1>3, StreamsAssumption DEF HubOK, StreamsOK
<1>5. MessagesOK'
  BY <1>1, <1>3, MessagesKept
<1>6. \A m : Coming(hub', attempts', m) <=> Coming(hub, attempts, m)
  BY <1>1, <1>2, <1>3 DEF Coming, HubOK
<1>7. HeardOK'
  BY <1>1, <1>6, HeardKept
<1> QED BY <1>3, <1>4, <1>5, <1>7

\* The answer to it.
LEMMA ResolveKeeps ==
  ASSUME StreamsInv, NEW a \in Attempts, Resolve(a)
  PROVE  StreamsInv'
<1> USE DEF StreamsInv
<1> DEFINE x == [attempts[a] EXCEPT !.at = IF hub.opened = a THEN "open" ELSE "closing"]
<1>1. /\ attempts[a].at = "confirmed" /\ attempts' = [attempts EXCEPT ![a] = x]
      /\ UNCHANGED <<messages, fallback>>
      /\ hub' = IF hub.opened = a THEN [hub EXCEPT !.live = TRUE] ELSE hub
      /\ streams' = [s \in Streams |->
           IF streams[s].awaits = a THEN [streams[s] EXCEPT !.awaits = NoAttempt, !.ready = TRUE]
           ELSE streams[s]]
  BY DEF Resolve
<1>2. /\ x \in [at : {"none", "sent", "confirmed", "open", "closing", "over"}, pipe : Seq(Messages)]
      /\ x.pipe = attempts[a].pipe /\ x.at = IF hub.opened = a THEN "open" ELSE "closing"
  BY DEF AttemptsOK
<1> HIDE DEF x
<1>3. /\ AttemptsOK(attempts') /\ attempts'[a] = x /\ \A b \in Attempts \ {a} : attempts'[b] = attempts[b]
      /\ \A b \in Attempts, m \in Messages : Carries(attempts'[b].pipe, m) => Carries(attempts[b].pipe, m)
  BY <1>1, <1>2, AttemptMoves
<1>4. ASSUME NEW s \in Streams
      PROVE  /\ streams'[s] \in Stream /\ streams'[s].at = streams[s].at /\ streams'[s].heard = streams[s].heard
             /\ streams[s].awaits = a => streams'[s].awaits = NoAttempt /\ streams'[s].ready
             /\ streams[s].awaits # a => streams'[s] = streams[s]
  BY <1>1 DEF StreamsOK, Stream
<1>5. /\ hub'.opened = hub.opened /\ hub'.by = hub.by /\ hub'.count = hub.count
      /\ hub'.live <=> hub.live \/ hub.opened = a
      /\ hub' \in [by : SUBSET Streams, count : Nat, opened : Attempts \cup {NoAttempt},
                   live : BOOLEAN, closed : BOOLEAN]
  BY <1>1 DEF HubOK
<1>6. HubOK'
  <2>1. a # NoAttempt
    BY StreamsAssumption DEF Attempts
  <2>2. /\ hub'.opened # NoAttempt => attempts'[hub'.opened].at \in {"sent", "confirmed", "open"}
        /\ hub'.live <=> hub'.opened # NoAttempt /\ attempts'[hub'.opened].at = "open"
    <3>1. CASE hub.opened = a
      BY <1>2, <1>3, <1>5, <2>1, <3>1 DEF HubOK
    <3>2. CASE hub.opened # a
      BY <1>3, <1>5, <3>2 DEF HubOK
    <3> QED BY <3>1, <3>2
  <2> QED BY <1>4, <1>5, <2>2 DEF HubOK
<1>7. StreamsOK'
  <2>1. streams' \in [Streams -> Stream]
    BY <1>1, <1>4
  <2>2. a # NoAttempt
    BY StreamsAssumption DEF Attempts
  <2> QED BY <1>4, <1>5, <2>1, <2>2 DEF StreamsOK
<1>8. MessagesOK'
  BY <1>1, <1>3, <1>4, MessagesKept DEF StreamsOK
<1>9. \A m : Coming(hub', attempts', m) <=> Coming(hub, attempts, m)
  BY <1>2, <1>3, <1>5 DEF Coming, HubOK
<1>10. HeardOK'
  BY <1>1, <1>4, <1>9, HeardKept
<1> QED BY <1>3, <1>6, <1>7, <1>8, <1>10

\* An attempt that fails: it had brought nothing, and no iterator was ready.
LEMMA SubscribeFailsKeeps ==
  ASSUME StreamsInv, NEW a \in Attempts, SubscribeFails(a)
  PROVE  StreamsInv'
<1> USE DEF StreamsInv
<1> DEFINE x == [attempts[a] EXCEPT !.at = "over"]
<1>1. /\ attempts[a].at = "sent" /\ attempts' = [attempts EXCEPT ![a] = x]
      /\ UNCHANGED <<messages, fallback>>
      /\ hub' = IF hub.opened = a THEN [hub EXCEPT !.opened = NoAttempt] ELSE hub
      /\ streams' = [s \in Streams |->
           IF streams[s].awaits = a THEN [streams[s] EXCEPT !.awaits = NoAttempt] ELSE streams[s]]
  BY DEF SubscribeFails
<1>2. /\ x \in [at : {"none", "sent", "confirmed", "open", "closing", "over"}, pipe : Seq(Messages)]
      /\ x.pipe = attempts[a].pipe /\ x.at = "over" /\ attempts[a].pipe = <<>>
  BY <1>1 DEF AttemptsOK
<1> HIDE DEF x
<1>3. /\ AttemptsOK(attempts') /\ attempts'[a] = x /\ \A b \in Attempts \ {a} : attempts'[b] = attempts[b]
      /\ \A b \in Attempts, m \in Messages : Carries(attempts'[b].pipe, m) => Carries(attempts[b].pipe, m)
  BY <1>1, <1>2, AttemptMoves
<1>4. ASSUME NEW s \in Streams
      PROVE  /\ streams'[s] \in Stream /\ streams'[s].at = streams[s].at /\ streams'[s].heard = streams[s].heard
             /\ streams'[s].ready = streams[s].ready
             /\ streams'[s].awaits = IF streams[s].awaits = a THEN NoAttempt ELSE streams[s].awaits
  BY <1>1 DEF StreamsOK, Stream
<1>5. /\ hub'.opened = IF hub.opened = a THEN NoAttempt ELSE hub.opened
      /\ hub'.by = hub.by /\ hub'.count = hub.count /\ hub'.live = hub.live
      /\ hub' \in [by : SUBSET Streams, count : Nat, opened : Attempts \cup {NoAttempt},
                   live : BOOLEAN, closed : BOOLEAN]
  BY <1>1 DEF HubOK
<1>6. HubOK'
  BY <1>1, <1>2, <1>3, <1>4, <1>5, StreamsAssumption DEF HubOK
<1>7. StreamsOK'
  <2>1. streams' \in [Streams -> Stream]
    BY <1>1, <1>4
  <2> QED BY <1>4, <1>5, <2>1 DEF StreamsOK
<1>8. MessagesOK'
  BY <1>1, <1>3, <1>4, MessagesKept DEF StreamsOK
<1>9. \A m : Coming(hub', attempts', m) <=> Coming(hub, attempts, m)
  BY <1>2, <1>3, <1>5, NothingCarried DEF Coming, HubOK
<1>10. HeardOK'
  BY <1>1, <1>4, <1>9, HeardKept
<1> QED BY <1>3, <1>6, <1>7, <1>8, <1>10

\* A connection the hub let go of is closed.
LEMMA ClosedKeeps ==
  ASSUME StreamsInv, NEW a \in Attempts, Closed(a)
  PROVE  StreamsInv'
<1> USE DEF StreamsInv
<1> DEFINE x == [attempts[a] EXCEPT !.at = "over", !.pipe = <<>>]
<1>1. /\ attempts[a].at = "closing" /\ attempts' = [attempts EXCEPT ![a] = x]
      /\ UNCHANGED <<hub, streams, messages, fallback>>
  BY DEF Closed
<1>2. /\ x \in [at : {"none", "sent", "confirmed", "open", "closing", "over"}, pipe : Seq(Messages)]
      /\ x.pipe = <<>> /\ x.at = "over"
  BY NothingCarried DEF AttemptsOK
<1> HIDE DEF x
<1>3. /\ AttemptsOK(attempts') /\ attempts'[a] = x /\ \A b \in Attempts \ {a} : attempts'[b] = attempts[b]
      /\ \A b \in Attempts, m \in Messages : Carries(attempts'[b].pipe, m) => Carries(attempts[b].pipe, m)
  BY <1>1, <1>2, AttemptMoves
<1>4. HubOK' /\ StreamsOK'
  BY <1>1, <1>2, <1>3, StreamsAssumption DEF HubOK, StreamsOK
<1>5. MessagesOK'
  BY <1>1, <1>3, MessagesKept
<1>6. hub.opened # a
  BY <1>1, StreamsAssumption DEF HubOK, Attempts
<1>7. \A m : Coming(hub', attempts', m) <=> Coming(hub, attempts, m)
  BY <1>1, <1>3, <1>6 DEF Coming, HubOK
<1>8. HeardOK'
  BY <1>1, <1>7, HeardKept
<1> QED BY <1>3, <1>4, <1>5, <1>8

\* The hub lets its subscription go: no connection loses or gains a message.
LEMMA LetGoMoves ==
  ASSUME AttemptsOK(attempts), HubOK, attempts' = LetGoOf
  PROVE  /\ AttemptsOK(attempts')
         /\ \A b \in Attempts, m \in Messages :
              Carries(attempts'[b].pipe, m) => Carries(attempts[b].pipe, m)
<1>1. CASE ~hub.live
  BY <1>1 DEF LetGoOf
<1>2. CASE hub.live
  <2> DEFINE a == hub.opened
             x == [attempts[a] EXCEPT !.at = "closing"]
  <2>1. a \in Attempts /\ attempts' = [attempts EXCEPT ![a] = x]
    BY <1>2 DEF LetGoOf, HubOK
  <2>2. /\ x \in [at : {"none", "sent", "confirmed", "open", "closing", "over"}, pipe : Seq(Messages)]
        /\ x.pipe = attempts[a].pipe /\ x.at = "closing"
    BY <2>1 DEF AttemptsOK
  <2> HIDE DEF x, a
  <2> QED BY <2>1, <2>2, AttemptMoves
<1> QED BY <1>1, <1>2

\* The last iterator leaves, or all do.
LEMMA AllLeave ==
  ASSUME StreamsInv, attempts' = LetGoOf, UNCHANGED messages,
         hub' \in [by : SUBSET Streams, count : Nat, opened : Attempts \cup {NoAttempt},
                  live : BOOLEAN, closed : BOOLEAN],
         hub'.by = {}, hub'.count = 0, hub'.opened = NoAttempt, hub'.live = FALSE,
         streams' \in [Streams -> Stream],
         \A s \in Streams : /\ streams'[s].heard = streams[s].heard
                            /\ streams'[s].ready = streams[s].ready
                            /\ streams'[s].awaits = streams[s].awaits
                            /\ streams'[s].at = "left" \/ (streams'[s].at = "new" /\ streams[s].at = "new")
  PROVE  StreamsInv'
<1> USE DEF StreamsInv
<1>1. /\ AttemptsOK(attempts')
      /\ \A b \in Attempts, m \in Messages : Carries(attempts'[b].pipe, m) => Carries(attempts[b].pipe, m)
  BY LetGoMoves
<1>3. HubOK'
  BY FS_EmptySet DEF HubOK
<1>4. StreamsOK'
  BY DEF StreamsOK
<1>5. MessagesOK'
  BY <1>1, MessagesKept
<1>6. \A m : ~Coming(hub', attempts', m)
  BY DEF Coming
<1>7. HeardOK'
  BY <1>6, HeardKept
<1> QED BY <1>1, <1>3, <1>4, <1>5, <1>7

\* An iterator leaves.
LEMMA LeaveKeeps ==
  ASSUME StreamsInv, NEW s \in Streams, Leave(s)
  PROVE  StreamsInv'
<1> USE DEF StreamsInv
<1>1. streams' = [streams EXCEPT ![s].at = "left"] /\ UNCHANGED <<messages, fallback>>
  BY DEF Leave
<1>2. /\ streams' \in [Streams -> Stream] /\ streams'[s].at = "left"
      /\ streams'[s].ready = streams[s].ready /\ streams'[s].awaits = streams[s].awaits
      /\ streams'[s].heard = streams[s].heard
      /\ \A t \in Streams \ {s} : streams'[t] = streams[t]
  BY <1>1 DEF StreamsOK, Stream
<1>3. CASE ~CountsOut(s)
  <2>1. UNCHANGED <<hub, attempts>> /\ s \notin hub.by
    BY <1>3 DEF Leave, CountsOut
  <2>2. HubOK'
    BY <1>2, <2>1 DEF HubOK
  <2>3. StreamsOK'
    BY <1>2, <2>1 DEF StreamsOK
  <2>4. MessagesOK'
    BY <1>1, <1>2, <2>1, MessagesKept
  <2>5. HeardOK'
    BY <1>1, <1>2, <2>1, HeardKept
  <2> QED BY <2>1, <2>2, <2>3, <2>4, <2>5
<1>10. CountsOut(s) =>
         /\ s \in hub.by /\ attempts' = IF hub.count = 1 THEN LetGoOf ELSE attempts
         /\ hub'.by = hub.by \ {s} /\ hub'.count = hub.count - 1 /\ hub'.closed = hub.closed
         /\ hub'.opened = IF hub.count = 1 THEN NoAttempt ELSE hub.opened
         /\ hub'.live = IF hub.count = 1 THEN FALSE ELSE hub.live
         /\ DOMAIN hub' = DOMAIN hub
         /\ hub' = [by |-> hub'.by, count |-> hub'.count, opened |-> hub'.opened,
                    live |-> hub'.live, closed |-> hub'.closed]
  <2> SUFFICES ASSUME CountsOut(s)
               PROVE  /\ s \in hub.by /\ attempts' = IF hub.count = 1 THEN LetGoOf ELSE attempts
                      /\ hub'.by = hub.by \ {s} /\ hub'.count = hub.count - 1 /\ hub'.closed = hub.closed
                      /\ hub'.opened = IF hub.count = 1 THEN NoAttempt ELSE hub.opened
                      /\ hub'.live = IF hub.count = 1 THEN FALSE ELSE hub.live
                      /\ DOMAIN hub' = DOMAIN hub
                      /\ hub' = [by |-> hub'.by, count |-> hub'.count, opened |-> hub'.opened,
                                 live |-> hub'.live, closed |-> hub'.closed]
    OBVIOUS
  <2>1. /\ hub' = [hub EXCEPT !.by = @ \ {s}, !.count = @ - 1,
                             !.opened = IF hub.count = 1 THEN NoAttempt ELSE @,
                             !.live = IF hub.count = 1 THEN FALSE ELSE @]
        /\ attempts' = IF hub.count = 1 THEN LetGoOf ELSE attempts
        /\ s \in hub.by
    BY DEF Leave, CountsOut
  <2> QED BY <2>1 DEF HubOK
<1>4. CASE CountsOut(s) /\ hub.count # 1
  <2>1. UNCHANGED attempts /\ s \in hub.by
    BY <1>4, <1>10
  <2>2. /\ IsFiniteSet(hub.by \ {s}) /\ Cardinality(hub.by \ {s}) = hub.count - 1 /\ hub.count - 1 \in Nat
    <3> DEFINE B == hub.by
    <3>1. IsFiniteSet(B) /\ hub.count = Cardinality(B) /\ s \in B
      BY <2>1 DEF HubOK
    <3> HIDE DEF B
    <3>2. IsFiniteSet(B \ {s}) /\ Cardinality(B \ {s}) = Cardinality(B) - 1
      BY <3>1, FS_RemoveElement
    <3>3. Cardinality(B \ {s}) \in Nat
      BY <3>2, FS_CardinalityType
    <3> QED BY <3>1, <3>2, <3>3 DEF B
  <2>3. /\ hub'.by = hub.by \ {s} /\ hub'.count = hub.count - 1 /\ hub'.opened = hub.opened
        /\ hub'.live = hub.live
        /\ hub' \in [by : SUBSET Streams, count : Nat, opened : Attempts \cup {NoAttempt},
                     live : BOOLEAN, closed : BOOLEAN]
    BY <1>4, <1>10, <2>2 DEF HubOK
  <2>4. HubOK'
    BY <1>2, <2>1, <2>2, <2>3 DEF HubOK
  <2>5. StreamsOK'
    BY <1>2, <2>3 DEF StreamsOK
  <2>6. MessagesOK'
    BY <1>1, <1>2, <2>1, MessagesKept
  <2>7. \A m : Coming(hub', attempts', m) <=> Coming(hub, attempts, m)
    BY <2>1, <2>3 DEF Coming
  <2>8. HeardOK'
    BY <1>1, <1>2, <2>7, HeardKept
  <2> QED BY <2>1, <2>4, <2>5, <2>6, <2>8
<1>5. CASE CountsOut(s) /\ hub.count = 1
  <2>1. attempts' = LetGoOf /\ s \in hub.by
    BY <1>5, <1>10
  <2>2. hub.by = {s}
    <3> DEFINE B == hub.by
    <3>1. IsFiniteSet(B) /\ Cardinality(B) = 1 /\ s \in B
      BY <1>5, <2>1 DEF HubOK
    <3> HIDE DEF B
    <3>2. PICK t : B = {t}
      BY <3>1, FS_Singleton
    <3> QED BY <3>1, <3>2 DEF B
  <2>3. /\ hub' \in [by : SUBSET Streams, count : Nat, opened : Attempts \cup {NoAttempt},
                     live : BOOLEAN, closed : BOOLEAN]
        /\ hub'.by = {} /\ hub'.count = 0 /\ hub'.opened = NoAttempt /\ hub'.live = FALSE
    <3>1. /\ hub'.by = {} /\ hub'.count = 0 /\ hub'.opened = NoAttempt /\ hub'.live = FALSE
          /\ hub'.closed \in BOOLEAN
          /\ hub' = [by |-> hub'.by, count |-> hub'.count, opened |-> hub'.opened,
                     live |-> hub'.live, closed |-> hub'.closed]
      <4>1. hub'.by = {s} \ {s} /\ hub'.count = 1 - 1 /\ hub.closed \in BOOLEAN
        BY <1>5, <1>10, <2>2 DEF HubOK
      <4>2. hub'.opened = NoAttempt /\ hub'.live = FALSE
        BY <1>5, <1>10
      <4>3. hub' = [by |-> hub'.by, count |-> hub'.count, opened |-> hub'.opened,
                   live |-> hub'.live, closed |-> hub'.closed] /\ hub'.closed = hub.closed
        BY <1>5, <1>10
      <4> QED BY <4>1, <4>2, <4>3
    <3>2. {} \in SUBSET Streams /\ 0 \in Nat
      OBVIOUS
    <3> QED BY <3>1, <3>2
  <2>4. \A t \in Streams \ {s} : streams[t].at \in {"new", "left"}
    BY <2>2 DEF HubOK, StreamsOK, Stream
  <2> QED BY <1>1, <1>2, <2>1, <2>3, <2>4, AllLeave
<1> QED BY <1>3, <1>4, <1>5

\* The hub closes.
LEMMA CloseHubKeeps ==
  ASSUME StreamsInv, CloseHub
  PROVE  StreamsInv'
<1>1. /\ hub' = [NewHub EXCEPT !.closed = TRUE] /\ attempts' = LetGoOf
      /\ streams' = [s \in Streams |-> [streams[s] EXCEPT !.at = "left"]] /\ UNCHANGED messages
  BY DEF CloseHub
<1>2. /\ hub' \in [by : SUBSET Streams, count : Nat, opened : Attempts \cup {NoAttempt},
                   live : BOOLEAN, closed : BOOLEAN]
      /\ hub'.by = {} /\ hub'.count = 0 /\ hub'.opened = NoAttempt /\ hub'.live = FALSE
  BY <1>1 DEF NewHub
<1>3. ASSUME NEW s \in Streams
      PROVE  /\ streams'[s] \in Stream /\ streams'[s].at = "left"
             /\ streams'[s].ready = streams[s].ready /\ streams'[s].awaits = streams[s].awaits
             /\ streams'[s].heard = streams[s].heard
  BY <1>1 DEF StreamsInv, StreamsOK, Stream
<1>4. streams' \in [Streams -> Stream]
  BY <1>1, <1>3
<1> QED BY <1>1, <1>2, <1>3, <1>4, AllLeave

\* An iterator begins, or is awaited: an attempt it makes has brought nothing.
LEMMA StartKeeps ==
  ASSUME StreamsInv, NEW s \in Streams, NEW waits \in BOOLEAN, Start(s, waits)
  PROVE  StreamsInv'
<1> USE DEF StreamsInv
<1>1. PICK a \in IF hub.opened = NoAttempt THEN Fresh ELSE {hub.opened} :
       /\ hub' = [hub EXCEPT !.by = @ \cup {s}, !.opened = a,
                             !.count = IF streams[s].at = "new" THEN @ + 1 ELSE @]
       /\ attempts' = IF hub.opened = NoAttempt THEN [attempts EXCEPT ![a].at = "sent"] ELSE attempts
       /\ streams' = [streams EXCEPT
            ![s].at = "in",
            ![s].awaits = IF waits /\ attempts'[a].at # "open" THEN a ELSE @,
            ![s].ready = @ \/ (waits /\ attempts'[a].at = "open")]
  BY DEF Start
<1>2. /\ streams[s].at \in {"new", "in"} /\ streams[s].awaits = NoAttempt /\ UNCHANGED <<messages, fallback>>
  BY DEF Start
<1>3. a \in Attempts /\ a # NoAttempt /\ (hub.opened = NoAttempt => attempts[a].at = "none")
  BY <1>1, StreamsAssumption DEF Fresh, HubOK, Attempts
<1>4. /\ AttemptsOK(attempts') /\ \A b \in Attempts \ {a} : attempts'[b] = attempts[b]
      /\ \A b \in Attempts, m \in Messages : Carries(attempts'[b].pipe, m) => Carries(attempts[b].pipe, m)
      /\ attempts'[a].pipe = attempts[a].pipe
      /\ attempts'[a].at = IF hub.opened = NoAttempt THEN "sent" ELSE attempts[a].at
  <2>1. CASE hub.opened # NoAttempt
    BY <1>1, <2>1
  <2>2. CASE hub.opened = NoAttempt
    <3> DEFINE x == [attempts[a] EXCEPT !.at = "sent"]
    <3>1. attempts' = [attempts EXCEPT ![a] = x]
      BY <1>1, <2>2
    <3>2. /\ x \in [at : {"none", "sent", "confirmed", "open", "closing", "over"}, pipe : Seq(Messages)]
          /\ x.pipe = attempts[a].pipe /\ x.at = "sent" /\ x.pipe = <<>>
      BY <1>3, <2>2 DEF AttemptsOK
    <3> HIDE DEF x
    <3> QED BY <1>3, <2>2, <3>1, <3>2, AttemptMoves
  <2> QED BY <2>1, <2>2
<1>5. /\ IsFiniteSet(hub.by \cup {s})
      /\ Cardinality(hub.by \cup {s}) = IF streams[s].at = "new" THEN hub.count + 1 ELSE hub.count
      /\ Cardinality(hub.by \cup {s}) \in Nat
  <2>1. s \in hub.by <=> streams[s].at # "new"
    BY <1>2 DEF HubOK
  <2> QED BY <2>1, FS_AddElement, FS_CardinalityType DEF HubOK
<1>6. /\ hub'.by = hub.by \cup {s} /\ hub'.opened = a /\ hub'.live = hub.live
      /\ hub'.count = Cardinality(hub'.by)
      /\ hub' \in [by : SUBSET Streams, count : Nat, opened : Attempts \cup {NoAttempt},
                   live : BOOLEAN, closed : BOOLEAN]
  BY <1>1, <1>3, <1>5 DEF HubOK
<1>7. /\ streams' \in [Streams -> Stream] /\ streams'[s].at = "in"
      /\ streams'[s].awaits \in {NoAttempt, a} /\ streams'[s].heard = streams[s].heard
      /\ streams'[s].ready <=> streams[s].ready \/ (waits /\ attempts'[a].at = "open")
      /\ \A t \in Streams \ {s} : streams'[t] = streams[t]
  <2> DEFINE aw == IF waits /\ attempts'[a].at # "open" THEN a ELSE streams[s].awaits
             rd == streams[s].ready \/ (waits /\ attempts'[a].at = "open")
             x == [streams[s] EXCEPT !.at = "in", !.awaits = aw, !.ready = rd]
  <2>1. aw \in {NoAttempt, a} /\ rd \in BOOLEAN
    BY <1>2
  <2>2. streams' = [streams EXCEPT ![s] = x]
    BY <1>1
  <2>3. /\ x \in Stream /\ x.at = "in" /\ x.awaits = aw /\ x.ready = rd
        /\ x.heard = streams[s].heard
    <3> HIDE DEF aw, rd
    <3> QED BY <1>3, <2>1 DEF StreamsOK, Stream
  <2> HIDE DEF x, aw
  <2> QED BY <2>1, <2>2, <2>3 DEF StreamsOK
<1>9. attempts'[a].at = "open" <=> hub.live
  BY <1>1, <1>3, <1>4 DEF HubOK
<1>10. HubOK'
  <2>1. attempts'[a].at \in {"sent", "confirmed", "open"}
    BY <1>1, <1>3, <1>4 DEF HubOK
  <2> QED BY <1>3, <1>5, <1>6, <1>7, <1>9, <2>1 DEF HubOK
<1>11. StreamsOK'
  <2>1. ASSUME NEW t \in Streams \ {s}, streams[t].at = "in", streams[t].awaits # NoAttempt
        PROVE  streams[t].awaits = a
    BY <1>1, <2>1 DEF StreamsOK
  <2> QED BY <1>2, <1>6, <1>7, <1>9, <2>1 DEF StreamsOK
<1>12. MessagesOK'
  BY <1>2, <1>4, <1>7, MessagesKept DEF StreamsOK
<1>13. \A m : Coming(hub', attempts', m) <=> Coming(hub, attempts, m)
  <2>1. CASE hub.opened # NoAttempt
    BY <1>1, <1>4, <1>6, <2>1 DEF Coming
  <2>2. CASE hub.opened = NoAttempt
    <3>1. attempts'[a].pipe = <<>>
      BY <1>3, <1>4, <2>2 DEF AttemptsOK
    <3> QED BY <1>6, <2>2, <3>1, NothingCarried DEF Coming
  <2> QED BY <2>1, <2>2
<1>14. HeardOK'
  <2>1. \A m \in Messages : s \in messages[m].owed => streams[s].at = "in"
    BY <1>2 DEF MessagesOK
  <2> QED BY <1>2, <1>7, <1>13, <2>1, HeardKept
<1> QED BY <1>4, <1>10, <1>11, <1>12, <1>14

-----------------------------------------------------------------------------

\* What the iterators of a message's key are pushed.
LEMMA PushedIs ==
  ASSUME StreamsOK, NEW m \in Messages
  PROVE  /\ Pushed(m) \in [Streams -> Stream]
         /\ \A s \in Streams :
              /\ Pushed(m)[s].at = streams[s].at /\ Pushed(m)[s].ready = streams[s].ready
              /\ Pushed(m)[s].awaits = streams[s].awaits
              /\ \A n \in Messages :
                   Pushed(m)[s].heard[n] =
                     IF n = m /\ s \in hub.by /\ KeyOf[s] = KeyOf[m]
                     THEN streams[s].heard[n] + 1 ELSE streams[s].heard[n]
<1> DEFINE p(s) == IF s \in hub.by /\ KeyOf[s] = KeyOf[m] THEN [streams[s] EXCEPT !.heard[m] = @ + 1]
                   ELSE streams[s]
<1>1. ASSUME NEW s \in Streams
      PROVE  /\ p(s) \in Stream
             /\ p(s).at = streams[s].at /\ p(s).ready = streams[s].ready
             /\ p(s).awaits = streams[s].awaits
             /\ \A n \in Messages :
                  p(s).heard[n] = IF n = m /\ s \in hub.by /\ KeyOf[s] = KeyOf[m]
                                  THEN streams[s].heard[n] + 1 ELSE streams[s].heard[n]
  <2>1. streams[s] \in Stream
    BY DEF StreamsOK
  <2>2. CASE s \in hub.by /\ KeyOf[s] = KeyOf[m]
    <3> DEFINE h == [streams[s].heard EXCEPT ![m] = @ + 1]
    <3>1. p(s) = [streams[s] EXCEPT !.heard = h]
      BY <2>2
    <3>2. /\ h \in [Messages -> Nat]
          /\ \A n \in Messages : h[n] = IF n = m THEN streams[s].heard[n] + 1 ELSE streams[s].heard[n]
      BY <2>1 DEF Stream
    <3> HIDE DEF h, p
    <3> QED BY <2>1, <2>2, <3>1, <3>2 DEF Stream
  <2>3. CASE ~(s \in hub.by /\ KeyOf[s] = KeyOf[m])
    BY <2>1, <2>3
  <2> QED BY <2>2, <2>3
<1>2. Pushed(m) = [s \in Streams |-> p(s)]
  BY DEF Pushed
<1> HIDE DEF p
<1> QED BY <1>1, <1>2

\* A message arrives on a connection.
LEMMA DeliveryKeeps ==
  ASSUME StreamsInv, NEW a \in Attempts, Delivery(a)
  PROVE  StreamsInv'
<1> USE DEF StreamsInv
<1> DEFINE q == attempts[a].pipe
           m == Head(q)
           x == [attempts[a] EXCEPT !.pipe = Tail(q)]
<1>1. /\ attempts[a].at \in Sends /\ q # <<>> /\ attempts' = [attempts EXCEPT ![a] = x]
      /\ streams' = (IF Delivers(a) THEN Pushed(m) ELSE streams)
      /\ UNCHANGED <<hub, messages, fallback>>
  BY DEF Delivery, Sends
<1>2. /\ q \in Seq(Messages) /\ NoneTwice(q)
  BY DEF AttemptsOK
<1>3. /\ m \in Messages /\ Tail(q) \in Seq(Messages) /\ NoneTwice(Tail(q))
      /\ Carries(q, m) /\ ~Carries(Tail(q), m)
      /\ \A n : n # m => (Carries(Tail(q), n) <=> Carries(q, n))
  BY <1>1, <1>2, TailCarries
<1>4. /\ x \in [at : {"none", "sent", "confirmed", "open", "closing", "over"}, pipe : Seq(Messages)]
      /\ x.pipe = Tail(q) /\ x.at = attempts[a].at
  BY <1>3 DEF AttemptsOK
<1> HIDE DEF x
<1>5. /\ AttemptsOK(attempts') /\ attempts'[a] = x /\ \A b \in Attempts \ {a} : attempts'[b] = attempts[b]
  <2>1. attempts'[a] = x /\ \A b \in Attempts \ {a} : attempts'[b] = attempts[b]
    BY <1>1 DEF AttemptsOK
  <2>2. attempts' \in [Attempts -> [at : {"none", "sent", "confirmed", "open", "closing", "over"},
                                    pipe : Seq(Messages)]]
    BY <1>1, <1>4 DEF AttemptsOK
  <2>3. x.at \notin {"none", "sent"} /\ NoneTwice(x.pipe)
    BY <1>1, <1>3, <1>4 DEF Sends
  <2> QED BY <2>1, <2>2, <2>3 DEF AttemptsOK
<1> HIDE DEF q
<1>6. \A b \in Attempts, n \in Messages : Carries(attempts'[b].pipe, n) => Carries(attempts[b].pipe, n)
  BY <1>3, <1>4, <1>5 DEF q
<1>7. HubOK' /\ StreamsOK' /\ MessagesOK' /\ \A s \in Streams : streams'[s].at = streams[s].at
  <2> HIDE DEF m
  <2>1. /\ streams' \in [Streams -> Stream]
        /\ \A s \in Streams : /\ streams'[s].at = streams[s].at /\ streams'[s].ready = streams[s].ready
                              /\ streams'[s].awaits = streams[s].awaits
    BY <1>1, <1>3, PushedIs DEF StreamsOK
  <2>2. \A b \in Attempts : attempts'[b].at = attempts[b].at
    BY <1>4, <1>5
  <2>3. HubOK'
    BY <1>1, <2>1, <2>2 DEF HubOK
  <2>4. StreamsOK'
    BY <1>1, <2>1 DEF StreamsOK
  <2>5. MessagesOK'
    BY <1>1, <1>6, <2>1, MessagesKept
  <2> QED BY <2>1, <2>3, <2>4, <2>5
<1>8. HeardOK'
  <2> HIDE DEF m
  <2>1. CASE hub.opened # a
    <3>1. UNCHANGED streams
      BY <1>1, <2>1 DEF Delivers
    <3>2. \A n : Coming(hub', attempts', n) <=> Coming(hub, attempts, n)
      BY <1>1, <1>5, <2>1 DEF Coming, HubOK
    <3> QED BY <1>1, <3>1, <3>2, HeardKept
  <2>2. CASE hub.opened = a
    <3>1. streams' = Pushed(m) /\ a # NoAttempt
      BY <1>1, <2>2, StreamsAssumption DEF Delivers, Attempts
    <3>2. /\ Coming(hub, attempts, m) /\ ~Coming(hub', attempts', m)
          /\ \A n : n # m => (Coming(hub', attempts', n) <=> Coming(hub, attempts, n))
      <4>1. /\ hub'.opened = a /\ attempts[a].pipe = q /\ attempts'[a].pipe = Tail(q)
            /\ a # NoAttempt
        BY <1>1, <1>4, <1>5, <2>2, <3>1 DEF q
      <4>2. /\ Carries(q, m) /\ ~Carries(Tail(q), m)
            /\ \A n : n # m => (Carries(Tail(q), n) <=> Carries(q, n))
        BY <1>3
      <4> QED BY <2>2, <4>1, <4>2 DEF Coming
    <3>3. ASSUME NEW s \in Streams, NEW n \in Messages
          PROVE  /\ messages'[n].at = "new" => streams'[s].heard[n] = 0
                 /\ streams'[s].heard[n] <= IF messages'[n].at = "repeated" THEN 2 ELSE 1
                 /\ Coming(hub', attempts', n) => streams'[s].heard[n] <= IF messages'[n].at = "repeated" THEN 1 ELSE 0
                 /\ s \in messages'[n].owed /\ streams'[s].at = "in" =>
                      streams'[s].heard[n] > 0 \/ Coming(hub', attempts', n)
      <4>1. /\ messages[n].at = "new" => streams[s].heard[n] = 0
            /\ streams[s].heard[n] <= IF messages[n].at = "repeated" THEN 2 ELSE 1
            /\ Coming(hub, attempts, n) => streams[s].heard[n] <= IF messages[n].at = "repeated" THEN 1 ELSE 0
            /\ s \in messages[n].owed /\ streams[s].at = "in" =>
                 streams[s].heard[n] > 0 \/ Coming(hub, attempts, n)
        BY DEF HeardOK
      <4>2. streams[s].heard[n] \in Nat /\ UNCHANGED messages
        BY <1>1 DEF StreamsOK, Stream
      <4>3. CASE n # m
        <5>1. streams'[s].heard[n] = streams[s].heard[n] /\ streams'[s].at = streams[s].at
          BY <1>3, <1>7, <3>1, <4>3, PushedIs
        <5> QED BY <3>2, <4>1, <4>2, <4>3, <5>1
      <4>4. CASE n = m
        <5>1. /\ streams'[s].heard[m] = IF s \in hub.by /\ KeyOf[s] = KeyOf[m]
                                        THEN streams[s].heard[m] + 1 ELSE streams[s].heard[m]
              /\ streams'[s].at = streams[s].at
          BY <1>3, <1>7, <3>1, PushedIs
        <5>2. messages[m].at # "new"
          BY <1>3, <2>2 DEF MessagesOK, q
        <5>3. s \in messages[m].owed /\ streams[s].at = "in" => s \in hub.by /\ KeyOf[s] = KeyOf[m]
          BY <1>3 DEF MessagesOK, HubOK
        <5> QED BY <3>2, <4>1, <4>2, <4>4, <5>1, <5>2, <5>3
      <4> QED BY <4>3, <4>4
    <3> QED BY <3>3 DEF HeardOK
  <2> QED BY <2>1, <2>2
<1> QED BY <1>5, <1>7, <1>8

\* Redis takes a message: it goes on each connection that is subscribed.
LEMMA ReachesKeeps ==
  ASSUME StreamsInv, NEW m \in Messages, Reaches(m)
  PROVE  StreamsInv'
<1> USE DEF StreamsInv
<1> DEFINE owed == {s \in Streams : streams[s].at = "in" /\ streams[s].ready /\ KeyOf[s] = KeyOf[m]}
<1>1. /\ messages[m].at = "new" /\ UNCHANGED <<hub, streams, fallback>>
      /\ attempts' = [a \in Attempts |->
           IF attempts[a].at \in Sends
           THEN [attempts[a] EXCEPT !.pipe = Append(@, m)] ELSE attempts[a]]
      /\ messages' = [messages EXCEPT ![m] = [at |-> "reached", owed |-> owed]]
  BY DEF Reaches, Sends
<1>2. ASSUME NEW a \in Attempts
      PROVE  /\ attempts'[a] \in [at : {"none", "sent", "confirmed", "open", "closing", "over"},
                                  pipe : Seq(Messages)]
             /\ attempts'[a].at = attempts[a].at /\ NoneTwice(attempts'[a].pipe)
             /\ attempts[a].at \notin Sends => attempts'[a] = attempts[a]
             /\ \A n : Carries(attempts'[a].pipe, n) <=>
                         (n = m /\ attempts[a].at \in Sends) \/ Carries(attempts[a].pipe, n)
  <2> DEFINE q == attempts[a].pipe
  <2>1. /\ q \in Seq(Messages) /\ NoneTwice(q)
        /\ attempts[a] \in [at : {"none", "sent", "confirmed", "open", "closing", "over"}, pipe : Seq(Messages)]
    BY DEF AttemptsOK
  <2>2. ~Carries(q, m)
    BY <1>1 DEF MessagesOK
  <2> HIDE DEF q
  <2>3. /\ Append(q, m) \in Seq(Messages) /\ NoneTwice(Append(q, m))
        /\ \A n : Carries(Append(q, m), n) <=> n = m \/ Carries(q, n)
    BY <2>1, <2>2, AppendCarries
  <2>4. CASE attempts[a].at \in Sends
    <3>1. attempts'[a] = [attempts[a] EXCEPT !.pipe = Append(q, m)]
      BY <1>1, <2>4 DEF q
    <3>2. attempts'[a].pipe = Append(q, m) /\ attempts'[a].at = attempts[a].at
      BY <2>1, <3>1
    <3>3. attempts'[a] \in [at : {"none", "sent", "confirmed", "open", "closing", "over"}, pipe : Seq(Messages)]
      BY <2>1, <2>3, <3>1
    <3> QED BY <2>3, <2>4, <3>2, <3>3 DEF q
  <2>5. CASE attempts[a].at \notin Sends
    BY <1>1, <2>1, <2>5 DEF q
  <2> QED BY <2>4, <2>5
<1>3. AttemptsOK(attempts')
  <2>1. \A a \in Attempts : attempts'[a].at \in {"none", "sent"} => attempts'[a].pipe = <<>>
    BY <1>2 DEF AttemptsOK, Sends
  <2>2. attempts' \in [Attempts -> [at : {"none", "sent", "confirmed", "open", "closing", "over"},
                                    pipe : Seq(Messages)]]
    BY <1>1, <1>2
  <2> QED BY <1>2, <2>1, <2>2 DEF AttemptsOK
<1>4. HubOK' /\ StreamsOK'
  BY <1>1, <1>2 DEF HubOK, StreamsOK
<1>5. /\ messages' \in [Messages -> Message] /\ messages'[m].at = "reached" /\ messages'[m].owed = owed
      /\ \A n \in Messages \ {m} : messages'[n] = messages[n]
  BY <1>1 DEF MessagesOK, Message
<1>6. MessagesOK'
  <2>1. ASSUME NEW n \in Messages, NEW a \in Attempts, Carries(attempts'[a].pipe, n)
        PROVE  messages'[n].at \in {"reached", "answered", "repeated"}
    BY <1>2, <1>5, <2>1 DEF MessagesOK
  <2>2. ASSUME NEW n \in Messages, NEW s \in messages'[n].owed
        PROVE  KeyOf[s] = KeyOf[n] /\ streams[s].ready /\ streams[s].at # "new"
    BY <1>5 DEF MessagesOK
  <2> QED BY <1>1, <1>5, <2>1, <2>2 DEF MessagesOK
<1>7. /\ \A n : n # m => (Coming(hub', attempts', n) <=> Coming(hub, attempts, n))
      /\ hub.live => Coming(hub', attempts', m)
  BY <1>1, <1>2 DEF Coming, HubOK, Sends
<1>8. ASSUME NEW s \in Streams, NEW n \in Messages
      PROVE  /\ messages'[n].at = "new" => streams[s].heard[n] = 0
             /\ streams[s].heard[n] <= IF messages'[n].at = "repeated" THEN 2 ELSE 1
             /\ Coming(hub', attempts', n) => streams[s].heard[n] <= IF messages'[n].at = "repeated" THEN 1 ELSE 0
             /\ s \in messages'[n].owed /\ streams[s].at = "in" =>
                  streams[s].heard[n] > 0 \/ Coming(hub', attempts', n)
  <2>1. CASE n = m
    <3>1. streams[s].heard[m] = 0
      BY <1>1 DEF HeardOK
    <3>2. s \in owed => hub.live
      BY DEF StreamsOK
    <3> QED BY <1>5, <1>7, <2>1, <3>1, <3>2
  <2>2. CASE n # m
    BY <1>5, <1>7, <2>2 DEF HeardOK
  <2> QED BY <2>1, <2>2
<1>9. HeardOK'
  BY <1>1, <1>8 DEF HeardOK
<1> QED BY <1>3, <1>4, <1>6, <1>9

\* A publish fails, or is answered.
LEMMA PublishKeeps ==
  ASSUME StreamsInv, NEW m \in Messages, PublishFails(m) \/ Answered(m)
  PROVE  StreamsInv'
<1> USE DEF StreamsInv
<1>1. /\ UNCHANGED <<hub, attempts, fallback>>
      /\ streams' = streams \/ (streams' = Pushed(m) /\ PublishFails(m))
  BY DEF PublishFails, Answered
<1>2. /\ messages' \in [Messages -> Message]
      /\ \A n \in Messages \ {m} : messages'[n] = messages[n]
      /\ messages'[m].owed = messages[m].owed
      /\ messages'[m].at = IF Answered(m) THEN "answered"
                           ELSE IF messages[m].at = "reached" THEN "repeated" ELSE "here"
      /\ messages[m].at = "reached" \/ (PublishFails(m) /\ messages[m].at = "new" /\ ~Answered(m))
  <2> DEFINE to == IF Answered(m) THEN "answered"
                   ELSE IF messages[m].at = "reached" THEN "repeated" ELSE "here"
             x == [messages[m] EXCEPT !.at = to]
  <2>1. messages' = [messages EXCEPT ![m] = x]
    <3>1. CASE Answered(m)
      BY <3>1 DEF Answered
    <3>2. CASE ~Answered(m)
      <4>1. messages' = [messages EXCEPT ![m].at = IF @ = "reached" THEN "repeated" ELSE "here"]
        BY <3>2 DEF PublishFails
      <4> QED BY <3>2, <4>1
    <3> QED BY <3>1, <3>2
  <2>2. x \in Message /\ x.owed = messages[m].owed /\ x.at = to
    BY DEF MessagesOK, Message
  <2>3. messages[m].at = "reached" \/ (PublishFails(m) /\ messages[m].at = "new" /\ ~Answered(m))
    BY DEF PublishFails, Answered
  <2> HIDE DEF x
  <2> QED BY <2>1, <2>2, <2>3 DEF MessagesOK
<1>3. ASSUME streams' = streams /\ Answered(m)
      PROVE  StreamsInv'
  <2>1. HubOK' /\ StreamsOK' /\ MessagesOK'
    BY <1>1, <1>2, <1>3 DEF HubOK, StreamsOK, MessagesOK
  <2>2. HeardOK'
    BY <1>1, <1>2, <1>3 DEF HeardOK, Coming
  <2> QED BY <1>1, <2>1, <2>2
<1>4. ASSUME ~Answered(m)
      PROVE  StreamsInv'
  <2>1. /\ streams' \in [Streams -> Stream]
        /\ \A s \in Streams :
             /\ streams'[s].at = streams[s].at /\ streams'[s].ready = streams[s].ready
             /\ streams'[s].awaits = streams[s].awaits
             /\ \A n \in Messages \ {m} : streams'[s].heard[n] = streams[s].heard[n]
             /\ streams[s].heard[m] \in Nat
             /\ streams'[s].heard[m] \in {streams[s].heard[m], streams[s].heard[m] + 1}
    <3>1. CASE streams' = streams
      BY <3>1 DEF StreamsOK, Stream
    <3>2. CASE streams' = Pushed(m)
      BY <3>2, PushedIs DEF StreamsOK, Stream
    <3> QED BY <1>1, <3>1, <3>2
  <2>2. HubOK' /\ StreamsOK'
    BY <1>1, <2>1 DEF HubOK, StreamsOK
  <2>3. \A a \in Attempts : messages[m].at = "new" => ~Carries(attempts[a].pipe, m)
    BY DEF MessagesOK
  <2>4. MessagesOK'
    <3>1. ASSUME NEW n \in Messages, NEW a \in Attempts, Carries(attempts[a].pipe, n)
          PROVE  messages'[n].at \in {"reached", "answered", "repeated"}
      BY <1>2, <1>4, <2>3, <3>1 DEF MessagesOK
    <3>2. ASSUME NEW n \in Messages, NEW s \in messages'[n].owed
          PROVE  KeyOf[s] = KeyOf[n] /\ streams'[s].ready /\ streams'[s].at # "new"
      <4>1. s \in messages[n].owed /\ s \in Streams
        BY <1>2 DEF MessagesOK, Message
      <4> QED BY <2>1, <4>1 DEF MessagesOK
    <3> QED BY <1>1, <1>2, <3>1, <3>2 DEF MessagesOK
  <2>5. \A n : Coming(hub', attempts', n) <=> Coming(hub, attempts, n)
    BY <1>1 DEF Coming
  <2>6. Coming(hub, attempts, m) => messages[m].at # "new"
    BY <2>3 DEF Coming, HubOK
  <2>7. ASSUME NEW s \in Streams, NEW n \in Messages
        PROVE  /\ messages'[n].at = "new" => streams'[s].heard[n] = 0
               /\ streams'[s].heard[n] <= IF messages'[n].at = "repeated" THEN 2 ELSE 1
               /\ Coming(hub, attempts, n) => streams'[s].heard[n] <= IF messages'[n].at = "repeated" THEN 1 ELSE 0
               /\ s \in messages'[n].owed /\ streams'[s].at = "in" =>
                    streams'[s].heard[n] > 0 \/ Coming(hub, attempts, n)
    <3>1. /\ messages[n].at = "new" => streams[s].heard[n] = 0
          /\ streams[s].heard[n] <= IF messages[n].at = "repeated" THEN 2 ELSE 1
          /\ Coming(hub, attempts, n) => streams[s].heard[n] <= IF messages[n].at = "repeated" THEN 1 ELSE 0
          /\ s \in messages[n].owed /\ streams[s].at = "in" =>
               streams[s].heard[n] > 0 \/ Coming(hub, attempts, n)
      BY DEF HeardOK
    <3>2. CASE n # m
      BY <1>2, <2>1, <3>1, <3>2
    <3>3. CASE n = m
      BY <1>2, <1>4, <2>1, <2>6, <3>1, <3>3
    <3> QED BY <3>2, <3>3
  <2>8. HeardOK'
    BY <2>5, <2>7 DEF HeardOK
  <2> QED BY <1>1, <2>2, <2>4, <2>8
<1>5. Answered(m) => streams' = streams
  BY DEF Answered
<1> QED BY <1>3, <1>4, <1>5

\* Every step keeps the invariant.
LEMMA StreamsKeep == StreamsInv /\ [StreamsNext]_streamVars => StreamsInv'
<1> SUFFICES ASSUME StreamsInv, [StreamsNext]_streamVars PROVE StreamsInv'
  OBVIOUS
<1>1. CASE UNCHANGED streamVars
  BY <1>1 DEF streamVars, StreamsInv, HubOK, StreamsOK, MessagesOK, HeardOK, Coming
<1>2. CASE StreamsNext
  BY <1>2, StartKeeps, LeaveKeeps, ConfirmKeeps, ResolveKeeps, SubscribeFailsKeeps, ClosedKeeps,
     DeliveryKeeps, ReachesKeeps, PublishKeeps, CloseHubKeeps DEF StreamsNext
<1> QED BY <1>1, <1>2

\* Nothing is open, read or published at first.
LEMMA StreamsStart == StreamsInit => StreamsInv
<1> SUFFICES ASSUME StreamsInit PROVE StreamsInv
  OBVIOUS
<1> USE DEF StreamsInit
<1>1. AttemptsOK(attempts)
  BY NothingCarried DEF AttemptsOK
<1>2. HubOK
  BY FS_EmptySet DEF HubOK, NewHub
<1>3. StreamsOK
  BY DEF StreamsOK, Stream
<1>4. MessagesOK
  BY NothingCarried DEF MessagesOK, Message
<1>5. HeardOK
  BY DEF HeardOK, Coming, NewHub
<1> QED BY <1>1, <1>2, <1>3, <1>4, <1>5 DEF StreamsInv

\* However subscriptions are let go of, closed late and opened again, an iterator
\* hears a message once, and what it was promised is heard or on its way.
THEOREM HearsOnceHolds == StreamsSpec => []HearsOnce
<1>1. StreamsInv => HearsOnce
  BY DEF StreamsInv, HeardOK, HearsOnce, Coming, Carries
<1> QED BY <1>1, StreamsStart, StreamsKeep, PTL DEF StreamsSpec

(***************************************************************************)
(* The rate limit: what was allowed is still in the bucket, or has drained *)
(* from it by the latest time a server has read; and who waits as long as  *)
(* an answer says finds it drained, or the key gone.                       *)
(***************************************************************************)

\* What drains in so many microseconds.
Drains(n) == Limit * n

\* It is a whole number.
LEMMA DrainsInt == \A n \in Int : Drains(n) \in Int
BY RateAssumption DEF Drains

\* Products with the limit, taken apart.
LEMMA DrainsSum ==
  ASSUME NEW m \in Int, NEW n \in Int
  PROVE  Drains(m + n) = Drains(m) + Drains(n) /\ Drains(m - n) = Drains(m) - Drains(n)
BY RateAssumption DEF Drains

\* More drains in more time.
LEMMA DrainsMonotone ==
  ASSUME NEW m \in Int, NEW n \in Int, m <= n
  PROVE  Drains(m) <= Drains(n)
<1>1. n - m \in Nat
  OBVIOUS
<1>2. Drains(n - m) >= 0
  BY <1>1, RateAssumption DEF Drains
<1>3. Drains(n - m) = Drains(n) - Drains(m) /\ Drains(n) \in Int /\ Drains(m) \in Int
  BY DrainsSum, DrainsInt
<1> QED BY <1>2, <1>3

\* Nothing in no time, a limit's worth in one microsecond.
LEMMA DrainsOne == Drains(0) = 0 /\ Drains(1) = Limit
BY RateAssumption DEF Drains

\* CeilDiv rounds up (gcra.ts ceildiv).
LEMMA CeilDivUp ==
  ASSUME NEW a \in Nat, NEW b \in Nat \ {0}
  PROVE  CeilDiv(a, b) \in Nat /\ b * CeilDiv(a, b) >= a
<1>1. a + b - 1 \in Nat
  OBVIOUS
<1>2. /\ (a + b - 1) \div b \in Nat
      /\ b * ((a + b - 1) \div b) + ((a + b - 1) % b) = a + b - 1
      /\ (a + b - 1) % b \in 0 .. b - 1
  BY <1>1
<1>3. b * ((a + b - 1) \div b) \in Int
  BY <1>2
<1> QED BY <1>2, <1>3 DEF CeilDiv

\* The constants of the limit, in their types.
LEMMA LimitConstants ==
  /\ Unit \in Nat \ {0} /\ Tolerance \in Nat \ {0}
  /\ Limit \in Nat \ {0} /\ Thousand \in Nat \ {0} /\ Burst \in Nat \ {0} /\ Skew \in Nat
<1>1. Unit \in Nat \ {0}
  BY RateAssumption DEF Unit
<1>2. Tolerance \in Nat \ {0}
  BY <1>1, RateAssumption DEF Tolerance
<1> QED BY <1>1, <1>2, RateAssumption

-----------------------------------------------------------------------------
(* The invariant. *)

\* The bucket has seen no time a server cannot have read.
SeenInTime == bucket.base <= elapsed + Skew

\* The key stays until its level has drained, by the clock of the server it is at.
KeptLong == bucket.level <= Drains((bucket.until + 1) * Thousand - bucket.base)

\* What was allowed is in the bucket, but for what drained since its base.
Accounted == spent = 0 \/ spent <= bucket.level + Drains(bucket.base - elapsed)

LimitInv == LimitTypeOK /\ SeenInTime /\ KeptLong /\ Accounted

\* The bucket as a script at this time reads it accounts for what was allowed.
LEMMA ReadAccounts ==
  ASSUME LimitInv
  PROVE  /\ Time \in Nat /\ elapsed <= Time /\ Time <= elapsed + Skew
         /\ Filled(Time) \in 0 .. Tolerance
         /\ Base(Time) \in Nat /\ Time <= Base(Time) /\ Base(Time) <= elapsed + Skew
         /\ spent = 0 \/ spent <= Filled(Time) + Drains(Base(Time) - elapsed)
<1> DEFINE N == Time
           b == bucket.base
           l == bucket.level
<1>1. /\ elapsed \in Nat /\ ahead \in 0 .. Skew /\ Skew \in Nat /\ Tolerance \in Nat
      /\ b \in Nat /\ l \in 0 .. Tolerance /\ bucket.until \in Int /\ spent \in Nat
  BY LimitConstants DEF LimitInv, LimitTypeOK
<1>2. N \in Nat /\ elapsed <= N /\ N <= elapsed + Skew /\ b <= elapsed + Skew
  BY <1>1 DEF Time, LimitInv, SeenInTime
<1>3. Sound(N) <=> Alive(N)
  <2>1. CeilDiv(Tolerance, Limit) \in Nat /\ Skew <= CeilDiv(Tolerance, Limit)
    BY RateAssumption, LimitConstants, CeilDivUp
  <2>2. b - N <= CeilDiv(Tolerance, Limit)
    BY <1>1, <1>2, <2>1
  <2> QED BY <1>1, <2>2 DEF Sound
<1> HIDE DEF N
<1>4. \A n \in Int : n * Limit = Drains(n)
  BY LimitConstants DEF Drains
<1>5. Drains(N - elapsed) \in Nat /\ Drains(N - b) \in Int /\ Drains(b - elapsed) \in Int
  <2>1. Drains(0) <= Drains(N - elapsed)
    BY <1>1, <1>2, DrainsMonotone
  <2> QED BY <2>1, <1>1, <1>2, DrainsInt, DrainsOne
<1>6. Drains(b - elapsed) = Drains(N - elapsed) - Drains(N - b)
  <2>1. b - elapsed = (N - elapsed) - (N - b)
    BY <1>1, <1>2
  <2>2. N - elapsed \in Int /\ N - b \in Int
    BY <1>1, <1>2
  <2>3. Drains((N - elapsed) - (N - b)) = Drains(N - elapsed) - Drains(N - b)
    BY <2>2, DrainsSum
  <2> QED BY <2>1, <2>3
<1>7. spent = 0 \/ spent <= l + Drains(b - elapsed)
  BY DEF LimitInv, Accounted
<1>8. CASE ~Alive(N)
  <2>1. (bucket.until + 1) * Thousand <= N
    <3>1. bucket.until + 1 <= N \div Thousand
      BY <1>1, <1>2, <1>8, LimitConstants DEF Alive
    <3>2. N \div Thousand \in Nat /\ Thousand * (N \div Thousand) <= N
      BY <1>2, LimitConstants
    <3>3. (bucket.until + 1) * Thousand <= (N \div Thousand) * Thousand
      BY <1>1, <3>1, <3>2, LimitConstants
    <3> QED BY <1>1, <1>2, <3>2, <3>3, LimitConstants
  <2>2. l <= Drains(N - b)
    <3>1. l <= Drains((bucket.until + 1) * Thousand - b)
      BY DEF LimitInv, KeptLong
    <3>2. Drains((bucket.until + 1) * Thousand - b) <= Drains(N - b)
      BY <2>1, <1>1, <1>2, LimitConstants, DrainsMonotone
    <3>3. Drains((bucket.until + 1) * Thousand - b) \in Int
      BY <1>1, LimitConstants, DrainsInt
    <3> QED BY <3>1, <3>2, <3>3, <1>1, <1>5
  <2>3. Filled(N) = 0 /\ Base(N) = N
    BY <1>3, <1>8 DEF Filled, Base
  <2>4. spent = 0 \/ spent <= Drains(N - elapsed)
    BY <2>2, <1>1, <1>5, <1>6, <1>7
  <2> QED BY <1>1, <1>2, <1>5, <2>3, <2>4 DEF N
<1>9. CASE Alive(N) /\ b > N
  <2>1. Filled(N) = l /\ Base(N) = b
    <3>1. ~(N > b)
      BY <1>1, <1>2, <1>9
    <3> QED BY <1>1, <1>3, <1>9, <3>1 DEF Filled, Base
  <2> QED BY <1>1, <1>2, <1>7, <1>9, <2>1 DEF N
<1>10. CASE Alive(N) /\ b <= N
  <2>1. Base(N) = N
    BY <1>1, <1>2, <1>10 DEF Base
  <2>2. Filled(N) \in 0 .. Tolerance /\ Filled(N) >= l - Drains(N - b)
    <3>1. CASE N > b
      <4>1. Filled(N) = IF Drains(N - b) < l THEN l - Drains(N - b) ELSE 0
        BY <1>1, <1>2, <1>3, <1>4, <1>10, <3>1 DEF Filled
      <4>2. Drains(N - b) >= 0
        <5>1. Drains(0) <= Drains(N - b)
          BY <1>1, <1>2, <3>1, DrainsMonotone
        <5> QED BY <5>1, DrainsOne
      <4> QED BY <4>1, <4>2, <1>1, <1>5
    <3>2. CASE N = b
      <4>1. ~(N > b) /\ N - b = 0
        BY <1>1, <1>2, <3>2
      <4>2. Filled(N) = IF 0 < l THEN l - 0 ELSE 0
        BY <1>3, <1>10, <4>1 DEF Filled
      <4> QED BY <1>1, <4>1, <4>2, DrainsOne
    <3> QED BY <1>1, <1>2, <1>10, <3>1, <3>2
  <2>3. spent = 0 \/ spent <= Filled(N) + Drains(N - elapsed)
    BY <2>2, <1>1, <1>5, <1>6, <1>7
  <2> QED BY <1>1, <1>2, <2>1, <2>2, <2>3 DEF N
<1> QED BY <1>1, <1>2, <1>8, <1>9, <1>10

\* What a call counts leaves a level that the key outlives (gcra.ts: the PX).
LEMMA ResetCovers ==
  ASSUME LimitInv, NEW cost \in 0 .. Burst
  PROVE  /\ LevelAfter(cost, Time) \in 0 .. Tolerance
         /\ Fits(cost, Time) => LevelAfter(cost, Time) = Filled(Time) + cost * Unit
         /\ ResetAfter(cost, Time) \in Nat
         /\ LevelAfter(cost, Time) <= Drains((Time \div Thousand + ResetAfter(cost, Time) + 1) * Thousand - Base(Time))
<1> DEFINE N == Time
           after == LevelAfter(cost, N)
           ms == Ms(after)
           lag == Lag(N)
           until == N \div Thousand + ResetAfter(cost, N)
<1>1. /\ N \in Nat /\ Filled(N) \in 0 .. Tolerance /\ Base(N) \in Nat /\ N <= Base(N)
      /\ Limit \in Nat \ {0} /\ Thousand \in Nat \ {0} /\ Tolerance \in Nat
  BY ReadAccounts, LimitConstants
<1>2. cost * Unit \in Nat
  BY LimitConstants
<1>3. after \in 0 .. Tolerance /\ (Fits(cost, N) => after = Filled(N) + cost * Unit)
  BY <1>1, <1>2 DEF LevelAfter, Fits
<1> HIDE DEF N, after
<1>4. CeilDiv(after, Limit) \in Nat /\ Limit * CeilDiv(after, Limit) >= after
  BY <1>1, <1>3, CeilDivUp
<1>5. ms \in Nat /\ Thousand * ms >= CeilDiv(after, Limit)
  BY <1>1, <1>4, CeilDivUp DEF Ms
<1>6. lag \in Nat /\ Thousand * lag >= Base(N) - N
  <2>1. Base(N) - N \in Nat
    BY <1>1
  <2> QED BY <2>1, <1>1, CeilDivUp DEF Lag
<1>7. ResetAfter(cost, N) = ms + lag
  BY DEF ResetAfter, after
<1> HIDE DEF ms, lag
<1>8. N \div Thousand \in Nat /\ Thousand * (N \div Thousand) + Thousand > N
  BY <1>1
<1>9. (until + 1) * Thousand >= Base(N) + Thousand * ms
  <2>1. until + 1 = N \div Thousand + 1 + ms + lag
    BY <1>5, <1>6, <1>7, <1>8
  <2>2. (until + 1) * Thousand =
          Thousand * (N \div Thousand) + Thousand + Thousand * ms + Thousand * lag
    BY <2>1, <1>1, <1>5, <1>6, <1>8
  <2> QED BY <2>2, <1>1, <1>5, <1>6, <1>8
<1>10. (until + 1) * Thousand \in Int /\ (until + 1) * Thousand - Base(N) \in Int
  BY <1>1, <1>5, <1>6, <1>7, <1>8
<1>11. CeilDiv(after, Limit) <= (until + 1) * Thousand - Base(N)
  <2>1. Base(N) + CeilDiv(after, Limit) <= Base(N) + Thousand * ms
    BY <1>1, <1>4, <1>5
  <2> DEFINE e == (until + 1) * Thousand
             m == Thousand * ms
  <2>2. e \in Int /\ m \in Int /\ e >= Base(N) + m /\ Base(N) + CeilDiv(after, Limit) <= Base(N) + m
    BY <1>1, <1>5, <1>9, <1>10, <2>1
  <2> HIDE DEF e, m
  <2>3. CeilDiv(after, Limit) <= e - Base(N)
    BY <1>1, <1>4, <2>2
  <2> QED BY <2>3 DEF e
<1> HIDE DEF until
<1>12. Drains(CeilDiv(after, Limit)) <= Drains((until + 1) * Thousand - Base(N))
  BY <1>4, <1>10, <1>11, DrainsMonotone
<1>13. Drains(CeilDiv(after, Limit)) >= after
  BY <1>4 DEF Drains
<1>14. Drains(CeilDiv(after, Limit)) \in Int /\ Drains((until + 1) * Thousand - Base(N)) \in Int
  BY <1>4, <1>10, DrainsInt
<1>15. after <= Drains((until + 1) * Thousand - Base(N))
  BY <1>3, <1>12, <1>13, <1>14
<1>16. ResetAfter(cost, N) \in Nat
  BY <1>5, <1>6, <1>7
<1> QED BY <1>3, <1>15, <1>16 DEF N, after, until

-----------------------------------------------------------------------------

\* The invariant holds at first.
LEMMA LimitStart == LimitInit => LimitInv
<1> SUFFICES ASSUME LimitInit PROVE LimitInv
  OBVIOUS
<1>1. bucket = Empty /\ spent = 0 /\ elapsed = 0 /\ ahead \in 0 .. Skew
  BY DEF LimitInit
<1>2. check \in [Checks -> [sent : BOOLEAN, cost : 0 .. Burst, write : BOOLEAN]]
  BY LimitConstants DEF LimitInit, NoCheck
<1>3. Drains((bucket.until + 1) * Thousand - bucket.base) = 0
  BY <1>1, LimitConstants, DrainsOne DEF Empty
<1> QED BY <1>1, <1>2, <1>3, LimitConstants DEF LimitInv, LimitTypeOK, SeenInTime, KeptLong, Accounted, Empty

\* A script that counts its cost.
LEMMA CountKeeps ==
  ASSUME LimitInv, NEW c \in Checks, RunScript(c), Fits(check[c].cost, Time), check[c].cost > 0, check[c].write
  PROVE  bucket' \in [base : Nat, level : 0 .. Tolerance, until : Int] /\ spent' \in Nat
         /\ SeenInTime' /\ KeptLong' /\ Accounted'
<1> DEFINE cost == check[c].cost
           until == Time \div Thousand + ResetAfter(cost, Time)
<1>1. cost \in 0 .. Burst
  BY DEF LimitInv, LimitTypeOK
<1>2. /\ bucket' = [base |-> Base(Time), level |-> LevelAfter(cost, Time), until |-> until]
      /\ spent' = spent + cost * Unit /\ elapsed' = elapsed
  BY DEF RunScript
<1> HIDE DEF cost
<1>3. cost * Unit \in Nat /\ spent \in Nat /\ elapsed \in Nat
  BY <1>1, LimitConstants DEF LimitInv, LimitTypeOK
<1>4. /\ Base(Time) \in Nat /\ Base(Time) <= elapsed + Skew /\ elapsed <= Base(Time)
      /\ Filled(Time) \in 0 .. Tolerance /\ Time \in Nat
      /\ spent = 0 \/ spent <= Filled(Time) + Drains(Base(Time) - elapsed)
  BY ReadAccounts, <1>3
<1>5. /\ LevelAfter(cost, Time) \in 0 .. Tolerance
      /\ LevelAfter(cost, Time) = Filled(Time) + cost * Unit
      /\ ResetAfter(cost, Time) \in Nat
      /\ LevelAfter(cost, Time) <= Drains((until + 1) * Thousand - Base(Time))
  BY <1>1, ResetCovers DEF cost
<1>6. until \in Int
  BY <1>4, <1>5, LimitConstants
<1> HIDE DEF until
<1>7. Drains(Base(Time) - elapsed) >= 0 /\ Drains(Base(Time) - elapsed) \in Int
  <2>1. Drains(0) <= Drains(Base(Time) - elapsed)
    BY <1>3, <1>4, DrainsMonotone
  <2> QED BY <2>1, <1>3, <1>4, DrainsOne, DrainsInt
<1>8. spent' <= LevelAfter(cost, Time) + Drains(Base(Time) - elapsed)
  BY <1>2, <1>3, <1>4, <1>5, <1>7, LimitConstants
<1>9. bucket'.base = Base(Time) /\ bucket'.level = LevelAfter(cost, Time) /\ bucket'.until = until
  BY <1>2
<1>10. Drains(bucket'.base - elapsed') = Drains(Base(Time) - elapsed)
  BY <1>2, <1>9
<1>11. Accounted'
  BY <1>8, <1>9, <1>10 DEF Accounted, Drains
<1>12. KeptLong'
  BY <1>5, <1>9 DEF KeptLong, Drains
<1>13. SeenInTime'
  BY <1>2, <1>4, <1>9 DEF SeenInTime
<1>14. bucket' \in [base : Nat, level : 0 .. Tolerance, until : Int]
  BY <1>2, <1>4, <1>5, <1>6
<1> QED BY <1>2, <1>3, <1>11, <1>12, <1>13, <1>14

\* Time passes: what was allowed drains as the bucket does.
LEMMA LimitTickKeeps ==
  ASSUME LimitInv, LimitTick
  PROVE  LimitInv'
<1>1. /\ elapsed \in Nat /\ spent \in Nat /\ Limit \in Nat \ {0} /\ bucket.base \in Nat
      /\ bucket.level \in Nat /\ bucket.until \in Int
  BY LimitConstants DEF LimitInv, LimitTypeOK
<1>2. /\ elapsed' = elapsed + 1 /\ bucket' = bucket /\ UNCHANGED <<ahead, check>>
      /\ spent' = IF spent > Limit THEN spent - Limit ELSE 0
  BY DEF LimitTick
<1>3. spent' \in Nat
  BY <1>1, <1>2
<1>4. LimitTypeOK'
  BY <1>1, <1>2, <1>3 DEF LimitInv, LimitTypeOK
<1>5. SeenInTime' /\ KeptLong'
  BY <1>1, <1>2, LimitConstants DEF LimitInv, SeenInTime, KeptLong, Drains
<1>6. Accounted'
  <2>1. Drains(bucket.base - (elapsed + 1)) = Drains(bucket.base - elapsed) - Limit
    <3> DEFINE gap == bucket.base - elapsed
    <3>1. gap \in Int /\ bucket.base - (elapsed + 1) = gap - 1
      BY <1>1
    <3> HIDE DEF gap
    <3>2. Drains(gap - 1) = Drains(gap) - Drains(1)
      BY <3>1, DrainsSum
    <3>3. Drains(bucket.base - (elapsed + 1)) = Drains(gap) - Limit
      BY <3>1, <3>2, DrainsOne
    <3> QED BY <3>3 DEF gap
  <2>2. Drains(bucket.base - elapsed) \in Int
    BY <1>1, DrainsInt
  <2>3. spent = 0 \/ spent <= bucket.level + Drains(bucket.base - elapsed)
    BY DEF LimitInv, Accounted
  <2>4. spent' = 0 \/ spent' <= bucket.level + Drains(bucket.base - (elapsed + 1))
    BY <1>1, <1>2, <2>1, <2>2, <2>3
  <2> QED BY <1>2, <2>4 DEF Accounted, Drains
<1> QED BY <1>4, <1>5, <1>6 DEF LimitInv

\* Every step keeps the invariant.
LEMMA LimitKeeps == LimitInv /\ [LimitNext]_limitVars => LimitInv'
<1> SUFFICES ASSUME LimitInv, [LimitNext]_limitVars PROVE LimitInv'
  OBVIOUS
<1> DEFINE Check == [sent : BOOLEAN, cost : 0 .. Burst, write : BOOLEAN]
<1>1. check \in [Checks -> Check] /\ NoCheck \in Check
  BY LimitConstants DEF LimitInv, LimitTypeOK, NoCheck
<1>2. ASSUME UNCHANGED <<elapsed, ahead, bucket, spent>>, check' \in [Checks -> Check]
      PROVE  LimitInv'
  BY <1>2 DEF LimitInv, LimitTypeOK, SeenInTime, KeptLong, Accounted, Drains
<1>3. CASE UNCHANGED limitVars
  BY <1>1, <1>2, <1>3 DEF limitVars
<1>4. ASSUME NEW c \in Checks, NEW cost \in 0 .. Burst, NEW write \in BOOLEAN, Ask(c, cost, write)
      PROVE  LimitInv'
  <2>1. [sent |-> TRUE, cost |-> cost, write |-> write] \in Check
    OBVIOUS
  <2>2. check' \in [Checks -> Check]
    BY <1>1, <1>4, <2>1 DEF Ask
  <2> QED BY <1>2, <1>4, <2>2 DEF Ask
<1>5. ASSUME NEW c \in Checks, RunScript(c)
      PROVE  LimitInv'
  <2>1. check' \in [Checks -> Check] /\ UNCHANGED <<elapsed, ahead>>
    BY <1>1, <1>5 DEF RunScript
  <2>2. CASE Fits(check[c].cost, Time) /\ check[c].write /\ check[c].cost > 0
    <3>1. /\ bucket' \in [base : Nat, level : 0 .. Tolerance, until : Int] /\ spent' \in Nat
          /\ SeenInTime' /\ KeptLong' /\ Accounted'
      BY <1>5, <2>2, CountKeeps
    <3> QED BY <2>1, <3>1 DEF LimitInv, LimitTypeOK
  <2>3. CASE ~(Fits(check[c].cost, Time) /\ check[c].write /\ check[c].cost > 0)
    BY <1>2, <1>5, <2>1, <2>3 DEF RunScript
  <2> QED BY <2>2, <2>3
<1>6. ASSUME NEW c \in Checks, NeverSent(c)
      PROVE  LimitInv'
  BY <1>1, <1>2, <1>6 DEF NeverSent
<1>8. CASE Reset
  <2>1. bucket' = Empty /\ spent' = 0 /\ UNCHANGED <<elapsed, ahead, check>>
    BY <1>8 DEF Reset
  <2>2. Drains((bucket'.until + 1) * Thousand - bucket'.base) = 0
    BY <2>1, LimitConstants, DrainsOne DEF Empty
  <2> QED BY <2>1, <2>2, LimitConstants DEF LimitInv, LimitTypeOK, SeenInTime, KeptLong, Accounted, Drains, Empty
<1>9. CASE Failover
  BY <1>9 DEF Failover, LimitInv, LimitTypeOK, SeenInTime, KeptLong, Accounted, Drains
<1>10. CASE LimitTick
  BY <1>10, LimitTickKeeps
<1> QED BY <1>3, <1>4, <1>5, <1>6, <1>8, <1>9, <1>10 DEF LimitNext

\* The key and the clocks stay as the code can hold them (gcra.ts).
THEOREM LimitTypeCorrect == LimitSpec => []LimitTypeOK
<1>1. LimitInv => LimitTypeOK
  BY DEF LimitInv
<1> QED BY <1>1, LimitStart, LimitKeeps, PTL DEF LimitSpec

\* Over any stretch of time no more is allowed than a burst and what the rate
\* gives, for as long and for the servers' skew once, whatever the rate, the
\* burst, the skew and the number of failovers (gcra.ts).
THEOREM NeverOverTheLimit == LimitSpec => []NeverOver
<1>1. LimitInv => NeverOver
  <2> SUFFICES ASSUME LimitInv PROVE NeverOver
    OBVIOUS
  <2>1. /\ elapsed \in Nat /\ bucket.base \in Nat /\ bucket.level \in 0 .. Tolerance /\ spent \in Nat
        /\ Tolerance \in Nat /\ Skew \in Nat
    BY LimitConstants DEF LimitInv, LimitTypeOK
  <2>2. Drains(bucket.base - elapsed) <= Drains(Skew)
    <3>1. bucket.base - elapsed <= Skew
      BY <2>1 DEF LimitInv, SeenInTime
    <3> QED BY <2>1, <3>1, DrainsMonotone
  <2>3. Drains(bucket.base - elapsed) \in Int /\ Drains(Skew) \in Int
    BY <2>1, DrainsInt
  <2>4. Drains(Skew) >= 0
    <3>1. Drains(0) <= Drains(Skew)
      BY <2>1, DrainsMonotone
    <3> QED BY <3>1, DrainsOne
  <2>5. spent <= Tolerance + Drains(Skew)
    BY <2>1, <2>2, <2>3, <2>4 DEF LimitInv, Accounted
  <2> QED BY <2>5 DEF NeverOver, Drains
<1> QED BY <1>1, LimitStart, LimitKeeps, PTL DEF LimitSpec

-----------------------------------------------------------------------------
(* What the answers promise. *)

\* As many requests fit as their ticks do.
LEMMA QuotientFits ==
  ASSUME NEW x \in Nat, NEW u \in Nat \ {0}, NEW c \in Nat
  PROVE  c * u <= x <=> c <= x \div u
<1> DEFINE q == x \div u
<1>1. q \in Nat /\ u * q + (x % u) = x /\ x % u \in 0 .. u - 1
  OBVIOUS
<1>2. x < (q + 1) * u /\ q * u <= x
  BY <1>1
<1> HIDE DEF q
<1>3. ASSUME c <= q PROVE c * u <= x
  <2>1. q - c \in Nat /\ (q - c) * u >= 0
    BY <1>1, <1>3
  <2>2. (q - c) * u = q * u - c * u
    BY <1>1
  <2> QED BY <1>1, <1>2, <2>1, <2>2
<1>4. ASSUME c > q PROVE c * u > x
  <2>1. c - (q + 1) \in Nat
    BY <1>1, <1>4
  <2>2. (c - (q + 1)) * u >= 0
    BY <2>1
  <2>3. (c - (q + 1)) * u = c * u - (q + 1) * u
    BY <1>1
  <2> QED BY <1>1, <1>2, <2>2, <2>3
<1>5. c * u \in Nat
  OBVIOUS
<1> QED BY <1>1, <1>3, <1>4, <1>5 DEF q

\* Who waits for x ticks to drain, and until the bucket's latest time, finds
\* them drained, or the key gone.
LEMMA WaitDrains ==
  ASSUME LimitInv, NEW x \in 0 .. Filled(Time)
  PROVE  LET then == Time + (Ms(x) + Lag(Time)) * Thousand
         IN  Filled(then) \in 0 .. Tolerance /\ Filled(then) <= Filled(Time) - x
<1> DEFINE N == Time
           M == Time + (Ms(x) + Lag(Time)) * Thousand
           b == bucket.base
           l == bucket.level
           base == Base(Time)
           d == CeilDiv(x, Limit)
<1>1. /\ N \in Nat /\ Filled(N) \in 0 .. Tolerance /\ base \in Nat /\ N <= base
      /\ Limit \in Nat \ {0} /\ Thousand \in Nat \ {0} /\ Tolerance \in Nat
      /\ b \in Nat /\ l \in 0 .. Tolerance /\ bucket.until \in Int
      /\ elapsed <= N /\ b <= elapsed + Skew /\ elapsed \in Nat /\ Skew \in Nat
      /\ Skew <= CeilDiv(Tolerance, Limit) /\ CeilDiv(Tolerance, Limit) \in Nat
  <2>1. CeilDiv(Tolerance, Limit) \in Nat /\ Skew <= CeilDiv(Tolerance, Limit)
    BY RateAssumption, LimitConstants, CeilDivUp
  <2> QED BY <2>1, ReadAccounts, LimitConstants DEF LimitInv, LimitTypeOK, SeenInTime
<1>2. x \in Nat
  BY <1>1
<1>3. d \in Nat /\ Drains(d) >= x
  BY <1>1, <1>2, CeilDivUp DEF Drains
<1>4. Ms(x) \in Nat /\ Thousand * Ms(x) >= d
  BY <1>1, <1>3, CeilDivUp DEF Ms
<1>5. Lag(N) \in Nat /\ Thousand * Lag(N) >= base - N
  <2>1. base - N \in Nat
    BY <1>1
  <2> QED BY <2>1, <1>1, CeilDivUp DEF Lag
<1>6. M \in Nat /\ M >= base + d
  <2> DEFINE y == Ms(x)
             z == Lag(N)
  <2>1. y \in Nat /\ z \in Nat /\ Thousand * y >= d /\ Thousand * z >= base - N
    BY <1>4, <1>5
  <2>2. M = N + (y + z) * Thousand
    OBVIOUS
  <2> HIDE DEF y, z, M, N, base, d
  <2>3. (y + z) * Thousand = Thousand * y + Thousand * z
    BY <1>1, <2>1
  <2> QED BY <1>1, <1>3, <2>1, <2>2, <2>3
<1>7. \A n \in Int : n * Limit = Drains(n)
  BY LimitConstants DEF Drains
<1> HIDE DEF M, d
<1>8. CASE ~Sound(M)
  <2>1. Filled(M) = 0
    BY <1>8 DEF Filled
  <2> QED BY <1>1, <2>1 DEF M
<1>9. CASE Sound(M)
  <2>1. Alive(N)
    <3>1. N <= M
      BY <1>1, <1>3, <1>6
    <3>2. N \div Thousand <= M \div Thousand
      <4>1. /\ N \div Thousand \in Nat /\ M \div Thousand \in Nat
            /\ (N \div Thousand) * Thousand <= N /\ (M \div Thousand + 1) * Thousand > M
        BY <1>1, <1>6
      <4>2. (N \div Thousand) * Thousand <= M
        BY <1>1, <1>6, <3>1, <4>1
      <4> QED BY <1>1, <1>6, <4>1, <4>2, QuotientFits
    <3>3. bucket.until >= M \div Thousand /\ N \div Thousand \in Int /\ M \div Thousand \in Int
      BY <1>1, <1>6, <1>9 DEF Sound, Alive
    <3> QED BY <1>1, <3>2, <3>3 DEF Alive
  <2>2. Sound(N)
    <3>1. b - N <= CeilDiv(Tolerance, Limit)
      BY <1>1
    <3> QED BY <1>1, <2>1, <3>1 DEF Sound
  <2>3. base = IF b > N THEN b ELSE N
    BY <2>2 DEF Base
  <2>4. b <= base /\ b <= M /\ M - b \in Nat /\ base - b \in Nat
    BY <1>1, <1>3, <1>6, <2>3
  <2>5. Drains(M - b) >= Drains(base - b) + x
    <3>1. (base - b) + d <= M - b /\ (base - b) + d \in Int
      BY <1>1, <1>3, <1>6, <2>4
    <3>2. Drains((base - b) + d) <= Drains(M - b)
      BY <2>4, <3>1, DrainsMonotone
    <3>3. Drains((base - b) + d) = Drains(base - b) + Drains(d)
      <4> DEFINE k == base - b
      <4>1. k \in Int /\ d \in Int
        BY <1>3, <2>4
      <4> HIDE DEF k
      <4>2. Drains(k + d) = Drains(k) + Drains(d)
        BY <4>1, DrainsSum
      <4> QED BY <4>2 DEF k
    <3>4. Drains(base - b) \in Int /\ Drains(d) \in Int /\ Drains(M - b) \in Int
      BY <1>3, <2>4, DrainsInt
    <3> QED BY <1>2, <1>3, <3>2, <3>3, <3>4
  <2>6. Filled(N) >= l - Drains(base - b)
    <3>1. Drains(base - b) \in Int
      BY <2>4, DrainsInt
    <3>2. CASE N > b
      <4>1. base = N
        BY <1>1, <2>3, <3>2
      <4>2. Filled(N) = IF Drains(N - b) < l THEN l - Drains(N - b) ELSE 0
        BY <1>1, <1>7, <2>2, <3>2 DEF Filled
      <4> QED BY <1>1, <3>1, <4>1, <4>2
    <3>3. CASE N <= b
      <4>1. base = b /\ base - b = 0 /\ ~(N > b)
        BY <1>1, <2>3, <3>3
      <4>2. Filled(N) = IF 0 < l THEN l - 0 ELSE 0
        BY <2>2, <4>1 DEF Filled
      <4> QED BY <1>1, <4>1, <4>2, DrainsOne
    <3> QED BY <1>1, <3>2, <3>3
  <2>7. Filled(M) \in 0 .. Tolerance /\ Filled(M) <= Filled(N) - x
    <3>1. Drains(M - b) \in Int /\ Drains(base - b) \in Int
      BY <2>4, DrainsInt
    <3>2. CASE M > b
      <4>1. Filled(M) = IF Drains(M - b) < l THEN l - Drains(M - b) ELSE 0
        BY <1>1, <1>6, <1>7, <1>9, <3>2 DEF Filled
      <4>2. Drains(M - b) >= 0
        <5>1. Drains(0) <= Drains(M - b)
          BY <2>4, DrainsMonotone
        <5> QED BY <5>1, DrainsOne
      <4> QED BY <1>1, <1>2, <2>5, <2>6, <3>1, <4>1, <4>2
    <3>3. CASE M = b
      <4>1. ~(M > b) /\ base - b = 0 /\ d = 0 /\ M - b = 0
        BY <1>1, <1>3, <1>6, <2>4, <3>3
      <4>2. Filled(M) = IF 0 < l THEN l - 0 ELSE 0
        BY <1>9, <4>1 DEF Filled
      <4>3. x = 0
        BY <1>2, <1>3, <4>1, DrainsOne
      <4> QED BY <1>1, <2>6, <3>1, <4>1, <4>2, <4>3, DrainsOne
    <3> QED BY <1>1, <1>6, <2>4, <3>2, <3>3
  <2> QED BY <2>7 DEF M
<1> QED BY <1>8, <1>9

\* A cost up to what remains is allowed and no greater one, and waiting as long
\* as an answer says is enough: whatever the rate and the burst, and however far
\* the clocks of two servers disagree (gcra.ts).
THEOREM AnswersHoldAlways == LimitSpec => []AnswersHold
<1>1. LimitInv => AnswersHold
  <2> SUFFICES ASSUME LimitInv, NEW cost \in 0 .. Burst
               PROVE  /\ Fits(cost, Time) <=> cost <= Remaining(0, Time)
                      /\ Fits(cost, Time + RetryAfter(cost, Time) * Thousand)
                      /\ Fits(Burst, Time + ResetAfter(0, Time) * Thousand)
    BY DEF AnswersHold
  <2>1. /\ Time \in Nat /\ Filled(Time) \in 0 .. Tolerance /\ Tolerance \in Nat
        /\ Unit \in Nat \ {0} /\ Burst \in Nat \ {0} /\ Tolerance = Burst * Unit /\ Thousand \in Nat
    BY ReadAccounts, LimitConstants DEF Tolerance
  <2>2. cost * Unit \in Nat /\ cost * Unit <= Tolerance
    <3>1. (Burst - cost) * Unit >= 0 /\ (Burst - cost) * Unit = Burst * Unit - cost * Unit
      BY <2>1
    <3>2. cost * Unit \in Nat /\ Burst * Unit \in Nat
      BY <2>1
    <3> QED BY <2>1, <3>1, <3>2
  <2>3. Fits(0, Time)
    BY <2>1 DEF Fits
  <2>4. Fits(cost, Time) <=> cost <= Remaining(0, Time)
    <3>1. Remaining(0, Time) = (Tolerance - Filled(Time)) \div Unit
      <4>1. Tolerance - Filled(Time) - 0 * Unit = Tolerance - Filled(Time)
        BY <2>1
      <4> QED BY <2>3, <4>1 DEF Remaining
    <3>2. Tolerance - Filled(Time) \in Nat
      BY <2>1
    <3> QED BY <2>1, <3>1, <3>2, QuotientFits DEF Fits
  <2>5. Fits(cost, Time + RetryAfter(cost, Time) * Thousand)
    <3>1. CASE Fits(cost, Time)
      <4>1. Time + RetryAfter(cost, Time) * Thousand = Time
        BY <2>1, <3>1 DEF RetryAfter
      <4> QED BY <3>1, <4>1
    <3>2. CASE ~Fits(cost, Time)
      <4> DEFINE x == cost * Unit - (Tolerance - Filled(Time))
                 then == Time + (Ms(x) + Lag(Time)) * Thousand
      <4>1. x \in 0 .. Filled(Time)
        BY <2>1, <2>2, <3>2 DEF Fits
      <4>2. Time + RetryAfter(cost, Time) * Thousand = then
        BY <3>2 DEF RetryAfter
      <4>3. Filled(then) \in 0 .. Tolerance /\ Filled(then) <= Filled(Time) - x
        BY <4>1, WaitDrains
      <4> HIDE DEF then
      <4>4. Fits(cost, then)
        BY <2>1, <2>2, <4>1, <4>3 DEF Fits
      <4> QED BY <4>2, <4>4
    <3> QED BY <3>1, <3>2
  <2>6. Fits(Burst, Time + ResetAfter(0, Time) * Thousand)
    <3> DEFINE x == Filled(Time)
               then == Time + (Ms(x) + Lag(Time)) * Thousand
    <3>1. x \in 0 .. Filled(Time)
      BY <2>1
    <3>2. LevelAfter(0, Time) = x
      <4>1. Filled(Time) + 0 * Unit = Filled(Time)
        BY <2>1
      <4> QED BY <2>3, <4>1 DEF LevelAfter
    <3>3. Time + ResetAfter(0, Time) * Thousand = then
      BY <3>2 DEF ResetAfter
    <3>4. Filled(then) \in 0 .. Tolerance /\ Filled(then) <= Filled(Time) - x
      BY <3>1, WaitDrains
    <3> HIDE DEF then
    <3>5. Fits(Burst, then)
      BY <2>1, <3>4 DEF Fits
    <3> QED BY <3>3, <3>5
  <2> QED BY <2>4, <2>5, <2>6
<1> QED BY <1>1, LimitStart, LimitKeeps, PTL DEF LimitSpec

(***************************************************************************)
(* The clients of a process: a client that is shared counts who holds or   *)
(* waits for it, so it is closed by the last of them and by nobody else.   *)
(***************************************************************************)

\* Who holds a client, or waits for it.
Holders == [c \in Clients |-> {a \in Apps : c \in app[a].held \/ app[a].waits = c}]

\* A client shared under a URI is not closed, and counts its holders, of which
\* it has one at least.
SharedOK ==
  \A u \in Uris, c \in Clients : clients[u] = c =>
    /\ client[c].at \in {"connecting", "open"} /\ c \notin ending
    /\ client[c].holders = Cardinality(Holders[c]) /\ client[c].holders # 0
    /\ \A v \in Uris : clients[v] = c => v = u

\* A client that is not closed is shared, or being closed with all the others;
\* one that is no longer shared may count more holders than it has.
ClientsOK ==
  \A c \in Clients :
    /\ IsFiniteSet(Holders[c]) /\ Cardinality(Holders[c]) <= client[c].holders
    /\ client[c].at = "none" => Holders[c] = {} /\ client[c].holders = 0 /\ c \notin ending
    /\ client[c].at \in {"connecting", "open"} => c \in ending \/ \E u \in Uris : clients[u] = c

\* An application holds clients that are connected, and while it opens those of
\* the instances it has passed; it waits for the one it is at.
AppsOK ==
  \A a \in Apps :
    /\ \A c \in app[a].held : client[c].at \in {"open", "ended"}
    /\ app[a].waits # NoClient =>
         /\ app[a].at = "opening" /\ app[a].waits \notin app[a].held
         /\ Cardinality(app[a].held) < Len(Instances[a])
         /\ \A u \in Uris : clients[u] = app[a].waits => u = NextUri(a)
    /\ IsFiniteSet(app[a].held)
    /\ app[a].at \in {"new", "opening"} =>
         \A c \in app[a].held, u \in Uris : clients[u] = c =>
           \E i \in 1 .. Cardinality(app[a].held) : u = Instances[a][i]

ClientsInv == ConnectionsTypeOK /\ SharedOK /\ ClientsOK /\ AppsOK

\* What an application may be.
AppType == [at : {"new", "opening", "refused", "failed", "open", "closingQueues",
                  "closing", "closingClients", "stopped", "closed"},
            held : SUBSET Clients, waits : Clients \cup {NoClient}]
ClientType == [at : {"none", "connecting", "open", "failed", "closed", "ended"}, holders : Nat]

\* The URI an application is at is none of those it has passed.
LEMMA NextIsNew ==
  ASSUME ClientsInv, NEW a \in Apps, Cardinality(app[a].held) < Len(Instances[a])
  PROVE  /\ NextUri(a) \in Uris /\ Cardinality(app[a].held) \in Nat
         /\ \A i \in 1 .. Cardinality(app[a].held) : NextUri(a) # Instances[a][i]
<1>1. Cardinality(app[a].held) \in Nat
  BY FS_CardinalityType DEF ClientsInv, AppsOK, NextUri
<1>2. Instances[a] \in Seq(Uris)
  BY ConnectionsAssumption
<1> QED BY <1>1, <1>2, ConnectionsAssumption DEF NextUri

\* At first nothing is connected, held or waited for.
LEMMA ClientsStart == ConnectionsInit => ClientsInv
<1> SUFFICES ASSUME ConnectionsInit PROVE ClientsInv
  OBVIOUS
<1>1. /\ clients = [u \in Uris |-> NoClient] /\ ending = {}
      /\ client = [c \in Clients |-> [at |-> "none", holders |-> 0]]
      /\ app = [a \in Apps |-> [at |-> "new", held |-> {}, waits |-> NoClient]]
      /\ sub = [a \in Apps |-> "none"]
  BY DEF ConnectionsInit
<1>2. \A c \in Clients : c # NoClient
  BY DEF Clients, NoClient
<1>3. \A c \in Clients : Holders[c] = {}
  BY <1>1, <1>2 DEF Holders
<1>4. ConnectionsTypeOK
  BY <1>1 DEF ConnectionsTypeOK
<1>5. SharedOK
  BY <1>1, <1>2 DEF SharedOK
<1>6. ClientsOK
  <2>1. ASSUME NEW c \in Clients
        PROVE  Holders[c] = {} /\ client[c].at = "none" /\ client[c].holders = 0
    BY <1>1, <1>3
  <2> QED BY <1>1, <2>1, FS_EmptySet DEF ClientsOK
<1>7. AppsOK
  BY <1>1, FS_EmptySet DEF AppsOK, NextUri
<1> QED BY <1>4, <1>5, <1>6, <1>7 DEF ClientsInv

\* A step of an application that waits for nothing, and keeps what it holds.
LEMMA AppMovesKeep ==
  ASSUME ClientsInv, NEW a \in Apps,
         NEW t \in {"opening", "refused", "failed", "open", "closingQueues",
                    "closing", "closingClients", "stopped", "closed"},
         t = "opening" => app[a].at \in {"new", "opening"},
         app[a].waits = NoClient, app' = [app EXCEPT ![a].at = t],
         sub' \in [Apps -> {"none", "connecting", "on", "off"}],
         UNCHANGED <<clients, client, ending>>
  PROVE  ClientsInv'
<1>1. /\ app' \in [Apps -> AppType]
      /\ \A b \in Apps : app'[b].held = app[b].held /\ app'[b].waits = app[b].waits
      /\ \A b \in Apps \ {a} : app'[b].at = app[b].at
      /\ app'[a].at = t
  BY DEF ClientsInv, ConnectionsTypeOK, AppType
<1>2. Holders' = Holders
  BY <1>1 DEF Holders
<1>3. \A b \in Apps : app'[b].held = app[b].held
  BY <1>1
<1>4. ConnectionsTypeOK'
  BY <1>1 DEF ClientsInv, ConnectionsTypeOK, AppType
<1>5. SharedOK'
  BY <1>2 DEF ClientsInv, SharedOK
<1>6. ClientsOK'
  BY <1>2 DEF ClientsInv, ClientsOK
<1>7. AppsOK'
  <2>1. \A b \in Apps : app'[b].at \in {"new", "opening"} => app[b].at \in {"new", "opening"}
    BY <1>1
  <2>2. \A b \in Apps : app[b].waits # NoClient => app'[b].at = app[b].at
    BY <1>1
  <2> QED BY <1>1, <1>3, <2>1, <2>2 DEF ClientsInv, AppsOK, NextUri
<1> QED BY <1>4, <1>5, <1>6, <1>7 DEF ClientsInv

\* A step of a subscription.
LEMMA SubMovesKeep ==
  ASSUME ClientsInv, sub' \in [Apps -> {"none", "connecting", "on", "off"}],
         UNCHANGED <<clients, client, app, ending>>
  PROVE  ClientsInv'
<1>1. Holders' = Holders
  BY DEF Holders
<1>2. \A b \in Apps : app'[b].held = app[b].held
  OBVIOUS
<1> QED BY <1>1, <1>2 DEF ClientsInv, ConnectionsTypeOK, SharedOK, ClientsOK, AppsOK, NextUri

\* What the applications hold and wait for, when only clients change: what is
\* held stays connected, and nothing is shared anew.
LEMMA AppsKept ==
  ASSUME ConnectionsTypeOK, AppsOK, app' = app,
         \A c \in Clients : client[c].at \in {"open", "ended"} => client'[c].at \in {"open", "ended"},
         \A u \in Uris, c \in Clients : clients'[u] = c => clients[u] = c
  PROVE  AppsOK'
<1>1. ASSUME NEW a \in Apps, NEW c \in app[a].held
      PROVE  /\ client'[c].at \in {"open", "ended"}
             /\ \A u \in Uris : clients'[u] = c => clients[u] = c
  <2>1. c \in Clients
    BY DEF ConnectionsTypeOK
  <2>2. client[c].at \in {"open", "ended"}
    BY DEF AppsOK
  <2> QED BY <2>1, <2>2
<1>2. ASSUME NEW a \in Apps, app[a].waits # NoClient
      PROVE  \A u \in Uris : clients'[u] = app[a].waits => clients[u] = app[a].waits
  <2>1. app[a].waits \in Clients
    BY <1>2 DEF ConnectionsTypeOK
  <2> QED BY <2>1
<1> QED BY <1>1, <1>2 DEF AppsOK, NextUri

\* A client connects.
LEMMA ConnectsKeeps ==
  ASSUME ClientsInv, NEW c \in Clients, Connects(c)
  PROVE  ClientsInv'
<1> USE DEF ClientsInv
<1>1. /\ client' \in [Clients -> ClientType] /\ client[c].at = "connecting"
      /\ client'[c].at = "open" /\ client'[c].holders = client[c].holders
      /\ \A d \in Clients \ {c} : client'[d] = client[d]
      /\ UNCHANGED <<clients, app, sub, ending>>
  BY DEF Connects, ConnectionsTypeOK, ClientType
<1>2. Holders' = Holders
  BY <1>1 DEF Holders
<1>3. \A b \in Apps : app'[b].held = app[b].held
  BY <1>1
<1>4. ConnectionsTypeOK'
  BY <1>1 DEF ConnectionsTypeOK, ClientType
<1>5. SharedOK'
  BY <1>1, <1>2 DEF SharedOK
<1>6. ClientsOK'
  BY <1>1, <1>2 DEF ClientsOK
<1>7. AppsOK'
  BY <1>1, AppsKept
<1> QED BY <1>4, <1>5, <1>6, <1>7

\* A connect that fails is forgotten; nobody holds its client yet.
LEMMA ConnectFailsKeeps ==
  ASSUME ClientsInv, NEW c \in Clients, ConnectFails(c)
  PROVE  ClientsInv'
<1> USE DEF ClientsInv
<1>1. /\ client' \in [Clients -> ClientType] /\ client[c].at = "connecting"
      /\ client'[c].at = "failed" /\ client'[c].holders = client[c].holders
      /\ \A d \in Clients \ {c} : client'[d] = client[d]
      /\ UNCHANGED <<app, sub, ending>>
  BY DEF ConnectFails, ConnectionsTypeOK, ClientType
<1>2. /\ clients' \in [Uris -> Clients \cup {NoClient}]
      /\ \A u \in Uris, d \in Clients : clients'[u] = d <=> clients[u] = d /\ d # c
  <2>1. clients' = [u \in Uris |-> IF clients[u] = c THEN NoClient ELSE clients[u]]
    BY DEF ConnectFails
  <2>2. \A d \in Clients : d # NoClient
    BY DEF Clients, NoClient
  <2> QED BY <2>1, <2>2 DEF ConnectionsTypeOK
<1>3. Holders' = Holders
  BY <1>1 DEF Holders
<1>4. \A b \in Apps : app'[b].held = app[b].held
  BY <1>1
<1>5. ConnectionsTypeOK'
  BY <1>1, <1>2 DEF ConnectionsTypeOK, ClientType
<1>6. SharedOK'
  BY <1>1, <1>2, <1>3 DEF SharedOK
<1>7. ClientsOK'
  BY <1>1, <1>2, <1>3 DEF ClientsOK
<1>8. AppsOK'
  BY <1>1, <1>2, AppsKept
<1> QED BY <1>5, <1>6, <1>7, <1>8

\* Every client is let go at once, and each closed in its turn.
LEMMA ClosesAllKeeps ==
  ASSUME ClientsInv, ClosesAll
  PROVE  ClientsInv'
<1> USE DEF ClientsInv
<1>1. /\ ending' = {clients[u] : u \in Uris} \ {NoClient} /\ ending = {}
      /\ clients' = [u \in Uris |-> NoClient] /\ UNCHANGED <<client, app, sub>>
  BY DEF ClosesAll
<1>2. \A d \in Clients : d # NoClient
  BY DEF Clients, NoClient
<1>3. /\ \A u \in Uris, d \in Clients : clients'[u] # d
      /\ ending' \subseteq Clients /\ \A d \in Clients : d \in ending' <=> \E u \in Uris : clients[u] = d
  BY <1>1, <1>2 DEF ConnectionsTypeOK
<1>4. Holders' = Holders
  BY <1>1 DEF Holders
<1>5. ConnectionsTypeOK'
  BY <1>1, <1>3 DEF ConnectionsTypeOK
<1>6. SharedOK'
  BY <1>3 DEF SharedOK
<1>7. ClientsOK'
  BY <1>1, <1>3, <1>4 DEF ClientsOK, SharedOK
<1>8. AppsOK'
  BY <1>1, <1>3, AppsKept
<1> QED BY <1>5, <1>6, <1>7, <1>8

\* closeRedis or closeMongo ends a client.
LEMMA EndedKeeps ==
  ASSUME ClientsInv, NEW c \in Clients, Ended(c)
  PROVE  ClientsInv'
<1> USE DEF ClientsInv
<1>1. /\ client' \in [Clients -> ClientType] /\ c \in ending /\ ending' = ending \ {c}
      /\ client'[c].at = "ended" /\ client'[c].holders = client[c].holders
      /\ \A d \in Clients \ {c} : client'[d] = client[d]
      /\ UNCHANGED <<clients, app, sub>>
  BY DEF Ended, ConnectionsTypeOK, ClientType
<1>2. Holders' = Holders
  BY <1>1 DEF Holders
<1>3. \A b \in Apps : app'[b].held = app[b].held
  BY <1>1
<1>4. ConnectionsTypeOK'
  BY <1>1 DEF ConnectionsTypeOK, ClientType
<1>5. SharedOK'
  BY <1>1, <1>2 DEF SharedOK
<1>6. ClientsOK'
  BY <1>1, <1>2 DEF ClientsOK
<1>7. AppsOK'
  BY <1>1, AppsKept
<1> QED BY <1>4, <1>5, <1>6, <1>7

-----------------------------------------------------------------------------

\* An application connects its next instance: it is one more holder.
LEMMA OpensKeeps ==
  ASSUME ClientsInv, NEW a \in Apps, Opens(a)
  PROVE  ClientsInv'
<1> USE DEF ClientsInv
<1> DEFINE u == NextUri(a)
<1>1. PICK c \in Clients :
        /\ IF clients[u] # NoClient THEN c = clients[u] ELSE client[c].at = "none"
        /\ client' = [client EXCEPT ![c] = Shared(c)]
        /\ clients' = [clients EXCEPT ![u] = c]
        /\ app' = [app EXCEPT ![a].at = "opening", ![a].waits = c]
  BY DEF Opens
<1>2. /\ app[a].at \in {"new", "opening"} /\ app[a].waits = NoClient
      /\ Cardinality(app[a].held) < Len(Instances[a]) /\ UNCHANGED <<sub, ending>>
  BY DEF Opens
<1>3. u \in Uris /\ \A i \in 1 .. Cardinality(app[a].held) : u # Instances[a][i]
  BY <1>2, NextIsNew
<1>4. NextUri(a)' = u /\ \A b \in Apps \ {a} : NextUri(b)' = NextUri(b)
  BY <1>1 DEF NextUri, ConnectionsTypeOK
<1> HIDE DEF u
<1>5. c # NoClient
  BY DEF Clients, NoClient
<1>6. /\ app' \in [Apps -> AppType] /\ app'[a].at = "opening" /\ app'[a].waits = c
      /\ \A b \in Apps : app'[b].held = app[b].held
      /\ \A b \in Apps \ {a} : app'[b] = app[b]
  BY <1>1 DEF ConnectionsTypeOK, AppType
<1>7. /\ clients' \in [Uris -> Clients \cup {NoClient}]
      /\ \A v \in Uris, d \in Clients : clients'[v] = d <=> (IF v = u THEN d = c ELSE clients[v] = d)
  BY <1>1, <1>3 DEF ConnectionsTypeOK
<1>8. /\ client' \in [Clients -> ClientType] /\ client'[c].holders = client[c].holders + 1
      /\ client'[c].at = IF client[c].at = "none" THEN "connecting" ELSE client[c].at
      /\ \A d \in Clients \ {c} : client'[d] = client[d]
  <2> DEFINE t == IF client[c].at = "none" THEN "connecting" ELSE client[c].at
             n == client[c].holders + 1
             x == [client[c] EXCEPT !.at = t, !.holders = n]
  <2>1. client[c] \in ClientType
    BY DEF ConnectionsTypeOK, ClientType
  <2>2. Shared(c) = x
    BY <2>1 DEF Shared, ClientType
  <2>3. t \in {"none", "connecting", "open", "failed", "closed", "ended"} /\ n \in Nat
    BY <2>1 DEF ClientType
  <2>4. x \in ClientType /\ x.holders = n /\ x.at = t
    <3> HIDE DEF t, n
    <3> QED BY <2>1, <2>3 DEF ClientType
  <2> HIDE DEF x
  <2>5. client' = [client EXCEPT ![c] = x]
    BY <1>1, <2>2
  <2> QED BY <2>4, <2>5 DEF ConnectionsTypeOK, ClientType
<1>9. (clients[u] = c \/ client[c].at = "none") /\ (client[c].at # "none" => clients[u] = c)
  BY <1>1, <1>3 DEF SharedOK
<1>10. a \notin Holders[c]
  <2>1. c \notin app[a].held
    <3>1. CASE clients[u] = c
      BY <1>2, <1>3, <3>1 DEF AppsOK, NextUri
    <3>2. CASE client[c].at = "none"
      BY <3>2 DEF AppsOK, NextUri
    <3> QED BY <1>9, <3>1, <3>2
  <2> QED BY <1>2, <1>5, <2>1 DEF Holders
<1>11. Holders'[c] = Holders[c] \cup {a} /\ \A d \in Clients \ {c} : Holders'[d] = Holders[d]
  <2>1. \A d \in Clients : d # NoClient
    BY DEF Clients, NoClient
  <2> QED BY <1>2, <1>6, <2>1 DEF Holders
<1>12. /\ IsFiniteSet(Holders'[c]) /\ Cardinality(Holders'[c]) = Cardinality(Holders[c]) + 1
       /\ Cardinality(Holders[c]) \in Nat
  BY <1>10, <1>11, FS_AddElement, FS_CardinalityType DEF ClientsOK
<1>13. client[c].holders = Cardinality(Holders[c]) /\ c \notin ending /\ client[c].holders \in Nat
  BY <1>3, <1>9, FS_EmptySet DEF SharedOK, ClientsOK, ConnectionsTypeOK
<1>14. ConnectionsTypeOK'
  BY <1>2, <1>6, <1>7, <1>8 DEF ConnectionsTypeOK, AppType, ClientType
<1>15. \A v \in Uris \ {u} : clients[v] # c
  BY <1>3, <1>9 DEF SharedOK
<1>16. SharedOK'
  <2> SUFFICES ASSUME NEW v \in Uris, NEW d \in Clients, clients'[v] = d
               PROVE  /\ client'[d].at \in {"connecting", "open"} /\ d \notin ending'
                      /\ client'[d].holders = Cardinality(Holders'[d]) /\ client'[d].holders # 0
                      /\ \A w \in Uris : clients'[w] = d => w = v
    BY DEF SharedOK
  <2>1. CASE d = c
    <3>1. v = u /\ \A w \in Uris : clients'[w] = c => w = u
      BY <1>7, <1>15, <2>1
    <3>2. client'[c].at \in {"connecting", "open"}
      BY <1>3, <1>8, <1>9 DEF SharedOK
    <3>3. client'[c].holders = Cardinality(Holders'[c]) /\ client'[c].holders # 0
      BY <1>8, <1>12, <1>13
    <3> QED BY <1>2, <1>13, <2>1, <3>1, <3>2, <3>3
  <2>2. CASE d # c
    <3>1. clients[v] = d /\ v # u /\ \A w \in Uris : clients'[w] = d => clients[w] = d
      BY <1>7, <2>2
    <3> QED BY <1>2, <1>8, <1>11, <2>2, <3>1 DEF SharedOK
  <2> QED BY <2>1, <2>2
<1>17. ClientsOK'
  <2> SUFFICES ASSUME NEW d \in Clients
               PROVE  /\ IsFiniteSet(Holders'[d]) /\ Cardinality(Holders'[d]) <= client'[d].holders
                      /\ client'[d].at = "none" =>
                           Holders'[d] = {} /\ client'[d].holders = 0 /\ d \notin ending'
                      /\ client'[d].at \in {"connecting", "open"} =>
                           d \in ending' \/ \E v \in Uris : clients'[v] = d
    BY DEF ClientsOK
  <2>1. CASE d = c
    BY <1>3, <1>7, <1>8, <1>12, <1>13, <2>1
  <2>2. CASE d # c
    <3>1. /\ client'[d] = client[d] /\ Holders'[d] = Holders[d] /\ ending' = ending
      BY <1>2, <1>8, <1>11, <2>2
    <3>2. ASSUME NEW v \in Uris, clients[v] = d PROVE clients'[v] = d
      <4>1. v # u
        BY <1>1, <2>2, <3>2 DEF Clients, NoClient
      <4> QED BY <1>7, <3>2, <4>1
    <3> QED BY <3>1, <3>2 DEF ClientsOK
  <2> QED BY <2>1, <2>2
<1>18. AppsOK'
  <2>1. \A d \in Clients : client[d].at \in {"open", "ended"} => client'[d].at = client[d].at
    BY <1>8
  <2>2. ASSUME NEW b \in Apps, NEW d \in Clients, TRUE, NEW v \in Uris, clients'[v] = d
        PROVE  clients[v] = d \/ (d = c /\ v = u)
    BY <1>7, <2>2
  <2>3. ASSUME NEW b \in Apps \ {a}, b \in Holders[c], NEW v \in Uris, clients'[v] = c
        PROVE  clients[v] = c
    <3>1. client[c].at # "none"
      BY <2>3 DEF ClientsOK
    <3> QED BY <1>7, <1>9, <2>3, <3>1
  <2>4. ASSUME NEW b \in Apps \ {a}, app[b].waits # NoClient
        PROVE  \A v \in Uris : clients'[v] = app[b].waits => v = NextUri(b)'
    <3>1. app[b].waits \in Clients
      BY <2>4 DEF ConnectionsTypeOK
    <3>2. app[b].waits = c => b \in Holders[c]
      BY DEF Holders
    <3>3. \A v \in Uris : clients'[v] = app[b].waits => clients[v] = app[b].waits
      BY <1>7, <2>3, <3>1, <3>2
    <3> QED BY <1>4, <2>4, <3>3 DEF AppsOK, NextUri
  <2>5. ASSUME NEW b \in Apps, NEW d \in app[b].held, NEW v \in Uris, clients'[v] = d
        PROVE  clients[v] = d
    <3>1. d \in Clients /\ b \in Holders[d]
      BY DEF Holders, ConnectionsTypeOK
    <3>2. CASE b = a
      BY <1>7, <1>10, <2>5, <3>1, <3>2
    <3>3. CASE b # a
      BY <1>7, <2>3, <2>5, <3>1, <3>3
    <3> QED BY <3>2, <3>3
  <2>6. \A v \in Uris : clients'[v] = c => v = u
    BY <1>7, <1>15
  <2>7. c \notin app[a].held
    BY <1>10 DEF Holders
  <2>8. ASSUME NEW b \in Apps
        PROVE  /\ \A d \in app'[b].held : client'[d].at \in {"open", "ended"}
               /\ app'[b].waits # NoClient =>
                    /\ app'[b].at = "opening" /\ app'[b].waits \notin app'[b].held
                    /\ Cardinality(app'[b].held) < Len(Instances[b])
                    /\ \A v \in Uris : clients'[v] = app'[b].waits => v = NextUri(b)'
               /\ IsFiniteSet(app'[b].held)
               /\ app'[b].at \in {"new", "opening"} =>
                    \A d \in app'[b].held, v \in Uris : clients'[v] = d =>
                      \E i \in 1 .. Cardinality(app'[b].held) : v = Instances[b][i]
    <3>1. /\ \A d \in app[b].held : d \in Clients
          /\ app'[b].held = app[b].held
      BY <1>6 DEF ConnectionsTypeOK
    <3>2. CASE b = a
      BY <1>2, <1>4, <1>6, <2>1, <2>5, <2>6, <2>7, <3>1, <3>2 DEF AppsOK, NextUri
    <3>3. CASE b # a
      BY <1>6, <2>1, <2>4, <2>5, <3>1, <3>3 DEF AppsOK, NextUri
    <3> QED BY <3>2, <3>3
  <2> QED BY <2>8 DEF AppsOK, NextUri
<1> QED BY <1>14, <1>16, <1>17, <1>18

-----------------------------------------------------------------------------

\* connectRedis and connectMongo answer: what is not shared any more was closed
\* by its failed connect, or with all the others, and is held by nobody new.
LEMMA ConnectedKeeps ==
  ASSUME ClientsInv, NEW a \in Apps, Connected(a)
  PROVE  ClientsInv'
<1> USE DEF ClientsInv
<1> DEFINE c == app[a].waits
           u == NextUri(a)
           fails == client[c].at = "failed" \/ clients[u] # c
<1>1. c \in Clients /\ c # NoClient /\ client[c].at # "connecting"
  BY DEF Connected, ConnectionsTypeOK
<1>2. app' = [app EXCEPT ![a].waits = NoClient,
                         ![a].held = IF fails THEN @ ELSE @ \cup {c},
                         ![a].at = IF fails THEN "refused" ELSE @]
      /\ UNCHANGED <<clients, client, sub, ending>>
  BY DEF Connected
<1>3. /\ app[a].at = "opening" /\ c \notin app[a].held
      /\ Cardinality(app[a].held) < Len(Instances[a])
      /\ \A v \in Uris : clients[v] = c => v = u
  BY <1>1 DEF AppsOK
<1>4. u \in Uris /\ \A i \in 1 .. Cardinality(app[a].held) : u # Instances[a][i]
  BY <1>3, NextIsNew
<1>5. u = Instances[a][Cardinality(app[a].held) + 1] /\ Cardinality(app[a].held) \in Nat
  BY <1>3, NextIsNew DEF NextUri
<1>6. fails => \A v \in Uris : clients[v] # c
  BY <1>1, <1>3 DEF SharedOK
<1>7. ~fails => client[c].at = "open" /\ clients[u] = c
  BY <1>1, <1>4 DEF SharedOK
<1> DEFINE h == IF fails THEN app[a].held ELSE app[a].held \cup {c}
           x == [app[a] EXCEPT !.waits = NoClient, !.held = h,
                               !.at = IF fails THEN "refused" ELSE app[a].at]
<1>8. app' = [app EXCEPT ![a] = x]
  BY <1>2 DEF ConnectionsTypeOK
<1>9. /\ x \in AppType /\ x.waits = NoClient /\ x.held = h
      /\ x.at = IF fails THEN "refused" ELSE "opening"
  <2>1. h \in SUBSET Clients
    BY <1>1 DEF ConnectionsTypeOK
  <2> HIDE DEF h, fails
  <2> QED BY <1>3, <2>1 DEF ConnectionsTypeOK, AppType
<1> HIDE DEF x
<1>10. /\ app' \in [Apps -> AppType] /\ app'[a].waits = NoClient /\ app'[a].held = h
       /\ app'[a].at = IF fails THEN "refused" ELSE "opening"
       /\ \A b \in Apps \ {a} : app'[b] = app[b]
  BY <1>8, <1>9 DEF ConnectionsTypeOK, AppType
<1>11. ConnectionsTypeOK'
  BY <1>2, <1>10 DEF ConnectionsTypeOK, AppType
<1>12. a \in Holders[c]
  BY <1>1 DEF Holders
<1>13. /\ Holders'[c] = IF fails THEN Holders[c] \ {a} ELSE Holders[c]
       /\ \A d \in Clients \ {c} : Holders'[d] = Holders[d]
  <2>1. \A d \in Clients : d # NoClient
    BY DEF Clients, NoClient
  <2>2. \A b \in Apps, d \in Clients :
          (d \in app'[b].held \/ app'[b].waits = d)
            <=> ((d \in app[b].held \/ app[b].waits = d) /\ ~(fails /\ b = a /\ d = c))
    <3> HIDE DEF fails
    <3> QED BY <1>1, <1>3, <1>10, <2>1
  <2> HIDE DEF fails, c
  <2> QED BY <1>1, <1>12, <2>2 DEF Holders
<1>14. /\ IsFiniteSet(Holders'[c]) /\ Cardinality(Holders'[c]) \in Nat
       /\ Cardinality(Holders'[c]) <= Cardinality(Holders[c])
       /\ ~fails => Cardinality(Holders'[c]) = Cardinality(Holders[c])
  <2> HIDE DEF fails, c
  <2>1. IsFiniteSet(Holders[c]) /\ Cardinality(Holders[c]) \in Nat
    BY <1>1, FS_CardinalityType DEF ClientsOK
  <2>2. /\ IsFiniteSet(Holders[c] \ {a})
        /\ Cardinality(Holders[c] \ {a}) = Cardinality(Holders[c]) - 1
        /\ Cardinality(Holders[c] \ {a}) \in Nat
    BY <1>12, <2>1, FS_RemoveElement, FS_CardinalityType
  <2> QED BY <1>13, <2>1, <2>2
<1>15. SharedOK'
  <2> SUFFICES ASSUME NEW v \in Uris, NEW d \in Clients, clients[v] = d
               PROVE  Cardinality(Holders'[d]) = Cardinality(Holders[d])
    BY <1>2 DEF SharedOK
  <2> HIDE DEF fails
  <2> QED BY <1>6, <1>13, <1>14
<1>16. ClientsOK'
  <2> SUFFICES ASSUME NEW d \in Clients
               PROVE  /\ IsFiniteSet(Holders'[d]) /\ Cardinality(Holders'[d]) <= client[d].holders
                      /\ client[d].at = "none" => Holders'[d] = {}
    BY <1>2 DEF ClientsOK
  <2>1. CASE d = c
    <3>1. /\ Cardinality(Holders[c]) <= client[c].holders /\ client[c].holders \in Nat
          /\ client[c].at # "none" /\ Cardinality(Holders[c]) \in Nat
      BY <1>1, <1>12, FS_CardinalityType DEF ClientsOK, ConnectionsTypeOK
    <3> HIDE DEF fails, c
    <3> QED BY <1>14, <2>1, <3>1
  <2>2. CASE d # c
    BY <1>13, <2>2 DEF ClientsOK
  <2> QED BY <2>1, <2>2
<1>17. AppsOK'
  <2>1. IsFiniteSet(app[a].held) /\ IsFiniteSet(h)
        /\ (~fails => Cardinality(h) = Cardinality(app[a].held) + 1)
    <3>1. IsFiniteSet(app[a].held)
      BY DEF AppsOK
    <3>2. IsFiniteSet(app[a].held \cup {c}) /\ Cardinality(app[a].held \cup {c}) = Cardinality(app[a].held) + 1
      BY <1>3, <3>1, FS_AddElement
    <3> QED BY <3>1, <3>2
  <2>2. \A d \in h : client[d].at \in {"open", "ended"}
    BY <1>7 DEF AppsOK
  <2>3. ASSUME ~fails, NEW d \in h, NEW v \in Uris, clients[v] = d
        PROVE  \E i \in 1 .. Cardinality(h) : v = Instances[a][i]
    <3>1. CASE d = c
      <4>1. v = Instances[a][Cardinality(app[a].held) + 1]
        BY <1>3, <1>5, <2>3, <3>1
      <4>2. Cardinality(app[a].held) + 1 \in 1 .. Cardinality(h)
        BY <1>5, <2>1, <2>3
      <4> QED BY <4>1, <4>2
    <3>2. CASE d # c
      <4>1. PICK i \in 1 .. Cardinality(app[a].held) : v = Instances[a][i]
        BY <1>3, <2>3, <3>2 DEF AppsOK
      <4>2. i \in 1 .. Cardinality(h)
        BY <1>5, <2>1, <2>3, <4>1
      <4> QED BY <4>1, <4>2
    <3> QED BY <3>1, <3>2
  <2> HIDE DEF fails, h
  <2>4. ASSUME NEW b \in Apps
        PROVE  /\ \A d \in app'[b].held : client[d].at \in {"open", "ended"}
               /\ app'[b].waits # NoClient =>
                    /\ app'[b].at = "opening" /\ app'[b].waits \notin app'[b].held
                    /\ Cardinality(app'[b].held) < Len(Instances[b])
                    /\ \A v \in Uris : clients[v] = app'[b].waits =>
                         v = Instances[b][Cardinality(app'[b].held) + 1]
               /\ IsFiniteSet(app'[b].held)
               /\ app'[b].at \in {"new", "opening"} =>
                    \A d \in app'[b].held, v \in Uris : clients[v] = d =>
                      \E i \in 1 .. Cardinality(app'[b].held) : v = Instances[b][i]
    <3>1. CASE b = a
      BY <1>10, <2>1, <2>2, <2>3, <3>1
    <3>2. CASE b # a
      BY <1>10, <3>2 DEF AppsOK, NextUri
    <3> QED BY <3>1, <3>2
  <2>5. client' = client /\ clients' = clients
    BY <1>2
  <2> QED BY <2>4, <2>5 DEF AppsOK, NextUri
<1> QED BY <1>11, <1>15, <1>16, <1>17

\* A connection is given back: the last one closes the client.
LEMMA GivesBackKeeps ==
  ASSUME ClientsInv, NEW a \in Apps, NEW c \in Clients, GivesBack(a, c)
  PROVE  ClientsInv'
<1> USE DEF ClientsInv
<1> DEFINE last == ClosesIt(c)
<1>1. /\ app[a].at \in {"refused", "closingClients"} /\ c \in app[a].held
      /\ app' = [app EXCEPT ![a].held = @ \ {c}]
      /\ client' = [client EXCEPT ![c].holders = @ - 1, ![c].at = IF last THEN "closed" ELSE @]
      /\ clients' = [u \in Uris |-> IF clients[u] = c /\ last THEN NoClient ELSE clients[u]]
      /\ UNCHANGED <<sub, ending>>
  BY DEF GivesBack
<1>2. last <=> client[c].holders = 1 /\ \E u \in Uris : clients[u] = c
  BY DEF ClosesIt
<1> HIDE DEF last
<1>3. app[a].waits = NoClient
  BY <1>1 DEF AppsOK
<1>4. \A d \in Clients : d # NoClient
  BY DEF Clients, NoClient
<1>5. /\ app' \in [Apps -> AppType] /\ app'[a].held = app[a].held \ {c}
      /\ \A b \in Apps : app'[b].at = app[b].at /\ app'[b].waits = app[b].waits
      /\ \A b \in Apps \ {a} : app'[b].held = app[b].held
  BY <1>1 DEF ConnectionsTypeOK, AppType
<1>6. /\ a \in Holders[c] /\ Holders'[c] = Holders[c] \ {a}
      /\ \A d \in Clients \ {c} : Holders'[d] = Holders[d]
  BY <1>1, <1>3, <1>4, <1>5 DEF Holders
<1>7. /\ IsFiniteSet(Holders[c]) /\ Cardinality(Holders[c]) \in Nat
      /\ Cardinality(Holders[c]) # 0 /\ Cardinality(Holders[c]) <= client[c].holders
      /\ client[c].holders \in Nat
  BY <1>6, FS_CardinalityType, FS_EmptySet DEF ClientsOK, ConnectionsTypeOK
<1>8. /\ IsFiniteSet(Holders'[c]) /\ Cardinality(Holders'[c]) = Cardinality(Holders[c]) - 1
  BY <1>6, <1>7, FS_RemoveElement
<1>9. /\ client' \in [Clients -> ClientType] /\ client'[c].holders = client[c].holders - 1
      /\ client'[c].at = IF last THEN "closed" ELSE client[c].at
      /\ \A d \in Clients \ {c} : client'[d] = client[d]
  <2> DEFINE n == client[c].holders - 1
             t == IF last THEN "closed" ELSE client[c].at
             x == [client[c] EXCEPT !.holders = n, !.at = t]
  <2>1. client' = [client EXCEPT ![c] = x]
    BY <1>1 DEF ConnectionsTypeOK
  <2>2. n \in Nat
    BY <1>7
  <2>3. x \in ClientType /\ x.holders = n /\ x.at = t
    <3> HIDE DEF n
    <3> QED BY <2>2 DEF ClientType, ConnectionsTypeOK
  <2> HIDE DEF x
  <2> QED BY <2>1, <2>3 DEF ConnectionsTypeOK, ClientType
<1>10. /\ clients' \in [Uris -> Clients \cup {NoClient}]
       /\ \A u \in Uris, d \in Clients : clients'[u] = d <=> clients[u] = d /\ ~(d = c /\ last)
  BY <1>1, <1>4 DEF ConnectionsTypeOK
<1>11. last => Holders[c] = {a}
  <2>1. last => Cardinality(Holders[c]) = 1
    BY <1>2 DEF SharedOK
  <2>2. last => Cardinality(Holders'[c]) = 0
    BY <1>7, <1>8, <2>1
  <2>3. last => Holders'[c] = {}
    BY <1>8, <2>2, FS_EmptySet
  <2> QED BY <1>6, <2>3
<1>12. ConnectionsTypeOK'
  BY <1>1, <1>5, <1>9, <1>10 DEF ConnectionsTypeOK, AppType, ClientType
<1>13. SharedOK'
  <2> SUFFICES ASSUME NEW u \in Uris, NEW d \in Clients, clients'[u] = d
               PROVE  /\ client'[d].at \in {"connecting", "open"} /\ d \notin ending'
                      /\ client'[d].holders = Cardinality(Holders'[d]) /\ client'[d].holders # 0
                      /\ \A v \in Uris : clients'[v] = d => v = u
    BY DEF SharedOK
  <2>1. CASE d = c
    <3>1. clients[u] = c /\ ~last /\ \A v \in Uris : clients'[v] = c => clients[v] = c
      BY <1>10, <2>1
    <3>2. client[c].holders # 1
      BY <1>2, <3>1
    <3> QED BY <1>1, <1>7, <1>8, <1>9, <2>1, <3>1, <3>2 DEF SharedOK
  <2>2. CASE d # c
    BY <1>1, <1>6, <1>9, <1>10, <2>2 DEF SharedOK
  <2> QED BY <2>1, <2>2
<1>14. ClientsOK'
  <2> SUFFICES ASSUME NEW d \in Clients
               PROVE  /\ IsFiniteSet(Holders'[d]) /\ Cardinality(Holders'[d]) <= client'[d].holders
                      /\ client'[d].at = "none" =>
                           Holders'[d] = {} /\ client'[d].holders = 0 /\ d \notin ending'
                      /\ client'[d].at \in {"connecting", "open"} =>
                           d \in ending' \/ \E v \in Uris : clients'[v] = d
    BY DEF ClientsOK
  <2>1. CASE d = c
    <3>1. client[c].at # "none"
      BY <1>6 DEF ClientsOK
    <3> QED BY <1>1, <1>7, <1>8, <1>9, <1>10, <2>1, <3>1 DEF ClientsOK
  <2>2. CASE d # c
    BY <1>1, <1>6, <1>9, <1>10, <2>2 DEF ClientsOK
  <2> QED BY <2>1, <2>2
<1>15. AppsOK'
  <2>1. ASSUME NEW b \in Apps, NEW d \in app'[b].held
        PROVE  /\ d \in Clients /\ client'[d].at \in {"open", "ended"} /\ d \in app[b].held
    <3>1. d \in app[b].held /\ d \in Clients /\ b \in Holders[d]
      BY <1>5 DEF ConnectionsTypeOK, Holders
    <3>2. ~(d = c /\ last)
      BY <1>5, <1>11, <2>1, <3>1
    <3>3. client'[d].at = client[d].at
      BY <1>9, <3>1, <3>2
    <3> QED BY <3>1, <3>3 DEF AppsOK
  <2>2. ASSUME NEW b \in Apps, app[b].waits # NoClient
        PROVE  \A v \in Uris : clients'[v] = app[b].waits => clients[v] = app[b].waits
    <3>1. app[b].waits \in Clients
      BY <2>2 DEF ConnectionsTypeOK
    <3> QED BY <1>10, <3>1
  <2>3. ASSUME NEW b \in Apps, NEW d \in app'[b].held, NEW v \in Uris, clients'[v] = d
        PROVE  clients[v] = d
    BY <1>10, <2>1, <2>3
  <2>4. IsFiniteSet(app'[a].held)
    <3>1. IsFiniteSet(app[a].held)
      BY DEF AppsOK
    <3>2. IsFiniteSet(app[a].held \ {c})
      BY <3>1, FS_RemoveElement
    <3> QED BY <1>5, <3>2
  <2>5. ASSUME NEW b \in Apps
        PROVE  /\ \A d \in app'[b].held : client'[d].at \in {"open", "ended"}
               /\ app'[b].waits # NoClient =>
                    /\ app'[b].at = "opening" /\ app'[b].waits \notin app'[b].held
                    /\ Cardinality(app'[b].held) < Len(Instances[b])
                    /\ \A v \in Uris : clients'[v] = app'[b].waits =>
                         v = Instances[b][Cardinality(app'[b].held) + 1]
               /\ IsFiniteSet(app'[b].held)
               /\ app'[b].at \in {"new", "opening"} =>
                    \A d \in app'[b].held, v \in Uris : clients'[v] = d =>
                      \E i \in 1 .. Cardinality(app'[b].held) : v = Instances[b][i]
    <3>1. CASE b = a
      BY <1>1, <1>3, <1>5, <2>1, <2>4, <3>1
    <3>2. CASE b # a
      BY <1>5, <2>1, <2>2, <2>3, <3>2 DEF AppsOK, NextUri
    <3> QED BY <3>1, <3>2
  <2> QED BY <2>5 DEF AppsOK, NextUri
<1> QED BY <1>12, <1>13, <1>14, <1>15

-----------------------------------------------------------------------------

\* Every step keeps what is held and what is shared together.
LEMMA ClientsKept == ClientsInv /\ [ConnectionsNext]_connectionVars => ClientsInv'
<1> SUFFICES ASSUME ClientsInv, [ConnectionsNext]_connectionVars PROVE ClientsInv'
  OBVIOUS
<1> USE DEF ClientsInv
<1>1. CASE UNCHANGED connectionVars
  BY <1>1, SubMovesKeep DEF connectionVars, ConnectionsTypeOK
<1>2. CASE \E a \in Apps : Refused(a)
  BY <1>2, AppMovesKeep DEF Refused, ConnectionsTypeOK
<1>3. CASE \E a \in Apps : OpenDone(a)
  <2>1. PICK a \in Apps : OpenDone(a)
    BY <1>3
  <2>2. app[a].waits = NoClient
    <3>1. Cardinality(app[a].held) = Len(Instances[a]) /\ Len(Instances[a]) \in Nat
      BY <2>1, ConnectionsAssumption DEF OpenDone
    <3> QED BY <3>1 DEF AppsOK
  <2> QED BY <2>1, <2>2, AppMovesKeep DEF OpenDone, ConnectionsTypeOK
<1>4. CASE \E a \in Apps : Closes(a) \/ Sweeps(a) \/ Swept(a) \/ ClosesDone(a)
  <2>1. PICK a \in Apps : Closes(a) \/ Sweeps(a) \/ Swept(a) \/ ClosesDone(a)
    BY <1>4
  <2>2. app[a].at \in {"open", "closingQueues", "closing", "refused", "closingClients"}
    BY <2>1 DEF Closes, Sweeps, Swept, ClosesDone
  <2>3. app[a].waits = NoClient
    BY <2>2 DEF AppsOK
  <2>4. CASE Closes(a)
    BY <2>3, <2>4, AppMovesKeep DEF Closes, ConnectionsTypeOK
  <2>5. CASE Sweeps(a)
    <3>1. PICK t \in {"closing", "closingClients"} : app' = [app EXCEPT ![a].at = t]
      BY <2>5 DEF Sweeps
    <3> QED BY <2>3, <2>5, <3>1, AppMovesKeep DEF Sweeps, ConnectionsTypeOK
  <2>6. CASE Swept(a)
    <3>1. PICK t \in {"closingClients", "stopped"} : app' = [app EXCEPT ![a].at = t]
      BY <2>6 DEF Swept
    <3>2. sub' \in [Apps -> {"none", "connecting", "on", "off"}]
      BY <2>6 DEF Swept, ConnectionsTypeOK
    <3> QED BY <2>3, <2>6, <3>1, <3>2, AppMovesKeep DEF Swept
  <2>7. CASE ClosesDone(a)
    <3>1. PICK t \in {"failed", "closed"} : app' = [app EXCEPT ![a].at = t]
      BY <2>7 DEF ClosesDone
    <3> QED BY <2>3, <2>7, <3>1, AppMovesKeep DEF ClosesDone, ConnectionsTypeOK
  <2> QED BY <2>1, <2>4, <2>5, <2>6, <2>7
<1>5. CASE \E a \in Apps : Subscribes(a) \/ Subscribed(a) \/ Unsubscribes(a)
  <2>1. /\ sub' \in [Apps -> {"none", "connecting", "on", "off"}]
        /\ UNCHANGED <<clients, client, app, ending>>
    BY <1>5 DEF Subscribes, Subscribed, Unsubscribes, ConnectionsTypeOK
  <2> QED BY <2>1, SubMovesKeep
<1> QED
  BY <1>1, <1>2, <1>3, <1>4, <1>5, OpensKeeps, ConnectedKeeps, GivesBackKeeps, ConnectsKeeps,
     ConnectFailsKeeps, EndedKeeps, ClosesAllKeeps DEF ConnectionsNext

\* A client is open while somebody holds it and no longer, unless all were
\* closed (connect.ts, open-redis.ts, open-mongo.ts).
THEOREM OpenWhileHeldHolds == ConnectionsSpec => []OpenWhileHeld
<1>1. ClientsInv => OpenWhileHeld
  <2> SUFFICES ASSUME ClientsInv PROVE OpenWhileHeld
    OBVIOUS
  <2> USE DEF ClientsInv
  <2>1. \A a \in Apps, c \in Clients : c \in app[a].held => client[c].at \in {"open", "ended"}
    BY DEF AppsOK
  <2>2. ASSUME NEW c \in Clients, client[c].at = "open", c \notin ending
        PROVE  \E a \in Apps : c \in app[a].held \/ app[a].waits = c
    <3>1. PICK u \in Uris : clients[u] = c
      BY <2>2 DEF ClientsOK
    <3>2. Holders[c] # {}
      BY <3>1, FS_EmptySet DEF SharedOK
    <3> QED BY <3>2 DEF Holders
  <2> QED BY <2>1, <2>2 DEF OpenWhileHeld
<1> QED BY <1>1, ClientsStart, ClientsKept, PTL DEF ConnectionsSpec

(***************************************************************************)
(* The groups: a sorted set and a list keep what is added to them in some  *)
(* order, each member once.                                                *)
(***************************************************************************)

\* The members of S, each once.
Listing(s, S) ==
  /\ s \in Seq(S) /\ \A e \in S : \E i \in 1 .. Len(s) : s[i] = e
  /\ \A i, k \in 1 .. Len(s) : s[i] = s[k] => i = k

\* The empty one lists nothing, and no other does.
LEMMA ListingNone ==
  ASSUME NEW S, NEW s, Listing(s, S)
  PROVE  s = <<>> <=> S = {}
BY DEF Listing

\* Nothing is listed by nothing.
LEMMA ListingEmpty == Listing(<<>>, {})
BY DEF Listing

\* What is added at the tail was not there.
LEMMA ListingAppend ==
  ASSUME NEW S, NEW s, NEW e, Listing(s, S), e \notin S
  PROVE  Listing(Append(s, e), S \cup {e})
<1>1. PICK n \in Nat : n = Len(s) /\ s \in Seq(S)
  BY DEF Listing
<1> DEFINE t == Append(s, e)
<1>2. t \in Seq(S \cup {e}) /\ Len(t) = n + 1 /\ t[n + 1] = e /\ \A i \in 1 .. n : t[i] = s[i] /\ s[i] \in S
  BY <1>1
<1> HIDE DEF t
<1>3. ASSUME NEW x \in S \cup {e} PROVE \E i \in 1 .. Len(t) : t[i] = x
  <2>1. CASE x = e
    BY <2>1, <1>2
  <2>2. CASE x # e
    <3>1. PICK i \in 1 .. n : s[i] = x
      BY <2>2, <1>1 DEF Listing
    <3> QED BY <3>1, <1>2
  <2> QED BY <2>1, <2>2
<1>4. ASSUME NEW i \in 1 .. Len(t), NEW k \in 1 .. Len(t), t[i] = t[k] PROVE i = k
  <2>1. CASE i \in 1 .. n /\ k \in 1 .. n
    BY <2>1, <1>1, <1>2, <1>4 DEF Listing
  <2>2. CASE i = n + 1 \/ k = n + 1
    BY <2>2, <1>2, <1>4
  <2> QED BY <2>1, <2>2, <1>2
<1>5. Listing(t, S \cup {e})
  BY <1>2, <1>3, <1>4 DEF Listing
<1> QED BY <1>5 DEF t

\* The head of a list, and what is left.
LEMMA ListingTail ==
  ASSUME NEW S, NEW s, Listing(s, S), s # <<>>
  PROVE  Head(s) \in S /\ Listing(Tail(s), S \ {Head(s)})
<1>1. PICK n \in Nat : n = Len(s) /\ s \in Seq(S) /\ n > 0
  BY DEF Listing
<1> DEFINE t == Tail(s)
           h == Head(s)
<1>2. t \in Seq(S) /\ Len(t) = n - 1 /\ h = s[1] /\ h \in S
      /\ \A i \in 1 .. n - 1 : t[i] = s[i + 1]
  BY <1>1
<1> HIDE DEF t, h
<1>3. ASSUME NEW i \in 1 .. n - 1 PROVE t[i] \in S \ {h}
  <2>1. i + 1 \in 1 .. n /\ 1 \in 1 .. n /\ i + 1 # 1
    BY <1>1
  <2>2. s[i + 1] # s[1]
    BY <2>1, <1>1 DEF Listing
  <2> QED BY <2>2, <1>2, <1>1
<1>4. t \in Seq(S \ {h})
  BY <1>2, <1>3
<1>5. ASSUME NEW x \in S \ {h} PROVE \E i \in 1 .. Len(t) : t[i] = x
  <2>1. PICK k \in 1 .. n : s[k] = x
    BY <1>1 DEF Listing
  <2>2. k - 1 \in 1 .. n - 1 /\ (k - 1) + 1 = k
    BY <2>1, <1>2
  <2> QED BY <2>1, <2>2, <1>2
<1>6. ASSUME NEW i \in 1 .. Len(t), NEW k \in 1 .. Len(t), t[i] = t[k] PROVE i = k
  <2>1. i + 1 \in 1 .. n /\ k + 1 \in 1 .. n /\ s[i + 1] = s[k + 1]
    BY <1>2, <1>6
  <2>2. i + 1 = k + 1
    BY <2>1, <1>1 DEF Listing
  <2> QED BY <2>2
<1>7. Listing(t, S \ {h})
  BY <1>4, <1>5, <1>6 DEF Listing
<1> QED BY <1>7, <1>2 DEF t, h

\* A member taken out of a sorted set.
LEMMA ListingWithout ==
  ASSUME NEW S, NEW s, NEW e, Listing(s, S)
  PROVE  Listing(Without(s, e), S \ {e})
<1>1. PICK n \in Nat : n = Len(s) /\ s \in Seq(S) /\ DOMAIN s = 1 .. n
  BY DEF Listing
<1>2. CASE \A i \in DOMAIN s : s[i] # e
  <2>1. e \notin S
    BY <1>1, <1>2 DEF Listing
  <2>2. S \ {e} = S /\ Without(s, e) = s
    BY <2>1, <1>2 DEF Without
  <2> QED BY <2>2
<1>3. CASE ~(\A i \in DOMAIN s : s[i] # e)
  <2>1. PICK at \in 1 .. n : at = (CHOOSE i \in DOMAIN s : s[i] = e) /\ s[at] = e
    BY <1>1, <1>3
  <2> DEFINE t == [i \in 1 .. n - 1 |-> IF i < at THEN s[i] ELSE s[i + 1]]
  <2>2. Without(s, e) = t
    BY <1>1, <1>3, <2>1 DEF Without
  <2>3. \A i \in 1 .. n - 1 : t[i] = IF i < at THEN s[i] ELSE s[i + 1]
    OBVIOUS
  <2>4. n - 1 \in Nat
    BY <2>1
  <2>5. DOMAIN t = 1 .. n - 1
    OBVIOUS
  <2>6. ASSUME NEW i \in 1 .. n - 1 PROVE t[i] \in S \ {e}
    <3>1. PICK k \in 1 .. n : t[i] = s[k] /\ k # at
      BY <2>3
    <3>2. s[k] # s[at]
      BY <3>1, <1>1 DEF Listing
    <3> QED BY <3>1, <3>2, <2>1, <1>1
  <2>7. t \in [1 .. n - 1 -> S \ {e}]
    BY <2>6
  <2>8. t \in Seq(S \ {e}) /\ Len(t) = n - 1
    BY <2>7, <2>4
  <2> HIDE DEF t
  <2>9. ASSUME NEW x \in S \ {e} PROVE \E i \in 1 .. Len(t) : t[i] = x
    <3>1. PICK k \in 1 .. n : s[k] = x
      BY <1>1 DEF Listing
    <3>2. k # at
      BY <3>1, <2>1
    <3>3. CASE k < at
      <4>1. k \in 1 .. n - 1
        BY <3>3, <2>1
      <4> QED BY <4>1, <3>3, <3>1, <2>3, <2>8
    <3>4. CASE k > at
      <4>1. k - 1 \in 1 .. n - 1 /\ ~(k - 1 < at) /\ (k - 1) + 1 = k
        BY <3>4, <2>1
      <4> QED BY <4>1, <3>1, <2>3, <2>8
    <3> QED BY <3>2, <3>3, <3>4
  <2>10. ASSUME NEW i \in 1 .. Len(t), NEW k \in 1 .. Len(t), t[i] = t[k] PROVE i = k
    <3>1. i \in 1 .. n - 1 /\ k \in 1 .. n - 1
      BY <2>8
    <3>2. PICK a \in 1 .. n : t[i] = s[a] /\ a = IF i < at THEN i ELSE i + 1
      BY <3>1, <2>3
    <3>3. PICK b \in 1 .. n : t[k] = s[b] /\ b = IF k < at THEN k ELSE k + 1
      BY <3>1, <2>3
    <3>4. a = b
      BY <2>10, <3>2, <3>3, <1>1 DEF Listing
    <3> QED BY <3>2, <3>3, <3>4, <3>1
  <2>11. Listing(t, S \ {e})
    BY <2>8, <2>9, <2>10 DEF Listing
  <2> QED BY <2>2, <2>11
<1> QED BY <1>2, <1>3

\* It has as many places as members.
LEMMA ListingCount ==
  ASSUME NEW S, NEW s, Listing(s, S)
  PROVE  Elements(s) = S /\ Len(s) = Cardinality(S)
<1>1. PICK n \in Nat : n = Len(s) /\ s \in Seq(S) /\ DOMAIN s = 1 .. n
  BY DEF Listing
<1>2. Elements(s) = S
  BY <1>1 DEF Listing, Elements
<1>3. ExistsBijection(1 .. n, S)
  <2>1. s \in [1 .. n -> S]
    BY <1>1
  <2>2. \A i, k \in 1 .. n : s[i] = s[k] => i = k
    BY <1>1 DEF Listing
  <2>3. \A e \in S : \E i \in 1 .. n : s[i] = e
    BY <1>1 DEF Listing
  <2>4. s \in Bijection(1 .. n, S)
    BY <2>1, <2>2, <2>3 DEF Bijection, Injection, Surjection, IsInjective
  <2> QED BY <2>4 DEF ExistsBijection
<1>4. Cardinality(S) = n
  BY <1>3, <1>1, FS_CountingElements
<1> QED BY <1>1, <1>2, <1>4

\* Numbers among which are zero and the next of each are all of them.
LEMMA Counting ==
  ASSUME NEW P \in SUBSET Nat, 0 \in P, \A n \in P : n + 1 \in P
  PROVE  P = Nat
<1> SUFFICES ASSUME Nat \ P # {} PROVE FALSE
  OBVIOUS
<1> DEFINE less == {p \in Nat \X Nat : p[1] < p[2]}
<1>1. IsWellFoundedOn(less, Nat)
  BY NatLessThanWellFounded DEF OpToRel
<1>2. PICK n \in Nat \ P : \A l \in Nat \ P : ~(<<l, n>> \in less)
  <2> HIDE DEF less
  <2> QED BY <1>1, WFMin
<1>3. n - 1 \in Nat /\ n - 1 \notin P
  BY <1>2
<1>4. <<n - 1, n>> \in less
  BY <1>3
<1> QED BY <1>2, <1>3, <1>4


\* The order of a finite set of jobs has each once.
LEMMA OrderOnce ==
  ASSUME NEW S, IsFiniteSet(S)
  PROVE  /\ Cardinality(S) \in Nat /\ Order(S) \in [1 .. Cardinality(S) -> S]
         /\ \A i, k \in 1 .. Cardinality(S) : Order(S)[i] = Order(S)[k] => i = k
<1> DEFINE n == Cardinality(S)
<1>1. n \in Nat /\ ExistsBijection(1 .. n, S)
  BY FS_CardinalityType
<1>2. \E f \in [1 .. n -> S] : \A i, k \in 1 .. n : f[i] = f[k] => i = k
  BY <1>1 DEF ExistsBijection, Bijection, Injection, IsInjective
<1> QED BY <1>1, <1>2 DEF Order

\* A sequence of steps, each of which takes a queue of Q to a queue of Q.
Iterates(Q, q, n, F, f) ==
  /\ f \in [0 .. n -> Q] /\ f[0] = q
  /\ \A i \in 1 .. n : f[i] = F[<<i, f[i - 1]>>]

\* There is one of each length.
LEMMA IteratesExist ==
  ASSUME NEW Q, NEW q \in Q, NEW n \in Nat, NEW F \in [(1 .. n) \X Q -> Q]
  PROVE  \E f : Iterates(Q, q, n, F, f)
<1> DEFINE P == {k \in Nat : k <= n => \E f : Iterates(Q, q, k, F, f)}
<1>1. 0 \in P
  <2> DEFINE f == [i \in 0 .. 0 |-> q]
  <2>1. f \in [0 .. 0 -> Q] /\ f[0] = q /\ 1 .. 0 = {}
    OBVIOUS
  <2> HIDE DEF f
  <2>2. Iterates(Q, q, 0, F, f)
    BY <2>1 DEF Iterates
  <2> QED BY <2>2
<1>2. ASSUME NEW k \in P PROVE k + 1 \in P
  <2> SUFFICES ASSUME k + 1 <= n PROVE \E f : Iterates(Q, q, k + 1, F, f)
    OBVIOUS
  <2>1. PICK g : Iterates(Q, q, k, F, g)
    OBVIOUS
  <2>2. g[k] \in Q /\ k + 1 \in 1 .. n
    BY <2>1 DEF Iterates
  <2> DEFINE x == F[<<k + 1, g[k]>>]
  <2>3. x \in Q
    BY <2>2
  <2> HIDE DEF x
  <2> DEFINE f == [i \in 0 .. k + 1 |-> IF i = k + 1 THEN x ELSE g[i]]
  <2>4. \A i \in 0 .. k : f[i] = g[i] /\ g[i] \in Q
    BY <2>1 DEF Iterates
  <2>5. f[k + 1] = x
    OBVIOUS
  <2>6. f \in [0 .. k + 1 -> Q]
    BY <2>1, <2>3 DEF Iterates
  <2> HIDE DEF f
  <2>7. f[0] = q
    BY <2>4, <2>1 DEF Iterates
  <2>8. ASSUME NEW i \in 1 .. k + 1 PROVE f[i] = F[<<i, f[i - 1]>>]
    <3>1. CASE i = k + 1
      <4>1. i - 1 = k /\ k \in 0 .. k
        BY <3>1
      <4> QED BY <3>1, <4>1, <2>4, <2>5 DEF x
    <3>2. CASE i # k + 1
      <4>1. i \in 1 .. k /\ i \in 0 .. k /\ i - 1 \in 0 .. k
        BY <3>2
      <4>2. g[i] = F[<<i, g[i - 1]>>]
        BY <4>1, <2>1 DEF Iterates
      <4> QED BY <4>1, <4>2, <2>4
    <3> QED BY <3>1, <3>2
  <2>9. Iterates(Q, q, k + 1, F, f)
    BY <2>6, <2>7, <2>8 DEF Iterates
  <2> QED BY <2>9
<1>3. P = Nat
  <2>1. P \in SUBSET Nat
    OBVIOUS
  <2> HIDE DEF P
  <2> QED BY <1>1, <1>2, <2>1, Counting
<1>4. n \in P
  <2> HIDE DEF P
  <2> QED BY <1>3
<1> QED BY <1>4

\* What each step keeps holds at the end.
LEMMA LoopReaches ==
  ASSUME NEW n \in Nat, NEW f, NEW G, f[0] \in G[0],
         \A i \in 1 .. n : f[i - 1] \in G[i - 1] => f[i] \in G[i]
  PROVE  f[n] \in G[n]
<1> DEFINE P == {k \in Nat : k <= n => f[k] \in G[k]}
<1>1. 0 \in P
  OBVIOUS
<1>2. ASSUME NEW k \in P PROVE k + 1 \in P
  <2> SUFFICES ASSUME k + 1 <= n PROVE f[k + 1] \in G[k + 1]
    OBVIOUS
  <2>1. k + 1 \in 1 .. n /\ (k + 1) - 1 = k
    OBVIOUS
  <2>2. f[k] \in G[k]
    OBVIOUS
  <2> QED BY <2>1, <2>2
<1>3. P = Nat
  <2>1. P \in SUBSET Nat
    OBVIOUS
  <2> HIDE DEF P
  <2> QED BY <1>1, <1>2, <2>1, Counting
<1> QED BY <1>3

(***************************************************************************)
(* A queue whose groups are sound, and what the functions of the scripts   *)
(* make of it.                                                             *)
(***************************************************************************)

\* The queues there are.
QueueStates ==
  [place : [Members -> Places], group : [Members -> AnyGroup], ready : Seq(Members),
   line : [AnyGroup -> Seq(Members)], held : [Groups -> Nat], turns : Seq(AnyGroup),
   queued : SUBSET AnyGroup, mode : SUBSET Definitions]

At(q, place) == { j \in Members : q.place[j] = place }

AtOf(q, g, place) == { j \in Members : q.place[j] = place /\ q.group[j] = g }

\* Every job that waits has its place, and every group that is queued its turn.
ListedOnce(q) ==
  q \in QueueStates /\ Listing(q.ready, At(q, "ready")) /\ Listing(q.turns, q.queued)

InLines(q) == \A g \in AnyGroup : Listing(q.line[g], AtOf(q, g, "ready"))

HaveTurns(q, d) == \A g \in AnyGroup : q.line[g] # <<>> /\ HasSlot(q, d, g) => g \in q.queued

Counted(q, d) ==
  \A g \in Groups :
    q.held[g] = Cardinality(AtOf(q, g, "active")) /\ (d.cap # 0 => q.held[g] <= d.cap)

\* An ungrouped queue keeps nothing of groups.
Bare(q) == (\A g \in AnyGroup : q.line[g] = <<>>) /\ \A g \in Groups : q.held[g] = 0

SoundUnder(q, d) ==
  /\ ListedOnce(q)
  /\ d.grouped => InLines(q) /\ HaveTurns(q, d) /\ Counted(q, d)
  /\ ~d.grouped => Bare(q)

\* A definition is of one kind.
LEMMA GroupedOrNot == ASSUME NEW d \in Definitions PROVE d.grouped \in BOOLEAN /\ d.cap \in Nat
BY GroupedQueueAssumption

\* What a set has not is not missed.
LEMMA Lacks == \A S, e : e \notin S => S \ {e} = S
OBVIOUS

\* What a job's change of place does to the sets of jobs.
PlacedAt(r, q, j, place) ==
  r.place = [q.place EXCEPT ![j] = place] /\ r.group = q.group /\ r.mode = q.mode

\* A job is where it was put, and no longer where it was.
LEMMA PlacedSets ==
  ASSUME NEW q \in QueueStates, NEW r \in QueueStates, NEW j \in Members, NEW place,
         PlacedAt(r, q, j, place)
  PROVE  /\ \A x : At(r, x) = IF x = place THEN At(q, x) \cup {j} ELSE At(q, x) \ {j}
         /\ \A x, g : AtOf(r, g, x) = IF g # q.group[j] THEN AtOf(q, g, x)
                                      ELSE IF x = place THEN AtOf(q, g, x) \cup {j}
                                      ELSE AtOf(q, g, x) \ {j}
<1>1. q.place \in [Members -> Places]
  BY DEF QueueStates
<1>2. \A k \in Members : r.place[k] = (IF k = j THEN place ELSE q.place[k]) /\ r.group[k] = q.group[k]
  BY <1>1 DEF PlacedAt
<1>3. ASSUME NEW x
      PROVE At(r, x) = IF x = place THEN At(q, x) \cup {j} ELSE At(q, x) \ {j}
  BY <1>2 DEF At
<1>4. ASSUME NEW x, NEW g
      PROVE AtOf(r, g, x) = IF g # q.group[j] THEN AtOf(q, g, x)
                            ELSE IF x = place THEN AtOf(q, g, x) \cup {j}
                            ELSE AtOf(q, g, x) \ {j}
  BY <1>2 DEF AtOf
<1> QED BY <1>3, <1>4

\* All but the turns.
SameJobs(r, q) ==
  /\ r.place = q.place /\ r.group = q.group /\ r.ready = q.ready
  /\ r.line = q.line /\ r.held = q.held /\ r.mode = q.mode

\* rr_push.
LEMMA QueueIs ==
  ASSUME NEW q \in QueueStates, Listing(q.turns, q.queued), NEW g \in AnyGroup
  PROVE  /\ Queue(q, g) \in QueueStates /\ SameJobs(Queue(q, g), q)
         /\ Listing(Queue(q, g).turns, Queue(q, g).queued)
         /\ Queue(q, g).queued = q.queued \cup {g}
<1>1. CASE g \in q.queued
  BY <1>1 DEF Queue, SameJobs
<1>2. CASE g \notin q.queued
  <2>1. Queue(q, g) = [q EXCEPT !.queued = q.queued \cup {g}, !.turns = Append(q.turns, g)]
    BY <1>2 DEF Queue
  <2>2. Append(q.turns, g) \in Seq(AnyGroup) /\ q.queued \cup {g} \in SUBSET AnyGroup
    BY DEF QueueStates
  <2>3. Queue(q, g) \in QueueStates
    BY <2>1, <2>2 DEF QueueStates
  <2>4. SameJobs(Queue(q, g), q) /\ Queue(q, g).turns = Append(q.turns, g)
        /\ Queue(q, g).queued = q.queued \cup {g}
    BY <2>1 DEF QueueStates, SameJobs
  <2> QED BY <2>3, <2>4, <1>2, ListingAppend
<1> QED BY <1>1, <1>2

\* ready_add.
LEMMA ReadyAddIs ==
  ASSUME NEW q \in QueueStates, Listing(q.turns, q.queued), NEW j \in Members, NEW d \in Definitions
  PROVE  LET r == ReadyAdd(q, d, j) IN
         /\ r \in QueueStates /\ PlacedAt(r, q, j, "ready")
         /\ r.ready = Append(q.ready, j) /\ r.held = q.held
         /\ Listing(r.turns, r.queued) /\ q.queued \subseteq r.queued
         /\ d.grouped => /\ r.line = [q.line EXCEPT ![q.group[j]] = Append(@, j)]
                         /\ HasSlot(q, d, q.group[j]) => q.group[j] \in r.queued
         /\ ~d.grouped => r.line = q.line
<1> DEFINE g == q.group[j]
           p == [q EXCEPT !.place[j] = "ready", !.ready = Append(q.ready, j)]
           m == [p EXCEPT !.line[g] = Append(p.line[g], j)]
<1>1. g \in AnyGroup /\ q.line[g] \in Seq(Members) /\ "ready" \in Places
  BY DEF QueueStates, Places
<1>2. p \in QueueStates /\ PlacedAt(p, q, j, "ready") /\ p.ready = Append(q.ready, j)
      /\ p.held = q.held /\ p.line = q.line /\ p.turns = q.turns /\ p.queued = q.queued
  <2>1. Append(q.ready, j) \in Seq(Members) /\ [q.place EXCEPT ![j] = "ready"] \in [Members -> Places]
    BY <1>1 DEF QueueStates
  <2>2. p = [q EXCEPT !.place = [q.place EXCEPT ![j] = "ready"], !.ready = Append(q.ready, j)]
    BY DEF QueueStates
  <2> HIDE DEF p
  <2> QED BY <2>1, <2>2 DEF QueueStates, PlacedAt
<1>3. m \in QueueStates /\ PlacedAt(m, q, j, "ready") /\ m.ready = Append(q.ready, j)
      /\ m.held = q.held /\ m.line = [q.line EXCEPT ![g] = Append(@, j)]
      /\ m.turns = q.turns /\ m.queued = q.queued
  <2>1. Append(q.line[g], j) \in Seq(Members)
    BY <1>1
  <2>2. [q.line EXCEPT ![g] = Append(q.line[g], j)] \in [AnyGroup -> Seq(Members)]
    BY <2>1 DEF QueueStates
  <2> HIDE DEF p, g
  <2>3. m = [p EXCEPT !.line = [q.line EXCEPT ![g] = Append(q.line[g], j)]]
    BY <1>2 DEF QueueStates
  <2> HIDE DEF m
  <2> QED BY <2>2, <2>3, <1>2 DEF QueueStates, PlacedAt
<1>4. ReadyAdd(q, d, j) = IF ~d.grouped THEN p ELSE IF HasSlot(q, d, g) THEN Queue(m, g) ELSE m
  BY DEF ReadyAdd
<1> HIDE DEF p, m, g
<1>5. CASE ~d.grouped
  BY <1>5, <1>4, <1>2
<1>6. CASE d.grouped /\ ~HasSlot(q, d, g)
  BY <1>6, <1>4, <1>3 DEF g
<1>7. CASE d.grouped /\ HasSlot(q, d, g)
  <2>1. ReadyAdd(q, d, j) = Queue(m, g)
    BY <1>7, <1>4
  <2>2. Queue(m, g) \in QueueStates /\ SameJobs(Queue(m, g), m)
        /\ Listing(Queue(m, g).turns, Queue(m, g).queued) /\ Queue(m, g).queued = m.queued \cup {g}
    BY <1>1, <1>3, QueueIs
  <2> HIDE DEF Listing
  <2> QED BY <2>1, <2>2, <1>3, <1>7 DEF SameJobs, PlacedAt, g
<1> QED BY <1>5, <1>6, <1>7

\* A job that neither waits nor runs comes to wait.
LEMMA ReadyAddKeeps ==
  ASSUME NEW d \in Definitions, NEW q, SoundUnder(q, d), NEW j \in Members,
         q.place[j] \notin {"ready", "active"}
  PROVE  SoundUnder(ReadyAdd(q, d, j), d) /\ PlacedAt(ReadyAdd(q, d, j), q, j, "ready")
<1> DEFINE r == ReadyAdd(q, d, j)
           g == q.group[j]
<1>1. q \in QueueStates /\ g \in AnyGroup /\ Listing(q.turns, q.queued) /\ Listing(q.ready, At(q, "ready"))
  BY DEF SoundUnder, ListedOnce, QueueStates
<1>2. /\ r \in QueueStates /\ PlacedAt(r, q, j, "ready")
      /\ r.ready = Append(q.ready, j) /\ r.held = q.held
      /\ Listing(r.turns, r.queued) /\ q.queued \subseteq r.queued
      /\ d.grouped => /\ r.line = [q.line EXCEPT ![g] = Append(@, j)]
                      /\ HasSlot(q, d, g) => g \in r.queued
      /\ ~d.grouped => r.line = q.line
  BY <1>1, ReadyAddIs
<1> HIDE DEF r
<1>3. j \notin At(q, "ready") /\ \A h, x : x \in {"ready", "active"} => j \notin AtOf(q, h, x)
  BY DEF At, AtOf
<1>4. At(r, "ready") = At(q, "ready") \cup {j}
  BY <1>1, <1>2, PlacedSets
<1>5. ListedOnce(r)
  BY <1>1, <1>2, <1>3, <1>4, ListingAppend DEF ListedOnce
<1>6. \A h : AtOf(r, h, "ready") = IF h = g THEN AtOf(q, h, "ready") \cup {j} ELSE AtOf(q, h, "ready")
  BY <1>1, <1>2, PlacedSets
<1>7. ASSUME NEW h PROVE AtOf(r, h, "active") = AtOf(q, h, "active")
  <2>1. AtOf(r, h, "active") = AtOf(q, h, "active") \/ AtOf(r, h, "active") = AtOf(q, h, "active") \ {j}
    BY <1>1, <1>2, PlacedSets
  <2> QED BY <2>1, <1>3, Lacks
<1>8. ASSUME d.grouped PROVE SoundUnder(r, d)
  <2>1. InLines(q) /\ HaveTurns(q, d) /\ Counted(q, d) /\ q.line \in [AnyGroup -> Seq(Members)]
    BY <1>8, <1>1 DEF SoundUnder, QueueStates
  <2>2. \A h \in AnyGroup : r.line[h] = IF h = g THEN Append(q.line[h], j) ELSE q.line[h]
    BY <1>8, <1>2, <2>1
  <2>3. InLines(r)
    <3> SUFFICES ASSUME NEW h \in AnyGroup PROVE Listing(r.line[h], AtOf(r, h, "ready"))
      BY DEF InLines
    <3>1. Listing(q.line[h], AtOf(q, h, "ready"))
      BY <2>1 DEF InLines
    <3> QED BY <3>1, <2>2, <1>3, <1>6, ListingAppend
  <2>4. HaveTurns(r, d)
    BY <2>1, <2>2, <1>2, <1>8 DEF HaveTurns, HasSlot
  <2>5. Counted(r, d)
    BY <2>1, <1>2, <1>7 DEF Counted
  <2> QED BY <1>8, <1>5, <2>3, <2>4, <2>5, GroupedOrNot DEF SoundUnder
<1>9. ASSUME ~d.grouped PROVE SoundUnder(r, d)
  BY <1>9, <1>5, <1>2, GroupedOrNot DEF SoundUnder, Bare
<1> QED BY <1>8, <1>9, <1>2, GroupedOrNot DEF r

\* A job that neither waits nor runs, before and after, is of no account.
LEMMA PlaceKeeps ==
  ASSUME NEW d \in Definitions, NEW q, SoundUnder(q, d), NEW j \in Members,
         q.place[j] \notin {"ready", "active"}, NEW g \in AnyGroup,
         NEW place \in Places \ {"ready", "active"}
  PROVE  SoundUnder([q EXCEPT !.place[j] = place], d) /\ SoundUnder([q EXCEPT !.group[j] = g], d)
<1>1. q \in QueueStates
  BY DEF SoundUnder, ListedOnce
<1> DEFINE r == [q EXCEPT !.place[j] = place]
           s == [q EXCEPT !.group[j] = g]
<1>2. /\ r \in QueueStates /\ PlacedAt(r, q, j, place) /\ r.ready = q.ready /\ r.held = q.held
      /\ r.line = q.line /\ r.turns = q.turns /\ r.queued = q.queued
  <2>1. [q.place EXCEPT ![j] = place] \in [Members -> Places]
    BY <1>1 DEF QueueStates
  <2>2. r = [q EXCEPT !.place = [q.place EXCEPT ![j] = place]]
    BY <1>1 DEF QueueStates
  <2> HIDE DEF r
  <2> QED BY <2>1, <2>2, <1>1 DEF QueueStates, PlacedAt
<1>3. /\ s \in QueueStates /\ s.place = q.place /\ s.group = [q.group EXCEPT ![j] = g]
      /\ s.ready = q.ready /\ s.held = q.held
      /\ s.line = q.line /\ s.turns = q.turns /\ s.queued = q.queued
  <2>1. [q.group EXCEPT ![j] = g] \in [Members -> AnyGroup]
    BY <1>1 DEF QueueStates
  <2>2. s = [q EXCEPT !.group = [q.group EXCEPT ![j] = g]]
    BY <1>1 DEF QueueStates
  <2> HIDE DEF s
  <2> QED BY <2>1, <2>2, <1>1 DEF QueueStates
<1> HIDE DEF r, s
<1>4. At(r, "ready") = At(q, "ready") /\ \A x \in {"ready", "active"} : \A h : AtOf(r, h, x) = AtOf(q, h, x)
  <2>1. j \notin At(q, "ready") /\ \A h, x : x \in {"ready", "active"} => j \notin AtOf(q, h, x)
    BY DEF At, AtOf
  <2>2. At(r, "ready") = At(q, "ready") \ {j}
    BY <1>1, <1>2, PlacedSets
  <2>3. ASSUME NEW x \in {"ready", "active"}, NEW h PROVE AtOf(r, h, x) = AtOf(q, h, x)
    <3>1. AtOf(r, h, x) = AtOf(q, h, x) \/ AtOf(r, h, x) = AtOf(q, h, x) \ {j}
      BY <1>1, <1>2, PlacedSets
    <3> QED BY <3>1, <2>1, Lacks
  <2> QED BY <2>1, <2>2, <2>3, Lacks
<1>5. At(s, "ready") = At(q, "ready") /\ \A x \in {"ready", "active"} : \A h : AtOf(s, h, x) = AtOf(q, h, x)
  <2>1. \A k \in Members \ {j} : s.group[k] = q.group[k]
    BY <1>1, <1>3 DEF QueueStates
  <2> QED BY <1>3, <2>1 DEF At, AtOf
<1>6. SoundUnder(r, d)
  <2>1. ListedOnce(r)
    BY <1>2, <1>4 DEF SoundUnder, ListedOnce
  <2>2. d.grouped => InLines(r) /\ HaveTurns(r, d) /\ Counted(r, d)
    BY <1>2, <1>4 DEF SoundUnder, InLines, HaveTurns, Counted, HasSlot
  <2> QED BY <2>1, <2>2, <1>2 DEF SoundUnder, Bare
<1>7. SoundUnder(s, d)
  <2>1. ListedOnce(s)
    BY <1>3, <1>5 DEF SoundUnder, ListedOnce
  <2>2. d.grouped => InLines(s) /\ HaveTurns(s, d) /\ Counted(s, d)
    BY <1>3, <1>5 DEF SoundUnder, InLines, HaveTurns, Counted, HasSlot
  <2> QED BY <2>1, <2>2, <1>3 DEF SoundUnder, Bare
<1> QED BY <1>6, <1>7 DEF r, s

\* ready_rem, of a job that does not run.
LEMMA ReadyRemKeeps ==
  ASSUME NEW d \in Definitions, NEW q, SoundUnder(q, d), NEW j \in Members,
         q.place[j] # "active", NEW place \in Places \ {"ready", "active"}
  PROVE  SoundUnder([ReadyRem(q, d, j) EXCEPT !.place[j] = place], d)
<1> DEFINE g == q.group[j]
           r == [ReadyRem(q, d, j) EXCEPT !.place[j] = place]
<1>1. q \in QueueStates /\ g \in AnyGroup /\ q.line[g] \in Seq(Members)
  BY DEF SoundUnder, ListedOnce, QueueStates
<1>2. \A s \in Seq(Members) : Without(s, j) \in Seq(Members)
  <2> TAKE s \in Seq(Members)
  <2>1. PICK n \in Nat : n = Len(s) /\ DOMAIN s = 1 .. n
    OBVIOUS
  <2>2. CASE \A i \in DOMAIN s : s[i] # j
    BY <2>2 DEF Without
  <2>3. CASE ~(\A i \in DOMAIN s : s[i] # j)
    <3>1. PICK at \in 1 .. n : at = CHOOSE i \in DOMAIN s : s[i] = j
      BY <2>1, <2>3
    <3>2. Without(s, j) = [i \in 1 .. n - 1 |-> IF i < at THEN s[i] ELSE s[i + 1]]
      BY <2>1, <2>3, <3>1 DEF Without
    <3>3. [i \in 1 .. n - 1 |-> IF i < at THEN s[i] ELSE s[i + 1]] \in [1 .. n - 1 -> Members]
      BY <2>1
    <3>4. n - 1 \in Nat
      BY <3>1
    <3> QED BY <3>2, <3>3, <3>4
  <2> QED BY <2>2, <2>3
<1>3. /\ r \in QueueStates /\ PlacedAt(r, q, j, place) /\ r.ready = Without(q.ready, j)
      /\ r.held = q.held /\ r.turns = q.turns /\ r.queued = q.queued
      /\ d.grouped => r.line = [q.line EXCEPT ![g] = Without(q.line[g], j)]
      /\ ~d.grouped => r.line = q.line
  <2> DEFINE l == [q.line EXCEPT ![g] = Without(q.line[g], j)]
             z == Without(q.ready, j)
             a == [q.place EXCEPT ![j] = place]
  <2>1. l \in [AnyGroup -> Seq(Members)] /\ z \in Seq(Members) /\ a \in [Members -> Places]
    BY <1>1, <1>2 DEF QueueStates
  <2>2. d.grouped => r = [q EXCEPT !.ready = z, !.line = l, !.place = a]
    BY <1>1 DEF QueueStates, ReadyRem
  <2>3. ~d.grouped => r = [q EXCEPT !.ready = z, !.place = a]
    BY <1>1 DEF QueueStates, ReadyRem
  <2> HIDE DEF r, l, z
  <2>4. d.grouped => /\ r \in QueueStates /\ PlacedAt(r, q, j, place) /\ r.ready = z
                     /\ r.held = q.held /\ r.turns = q.turns /\ r.queued = q.queued /\ r.line = l
    BY <1>1, <2>1, <2>2 DEF QueueStates, PlacedAt
  <2>5. ~d.grouped => /\ r \in QueueStates /\ PlacedAt(r, q, j, place) /\ r.ready = z
                      /\ r.held = q.held /\ r.turns = q.turns /\ r.queued = q.queued /\ r.line = q.line
    BY <1>1, <2>1, <2>3 DEF QueueStates, PlacedAt
  <2> QED BY <2>4, <2>5 DEF l, z
<1> HIDE DEF r
<1>4. At(r, "ready") = At(q, "ready") \ {j}
  BY <1>1, <1>3, PlacedSets
<1>5. ListedOnce(r)
  BY <1>3, <1>4, ListingWithout DEF SoundUnder, ListedOnce
<1>6. \A h : AtOf(r, h, "ready") = IF h = g THEN AtOf(q, h, "ready") \ {j} ELSE AtOf(q, h, "ready")
  BY <1>1, <1>3, PlacedSets
<1>7. ASSUME NEW h PROVE AtOf(r, h, "active") = AtOf(q, h, "active")
  <2>1. j \notin AtOf(q, h, "active")
    BY DEF AtOf
  <2>2. AtOf(r, h, "active") = AtOf(q, h, "active") \/ AtOf(r, h, "active") = AtOf(q, h, "active") \ {j}
    BY <1>1, <1>3, PlacedSets
  <2> QED BY <2>1, <2>2, Lacks
<1>8. ASSUME d.grouped PROVE SoundUnder(r, d)
  <2>1. InLines(q) /\ HaveTurns(q, d) /\ Counted(q, d) /\ q.line \in [AnyGroup -> Seq(Members)]
    BY <1>8, <1>1 DEF SoundUnder, QueueStates
  <2>2. \A h \in AnyGroup : r.line[h] = IF h = g THEN Without(q.line[h], j) ELSE q.line[h]
    BY <1>8, <1>3, <2>1
  <2>3. InLines(r)
    <3> SUFFICES ASSUME NEW h \in AnyGroup PROVE Listing(r.line[h], AtOf(r, h, "ready"))
      BY DEF InLines
    <3>1. Listing(q.line[h], AtOf(q, h, "ready"))
      BY <2>1 DEF InLines
    <3> QED BY <3>1, <2>2, <1>6, ListingWithout
  <2>4. HaveTurns(r, d)
    <3> SUFFICES ASSUME NEW h \in AnyGroup, r.line[h] # <<>>, HasSlot(r, d, h) PROVE h \in r.queued
      BY DEF HaveTurns
    <3>1. Listing(q.line[h], AtOf(q, h, "ready")) /\ Listing(r.line[h], AtOf(r, h, "ready"))
      BY <2>1, <2>3 DEF InLines
    <3>2. AtOf(r, h, "ready") # {}
      BY <3>1, ListingNone
    <3>3. q.line[h] # <<>>
      BY <3>1, <3>2, <1>6, ListingNone
    <3> QED BY <3>3, <2>1, <1>3 DEF HaveTurns, HasSlot
  <2>5. Counted(r, d)
    BY <2>1, <1>3, <1>7 DEF Counted
  <2> QED BY <1>8, <1>5, <2>3, <2>4, <2>5, GroupedOrNot DEF SoundUnder
<1>9. ASSUME ~d.grouped PROVE SoundUnder(r, d)
  BY <1>9, <1>5, <1>3, GroupedOrNot DEF SoundUnder, Bare
<1> QED BY <1>8, <1>9, GroupedOrNot DEF r

\* slot_freed, as a job leaves `active'.
LEMMA LeavesIs ==
  ASSUME NEW q \in QueueStates, Listing(q.turns, q.queued), NEW j \in Members,
         NEW d \in Definitions, NEW place \in Places
  PROVE  LET r == Leaves(q, d, j, place)
             g == q.group[j] IN
         /\ r \in QueueStates /\ PlacedAt(r, q, j, place)
         /\ r.ready = q.ready /\ r.line = q.line
         /\ Listing(r.turns, r.queued) /\ q.queued \subseteq r.queued
         /\ d.grouped /\ g # Default => r.held = [q.held EXCEPT ![g] = IF @ > 0 THEN @ - 1 ELSE 0]
         /\ ~d.grouped \/ g = Default => r.held = q.held
         /\ d.grouped /\ q.line[g] # <<>> /\ HasSlot(r, d, g) => g \in r.queued
<1> DEFINE g == q.group[j]
           a == [q EXCEPT !.place[j] = place]
           n == IF q.held[g] > 0 THEN q.held[g] - 1 ELSE 0
           p == IF g # Default THEN [a EXCEPT !.held[g] = n] ELSE a
           r == Leaves(q, d, j, place)
<1>1. g \in AnyGroup /\ (g # Default => g \in Groups /\ q.held[g] \in Nat /\ n \in Nat)
  BY DEF QueueStates, AnyGroup
<1>2. a \in QueueStates /\ PlacedAt(a, q, j, place) /\ a.ready = q.ready /\ a.line = q.line
      /\ a.held = q.held /\ a.turns = q.turns /\ a.queued = q.queued
  <2>1. [q.place EXCEPT ![j] = place] \in [Members -> Places]
    BY DEF QueueStates
  <2>2. a = [q EXCEPT !.place = [q.place EXCEPT ![j] = place]]
    BY DEF QueueStates
  <2> HIDE DEF a
  <2> QED BY <2>1, <2>2 DEF QueueStates, PlacedAt
<1> HIDE DEF n
<1>3. r = IF ~d.grouped THEN a
          ELSE IF p.line[g] = <<>> \/ ~HasSlot(p, d, g) THEN p ELSE Queue(p, g)
  <2>1. a.held[g] = q.held[g]
    BY <1>2
  <2> HIDE DEF a
  <2> QED BY <2>1 DEF Leaves, SlotFreed, a, n
<1>4. /\ p \in QueueStates /\ PlacedAt(p, q, j, place) /\ p.ready = q.ready /\ p.line = q.line
      /\ p.turns = q.turns /\ p.queued = q.queued
      /\ p.held = IF g # Default THEN [q.held EXCEPT ![g] = n] ELSE q.held
  <2> DEFINE h == [q.held EXCEPT ![g] = n]
  <2>1. g # Default => h \in [Groups -> Nat]
    BY <1>1 DEF QueueStates
  <2>2. g # Default => p = [a EXCEPT !.held = h]
    BY <1>2 DEF QueueStates
  <2>3. g = Default => p = a
    OBVIOUS
  <2> HIDE DEF p, a, h
  <2>4. CASE g # Default
    <3>1. p \in QueueStates /\ PlacedAt(p, q, j, place) /\ p.ready = q.ready /\ p.line = q.line
          /\ p.turns = q.turns /\ p.queued = q.queued /\ p.held = h
      BY <2>1, <2>2, <2>4, <1>2 DEF QueueStates, PlacedAt
    <3> QED BY <3>1, <2>4 DEF h
  <2>5. CASE g = Default
    BY <2>3, <2>5, <1>2
  <2> QED BY <2>4, <2>5
<1> HIDE DEF p, a, r, g
<1>5. d.grouped /\ p.line[g] # <<>> /\ HasSlot(p, d, g) =>
        /\ r \in QueueStates /\ SameJobs(r, p) /\ Listing(r.turns, r.queued) /\ r.queued = p.queued \cup {g}
  BY <1>1, <1>3, <1>4, QueueIs, GroupedOrNot
<1>6. CASE ~d.grouped
  BY <1>6, <1>2, <1>3 DEF r, g
<1>7. CASE d.grouped /\ ~(p.line[g] # <<>> /\ HasSlot(p, d, g))
  <2>1. r = p
    BY <1>7, <1>3
  <2>2. ~(q.line[g] # <<>> /\ HasSlot(r, d, g))
    BY <2>1, <1>4, <1>7
  <2> QED BY <2>1, <2>2, <1>4, <1>7 DEF r, g, n
<1>8. CASE d.grouped /\ p.line[g] # <<>> /\ HasSlot(p, d, g)
  <2>1. r \in QueueStates /\ SameJobs(r, p) /\ Listing(r.turns, r.queued) /\ r.queued = p.queued \cup {g}
    BY <1>5, <1>8
  <2>2. PlacedAt(r, q, j, place) /\ r.ready = q.ready /\ r.line = q.line /\ r.held = p.held
        /\ q.queued \subseteq r.queued /\ g \in r.queued
    BY <2>1, <1>4 DEF SameJobs, PlacedAt
  <2> QED BY <2>1, <2>2, <1>4, <1>8 DEF r, g, n
<1> QED BY <1>6, <1>7, <1>8, GroupedOrNot

\* The running jobs of a group can be counted.
LEMMA Finite == \A q, g, x : IsFiniteSet(AtOf(q, g, x))
BY GroupedQueueAssumption, FS_Subset DEF AtOf

\* A job that runs no longer runs, nor waits.
LEMMA LeavesKeeps ==
  ASSUME NEW d \in Definitions, NEW q, SoundUnder(q, d), NEW j \in Members,
         q.place[j] = "active", NEW place \in Places \ {"ready", "active"}
  PROVE  SoundUnder(Leaves(q, d, j, place), d) /\ PlacedAt(Leaves(q, d, j, place), q, j, place)
<1> DEFINE r == Leaves(q, d, j, place)
           g == q.group[j]
<1>1. q \in QueueStates /\ g \in AnyGroup /\ Listing(q.turns, q.queued) /\ Listing(q.ready, At(q, "ready"))
  BY DEF SoundUnder, ListedOnce, QueueStates
<1>2. /\ r \in QueueStates /\ PlacedAt(r, q, j, place)
      /\ r.ready = q.ready /\ r.line = q.line
      /\ Listing(r.turns, r.queued) /\ q.queued \subseteq r.queued
      /\ d.grouped /\ g # Default => r.held = [q.held EXCEPT ![g] = IF @ > 0 THEN @ - 1 ELSE 0]
      /\ ~d.grouped \/ g = Default => r.held = q.held
      /\ d.grouped /\ q.line[g] # <<>> /\ HasSlot(r, d, g) => g \in r.queued
  BY <1>1, LeavesIs
<1> HIDE DEF r
<1>3. j \notin At(q, "ready") /\ \A h : j \notin AtOf(q, h, "ready")
  BY DEF At, AtOf
<1>4. At(r, "ready") = At(q, "ready")
  <2>1. At(r, "ready") = At(q, "ready") \ {j}
    BY <1>1, <1>2, PlacedSets
  <2> QED BY <2>1, <1>3, Lacks
<1>5. ListedOnce(r)
  BY <1>1, <1>2, <1>4 DEF ListedOnce
<1>6. ASSUME NEW h PROVE AtOf(r, h, "ready") = AtOf(q, h, "ready")
  <2>1. AtOf(r, h, "ready") = AtOf(q, h, "ready") \/ AtOf(r, h, "ready") = AtOf(q, h, "ready") \ {j}
    BY <1>1, <1>2, PlacedSets
  <2> QED BY <2>1, <1>3, Lacks
<1>7. \A h : AtOf(r, h, "active") = IF h = g THEN AtOf(q, h, "active") \ {j} ELSE AtOf(q, h, "active")
  BY <1>1, <1>2, PlacedSets
<1>8. ASSUME d.grouped PROVE SoundUnder(r, d)
  <2>1. InLines(q) /\ HaveTurns(q, d) /\ Counted(q, d) /\ q.held \in [Groups -> Nat]
    BY <1>8, <1>1 DEF SoundUnder, QueueStates
  <2>2. InLines(r)
    BY <2>1, <1>2, <1>6 DEF InLines
  <2>3. \A h \in Groups : h # g => r.held[h] = q.held[h]
    BY <1>2, <2>1, <1>8
  <2>4. HaveTurns(r, d)
    <3> SUFFICES ASSUME NEW h \in AnyGroup, r.line[h] # <<>>, HasSlot(r, d, h) PROVE h \in r.queued
      BY DEF HaveTurns
    <3>1. CASE h = g
      BY <3>1, <1>2, <1>8
    <3>2. CASE h # g
      <4>1. HasSlot(q, d, h)
        BY <3>2, <2>3 DEF HasSlot, AnyGroup
      <4> QED BY <4>1, <2>1, <1>2 DEF HaveTurns
    <3> QED BY <3>1, <3>2
  <2>5. Counted(r, d)
    <3> SUFFICES ASSUME NEW h \in Groups
                 PROVE  r.held[h] = Cardinality(AtOf(r, h, "active")) /\ (d.cap # 0 => r.held[h] <= d.cap)
      BY DEF Counted
    <3>1. q.held[h] = Cardinality(AtOf(q, h, "active")) /\ (d.cap # 0 => q.held[h] <= d.cap)
      BY <2>1 DEF Counted
    <3>2. CASE h # g
      BY <3>1, <3>2, <2>3, <1>7
    <3>3. CASE h = g
      <4>1. g # Default /\ j \in AtOf(q, g, "active")
        BY <3>3, GroupedQueueAssumption DEF AtOf
      <4>2. Cardinality(AtOf(q, g, "active") \ {j}) = Cardinality(AtOf(q, g, "active")) - 1
        BY <4>1, Finite, FS_RemoveElement
      <4>3. Cardinality(AtOf(q, g, "active")) # 0
        <5>1. AtOf(q, g, "active") # {}
          BY <4>1
        <5> QED BY <5>1, Finite, FS_EmptySet
      <4>4. r.held[g] = IF q.held[g] > 0 THEN q.held[g] - 1 ELSE 0
        BY <4>1, <1>2, <1>8, <2>1, <3>3
      <4>5. q.held[g] \in Nat /\ d.cap \in Nat
        BY <2>1, <3>3, GroupedOrNot
      <4>6. r.held[g] = q.held[g] - 1 /\ r.held[g] = Cardinality(AtOf(r, g, "active"))
        <5>1. AtOf(r, g, "active") = AtOf(q, g, "active") \ {j}
          BY <1>7
        <5>2. q.held[g] = Cardinality(AtOf(q, g, "active")) /\ q.held[g] # 0
          BY <3>1, <3>3, <4>3
        <5>3. r.held[g] = q.held[g] - 1
          BY <5>2, <4>4, <4>5
        <5> QED BY <5>1, <5>2, <5>3, <4>2
      <4> QED BY <4>5, <4>6, <3>1, <3>3
    <3> QED BY <3>2, <3>3
  <2> QED BY <1>8, <1>5, <2>2, <2>4, <2>5, GroupedOrNot DEF SoundUnder
<1>9. ASSUME ~d.grouped PROVE SoundUnder(r, d)
  BY <1>9, <1>5, <1>2, GroupedOrNot DEF SoundUnder, Bare
<1> QED BY <1>8, <1>9, <1>2, GroupedOrNot DEF r

\* begin, of the first job of a group or of the queue.
StartedAs(r, q, d, j, g) ==
  /\ r \in QueueStates /\ PlacedAt(r, q, j, "active") /\ r.ready = Without(q.ready, j)
  /\ r.line = q.line /\ r.turns = q.turns /\ r.queued = q.queued
  /\ d.grouped /\ g # Default => r.held = [q.held EXCEPT ![g] = @ + 1]
  /\ ~d.grouped \/ g = Default => r.held = q.held

\* It starts, and takes a slot of its group.
LEMMA StartsIs ==
  ASSUME NEW q \in QueueStates, NEW j \in Members, NEW d \in Definitions, NEW g \in AnyGroup,
         Without(q.ready, j) \in Seq(Members)
  PROVE  StartedAs(Starts(q, d, j, g), q, d, j, g)
<1> DEFINE w == Without(q.ready, j)
           a == [q EXCEPT !.place[j] = "active", !.ready = w]
           r == Starts(q, d, j, g)
           h == [q.held EXCEPT ![g] = q.held[g] + 1]
<1>1. /\ a \in QueueStates /\ PlacedAt(a, q, j, "active") /\ a.ready = w
      /\ a.line = q.line /\ a.turns = q.turns /\ a.queued = q.queued /\ a.held = q.held
      /\ a = [q EXCEPT !.place = [q.place EXCEPT ![j] = "active"], !.ready = w]
  <2>1. [q.place EXCEPT ![j] = "active"] \in [Members -> Places] /\ w \in Seq(Members)
    BY DEF QueueStates, Places
  <2>2. a = [q EXCEPT !.place = [q.place EXCEPT ![j] = "active"], !.ready = w]
    BY DEF QueueStates
  <2> HIDE DEF a, w
  <2> QED BY <2>1, <2>2 DEF QueueStates, PlacedAt
<1>2. d.grouped /\ g # Default => r = [a EXCEPT !.held = h] /\ h \in [Groups -> Nat]
  <2>1. d.grouped /\ g # Default => r = [a EXCEPT !.held[g] = @ + 1]
    BY DEF Starts, SlotTaken
  <2>2. g # Default => h \in [Groups -> Nat]
    BY DEF QueueStates, AnyGroup
  <2> HIDE DEF a, r, h
  <2>3. DOMAIN a = DOMAIN q
    BY <1>1 DEF QueueStates
  <2>4. d.grouped /\ g # Default => r = [a EXCEPT !.held = [a.held EXCEPT ![g] = a.held[g] + 1]]
    BY <2>1
  <2> QED BY <2>2, <2>4, <1>1 DEF h
<1>3. ~d.grouped \/ g = Default => r = a
  BY DEF Starts, SlotTaken
<1> HIDE DEF w, a, r, h
<1>4. CASE d.grouped /\ g # Default
  <2>1. /\ r.place = a.place /\ r.group = a.group /\ r.ready = a.ready /\ r.line = a.line
        /\ r.turns = a.turns /\ r.queued = a.queued /\ r.mode = a.mode /\ r.held = h
        /\ r \in QueueStates
    BY <1>1, <1>2, <1>4 DEF QueueStates
  <2> QED BY <2>1, <1>1, <1>4 DEF PlacedAt, h, r, w, StartedAs
<1>5. CASE ~d.grouped \/ g = Default
  BY <1>1, <1>3, <1>5 DEF r, w, StartedAs
<1> QED BY <1>4, <1>5, GroupedOrNot

\* A group at the head of the turns loses its turn, or starts its first job
\* and goes to the tail.
LEMMA TurnKeeps ==
  ASSUME NEW d \in Definitions, d.grouped, NEW q, SoundUnder(q, d), q.turns # <<>>
  PROVE  SoundUnder(Turn(q, d), d) /\ Turn(q, d).mode = q.mode
<1> DEFINE g == Head(q.turns)
           p == [q EXCEPT !.turns = Tail(q.turns), !.queued = q.queued \ {g}]
           j == Head(p.line[g])
           z == [p EXCEPT !.line[g] = Tail(p.line[g])]
           s == Starts(z, d, j, g)
<1>1. q \in QueueStates /\ InLines(q) /\ HaveTurns(q, d) /\ Counted(q, d)
      /\ Listing(q.turns, q.queued) /\ Listing(q.ready, At(q, "ready"))
      /\ q.held \in [Groups -> Nat] /\ q.line \in [AnyGroup -> Seq(Members)] /\ d.cap \in Nat
  BY GroupedOrNot DEF SoundUnder, ListedOnce, QueueStates
<1>2. g \in q.queued /\ g \in AnyGroup /\ Listing(Tail(q.turns), q.queued \ {g})
      /\ Tail(q.turns) \in Seq(AnyGroup)
  <2>1. g \in q.queued /\ Listing(Tail(q.turns), q.queued \ {g})
    BY <1>1, ListingTail
  <2>2. q.queued \in SUBSET AnyGroup
    BY <1>1 DEF QueueStates
  <2>3. Tail(q.turns) \in Seq(AnyGroup)
    BY <1>1 DEF QueueStates
  <2> QED BY <2>1, <2>2, <2>3
<1>3. Turn(q, d) = IF ~HasSlot(p, d, g) \/ p.line[g] = <<>> THEN p
                   ELSE IF HasSlot(s, d, g) /\ s.line[g] # <<>> THEN Queue(s, g) ELSE s
  BY DEF Turn
<1> HIDE DEF g
<1>4. p \in QueueStates /\ p.place = q.place /\ p.group = q.group /\ p.ready = q.ready /\ p.line = q.line
      /\ p.held = q.held /\ p.mode = q.mode /\ p.turns = Tail(q.turns) /\ p.queued = q.queued \ {g}
  <2>1. q.queued \ {g} \in SUBSET AnyGroup
    BY <1>1 DEF QueueStates
  <2> QED BY <1>1, <1>2, <2>1 DEF QueueStates
<1> HIDE DEF p
<1>5. \A x, h : At(p, x) = At(q, x) /\ AtOf(p, h, x) = AtOf(q, h, x)
  BY <1>4 DEF At, AtOf
<1>6. ASSUME ~HasSlot(p, d, g) \/ p.line[g] = <<>> PROVE SoundUnder(p, d) /\ p.mode = q.mode
  <2>1. ListedOnce(p) /\ InLines(p)
    BY <1>1, <1>2, <1>4, <1>5 DEF ListedOnce, InLines
  <2>2. HaveTurns(p, d)
    BY <1>1, <1>4, <1>6 DEF HaveTurns, HasSlot
  <2>3. Counted(p, d)
    BY <1>1, <1>4, <1>5 DEF Counted
  <2> QED BY <2>1, <2>2, <2>3, <1>4, GroupedOrNot DEF SoundUnder
<1>7. ASSUME HasSlot(p, d, g), p.line[g] # <<>>
      PROVE  /\ s \in QueueStates /\ s.ready = Without(q.ready, j) /\ j \in Members
             /\ s.line = [q.line EXCEPT ![g] = Tail(q.line[g])]
             /\ s.turns = p.turns /\ s.queued = p.queued
             /\ g # Default => s.held = [q.held EXCEPT ![g] = @ + 1]
             /\ g = Default => s.held = q.held
             /\ PlacedAt(s, q, j, "active") /\ j \in AtOf(q, g, "ready")
             /\ Listing(Tail(q.line[g]), AtOf(q, g, "ready") \ {j})
             /\ Listing(Without(q.ready, j), At(q, "ready") \ {j})
  <2>1. p.line[g] = q.line[g]
    BY <1>4
  <2>2. j \in AtOf(q, g, "ready") /\ Listing(Tail(q.line[g]), AtOf(q, g, "ready") \ {j})
    <3>1. Listing(q.line[g], AtOf(q, g, "ready"))
      BY <1>1, <1>2 DEF InLines
    <3> QED BY <3>1, <2>1, <1>7, ListingTail
  <2>3. j \in Members /\ Listing(Without(q.ready, j), At(q, "ready") \ {j})
    BY <2>2, <1>1, ListingWithout DEF AtOf
  <2>4. Without(q.ready, j) \in Seq(Members)
    <3>1. PICK t : t = Without(q.ready, j) /\ t \in Seq(At(q, "ready") \ {j})
      BY <2>3 DEF Listing
    <3>2. \A i \in 1 .. Len(t) : t[i] \in Members
      BY <3>1 DEF At
    <3> QED BY <3>1, <3>2
  <2>5. Tail(q.line[g]) \in Seq(Members)
    BY <1>1, <1>2, <1>7, <2>1
  <2> DEFINE l == [q.line EXCEPT ![g] = Tail(q.line[g])]
  <2>6. l \in [AnyGroup -> Seq(Members)]
    BY <1>1, <2>5
  <2>7. z = [p EXCEPT !.line = l]
    BY <1>4, <2>1 DEF QueueStates
  <2> HIDE DEF l, j, z, s
  <2>8. z \in QueueStates /\ z.place = q.place /\ z.group = q.group /\ z.ready = q.ready /\ z.line = l
        /\ z.held = q.held /\ z.mode = q.mode /\ z.turns = p.turns /\ z.queued = p.queued
    BY <1>4, <2>6, <2>7 DEF QueueStates
  <2>9. /\ s \in QueueStates /\ PlacedAt(s, z, j, "active") /\ s.ready = Without(z.ready, j)
        /\ s.line = z.line /\ s.turns = z.turns /\ s.queued = z.queued
        /\ g # Default => s.held = [z.held EXCEPT ![g] = @ + 1]
        /\ g = Default => s.held = z.held
    <3>1. Without(z.ready, j) \in Seq(Members)
      BY <2>4, <2>8
    <3>2. z \in QueueStates /\ j \in Members /\ d \in Definitions /\ g \in AnyGroup
      BY <2>3, <2>8, <1>2
    <3>3. StartedAs(s, z, d, j, g)
      BY <3>1, <3>2, StartsIs DEF s
    <3> QED BY <3>3 DEF StartedAs
  <2>10. PlacedAt(s, q, j, "active")
    BY <2>8, <2>9 DEF PlacedAt
  <2> QED BY <2>2, <2>3, <2>8, <2>9, <2>10 DEF l
<1> HIDE DEF j, z, s
<1>8. ASSUME HasSlot(p, d, g), p.line[g] # <<>>
      PROVE  /\ ListedOnce(s) /\ InLines(s) /\ Counted(s, d) /\ s.mode = q.mode
             /\ \A h \in AnyGroup \ {g} : s.line[h] # <<>> /\ HasSlot(s, d, h) => h \in s.queued
  <2>1. s.held \in [Groups -> Nat] /\ \A h \in Groups \ {g} : s.held[h] = q.held[h]
    <3>1. s.held \in [Groups -> Nat]
      BY <1>7, <1>8 DEF QueueStates
    <3>2. ASSUME NEW h \in Groups \ {g} PROVE s.held[h] = q.held[h]
      <4>1. s.held = q.held \/ s.held = [q.held EXCEPT ![g] = @ + 1]
        BY <1>7, <1>8
      <4> QED BY <4>1, <1>1
    <3> QED BY <3>1, <3>2
  <2>2. \A h \in AnyGroup : s.line[h] = IF h = g THEN Tail(q.line[g]) ELSE q.line[h]
    BY <1>7, <1>8, <1>1
  <2>3. At(s, "ready") = At(q, "ready") \ {j}
    BY <1>7, <1>8, <1>1, PlacedSets
  <2>4. q.group[j] = g /\ q.place[j] = "ready"
    BY <1>7, <1>8 DEF AtOf
  <2>5. ASSUME NEW h
        PROVE  /\ AtOf(s, h, "ready") = IF h = g THEN AtOf(q, h, "ready") \ {j} ELSE AtOf(q, h, "ready")
               /\ AtOf(s, h, "active") = IF h = g THEN AtOf(q, h, "active") \cup {j} ELSE AtOf(q, h, "active")
    BY <1>7, <1>8, <1>1, <2>4, PlacedSets
  <2>6. ListedOnce(s)
    BY <1>7, <1>8, <1>2, <1>4, <2>3 DEF ListedOnce
  <2>7. InLines(s)
    BY <2>2, <2>5, <1>1, <1>7, <1>8 DEF InLines
  <2>8. \A h \in AnyGroup \ {g} : s.line[h] # <<>> /\ HasSlot(s, d, h) => h \in s.queued
    <3> SUFFICES ASSUME NEW h \in AnyGroup \ {g}, s.line[h] # <<>>, HasSlot(s, d, h) PROVE h \in s.queued
      OBVIOUS
    <3>1. HasSlot(q, d, h)
      BY <2>1 DEF HasSlot, AnyGroup
    <3>2. h \in q.queued
      BY <3>1, <2>2, <1>1 DEF HaveTurns
    <3> QED BY <3>2, <1>4, <1>7, <1>8
  <2>9. Counted(s, d)
    <3> SUFFICES ASSUME NEW h \in Groups
                 PROVE  s.held[h] = Cardinality(AtOf(s, h, "active")) /\ (d.cap # 0 => s.held[h] <= d.cap)
      BY DEF Counted
    <3>1. q.held[h] = Cardinality(AtOf(q, h, "active")) /\ (d.cap # 0 => q.held[h] <= d.cap)
      BY <1>1 DEF Counted
    <3>2. CASE h # g
      BY <3>1, <3>2, <2>1, <2>5
    <3>3. CASE h = g
      <4>1. g # Default /\ j \notin AtOf(q, g, "active") /\ q.held[g] \in Nat
        BY <3>3, <2>4, <1>1, GroupedQueueAssumption DEF AtOf
      <4>2. Cardinality(AtOf(q, g, "active") \cup {j}) = Cardinality(AtOf(q, g, "active")) + 1
        BY <4>1, Finite, FS_AddElement
      <4>3. s.held[g] = q.held[g] + 1
        BY <4>1, <3>3, <1>7, <1>8, <1>1
      <4>4. AtOf(s, g, "active") = AtOf(q, g, "active") \cup {j}
        BY <2>5
      <4>5. s.held[g] = Cardinality(AtOf(s, g, "active"))
        BY <4>2, <4>3, <4>4, <3>1, <3>3
      <4>6. d.cap = 0 \/ q.held[g] < d.cap
        BY <1>8, <1>4, <4>1 DEF HasSlot
      <4>7. d.cap # 0 => s.held[g] <= d.cap
        BY <4>1, <4>3, <4>6, <1>1
      <4> QED BY <4>5, <4>7, <3>3
    <3> QED BY <3>2, <3>3
  <2>10. s.mode = q.mode
    BY <1>7, <1>8 DEF PlacedAt
  <2> QED BY <2>6, <2>7, <2>8, <2>9, <2>10
<1>9. ASSUME HasSlot(p, d, g), p.line[g] # <<>>, HasSlot(s, d, g) /\ s.line[g] # <<>>
      PROVE  SoundUnder(Queue(s, g), d) /\ Queue(s, g).mode = q.mode
  <2> DEFINE r == Queue(s, g)
  <2>1. ListedOnce(s) /\ InLines(s) /\ Counted(s, d) /\ s.mode = q.mode
        /\ \A h \in AnyGroup \ {g} : s.line[h] # <<>> /\ HasSlot(s, d, h) => h \in s.queued
    BY <1>8, <1>9
  <2>2. r \in QueueStates /\ SameJobs(r, s) /\ Listing(r.turns, r.queued) /\ r.queued = s.queued \cup {g}
    BY <2>1, <1>2, QueueIs DEF ListedOnce
  <2> HIDE DEF r
  <2>3. \A x, h : At(r, x) = At(s, x) /\ AtOf(r, h, x) = AtOf(s, h, x)
    BY <2>2 DEF SameJobs, At, AtOf
  <2>4. ListedOnce(r) /\ InLines(r) /\ Counted(r, d) /\ r.mode = q.mode
    BY <2>1, <2>2, <2>3 DEF ListedOnce, InLines, Counted, SameJobs
  <2>5. HaveTurns(r, d)
    BY <2>1, <2>2 DEF HaveTurns, SameJobs, HasSlot
  <2> QED BY <2>4, <2>5, GroupedOrNot DEF SoundUnder, r
<1>10. ASSUME HasSlot(p, d, g), p.line[g] # <<>>, ~(HasSlot(s, d, g) /\ s.line[g] # <<>>)
       PROVE  SoundUnder(s, d) /\ s.mode = q.mode
  <2>1. ListedOnce(s) /\ InLines(s) /\ Counted(s, d) /\ s.mode = q.mode
        /\ \A h \in AnyGroup \ {g} : s.line[h] # <<>> /\ HasSlot(s, d, h) => h \in s.queued
    BY <1>8, <1>10
  <2>2. HaveTurns(s, d)
    BY <2>1, <1>10 DEF HaveTurns
  <2> QED BY <2>1, <2>2, GroupedOrNot DEF SoundUnder
<1> QED BY <1>3, <1>6, <1>9, <1>10

\* The first job of an ungrouped queue starts.
LEMMA FirstKeeps ==
  ASSUME NEW d \in Definitions, ~d.grouped, NEW q, SoundUnder(q, d), q.ready # <<>>
  PROVE  LET r == Starts(q, d, Head(q.ready), Default) IN SoundUnder(r, d) /\ r.mode = q.mode
<1> DEFINE j == Head(q.ready)
           r == Starts(q, d, j, Default)
<1>1. q \in QueueStates /\ Bare(q) /\ Listing(q.turns, q.queued) /\ Listing(q.ready, At(q, "ready"))
  BY DEF SoundUnder, ListedOnce
<1>2. j \in At(q, "ready") /\ j \in Members /\ Listing(Without(q.ready, j), At(q, "ready") \ {j})
  <2>1. j \in At(q, "ready") /\ Listing(Without(q.ready, j), At(q, "ready") \ {j})
    BY <1>1, ListingTail, ListingWithout
  <2> QED BY <2>1 DEF At
<1>3. Without(q.ready, j) \in Seq(Members)
  <2>1. PICK t : t = Without(q.ready, j) /\ t \in Seq(At(q, "ready") \ {j})
    BY <1>2 DEF Listing
  <2>2. \A i \in 1 .. Len(t) : t[i] \in Members
    BY <2>1 DEF At
  <2> QED BY <2>1, <2>2
<1> HIDE DEF j, r
<1>4. /\ r \in QueueStates /\ PlacedAt(r, q, j, "active") /\ r.ready = Without(q.ready, j)
      /\ r.line = q.line /\ r.turns = q.turns /\ r.queued = q.queued /\ r.held = q.held
  <2>1. Default \in AnyGroup
    BY DEF AnyGroup
  <2>2. StartedAs(r, q, d, j, Default)
    BY <2>1, <1>1, <1>2, <1>3, StartsIs DEF r
  <2> QED BY <2>2 DEF StartedAs
<1>5. At(r, "ready") = At(q, "ready") \ {j}
  BY <1>1, <1>2, <1>4, PlacedSets
<1>6. ListedOnce(r) /\ Bare(r) /\ r.mode = q.mode
  BY <1>1, <1>2, <1>4, <1>5 DEF ListedOnce, Bare, PlacedAt
<1>7. SoundUnder(r, d)
  BY <1>6, GroupedOrNot DEF SoundUnder
<1> QED BY <1>6, <1>7 DEF r, j

(***************************************************************************)
(* The claim: its loops keep what each round keeps.                        *)
(***************************************************************************)

\* The sound queues of a mode.
SoundOf(q, d) == { p \in QueueStates : SoundUnder(p, d) /\ p.mode = q.mode }

\* A round of pop_groups, and of the pops of an ungrouped queue.
GroupsRound(q, d, n, p) ==
  IF p.turns = <<>> \/ Running(p) = Running(q) + n THEN p ELSE Turn(p, d)

ReadyRound(d, p) == IF p.ready = <<>> THEN p ELSE Starts(p, d, Head(p.ready), Default)

GroupsLoop(q, d, n, f) ==
  f = [i \in 0 .. 2 * n + 10 |-> IF i = 0 THEN q ELSE GroupsRound(q, d, n, f[i - 1])]

ReadyLoop(q, d, n, f) == f = [i \in 0 .. n |-> IF i = 0 THEN q ELSE ReadyRound(d, f[i - 1])]

\* pop_groups.
LEMMA PopGroupsKeeps ==
  ASSUME NEW d \in Definitions, d.grouped, NEW q, SoundUnder(q, d), NEW n \in Nat
  PROVE  PopGroups(q, d, n) \in SoundOf(q, d)
<1> DEFINE Q == SoundOf(q, d)
<1>1. PICK m \in Nat : m = 2 * n + 10
  OBVIOUS
<1>2. q \in Q
  BY DEF SoundOf, SoundUnder, ListedOnce
<1>3. ASSUME NEW p \in Q PROVE GroupsRound(q, d, n, p) \in Q
  <2>1. SoundUnder(p, d) /\ p.mode = q.mode
    BY DEF SoundOf
  <2>2. p.turns # <<>> => SoundUnder(Turn(p, d), d) /\ Turn(p, d).mode = p.mode
    BY <2>1, TurnKeeps
  <2>3. p.turns # <<>> => Turn(p, d) \in Q
    BY <2>1, <2>2 DEF SoundOf, SoundUnder, ListedOnce
  <2> QED BY <2>3 DEF GroupsRound
<1> DEFINE F == [x \in (1 .. m) \X Q |-> GroupsRound(q, d, n, x[2])]
<1>4. \A i \in 1 .. m, p \in Q : F[<<i, p>>] = GroupsRound(q, d, n, p)
  OBVIOUS
<1>5. F \in [(1 .. m) \X Q -> Q]
  BY <1>3
<1> HIDE DEF F, Q
<1>6. PICK g : Iterates(Q, q, m, F, g)
  BY <1>1, <1>2, <1>5, IteratesExist
<1>7. GroupsLoop(q, d, n, g)
  <2>1. g \in [0 .. m -> Q] /\ g[0] = q
    BY <1>6 DEF Iterates
  <2>2. ASSUME NEW i \in 0 .. m PROVE g[i] = IF i = 0 THEN q ELSE GroupsRound(q, d, n, g[i - 1])
    <3>1. CASE i = 0
      BY <3>1, <2>1
    <3>2. CASE i # 0
      <4>1. i \in 1 .. m /\ i - 1 \in 0 .. m /\ g[i - 1] \in Q
        BY <3>2, <2>1, <1>1
      <4>2. g[i] = F[<<i, g[i - 1]>>]
        BY <4>1, <1>6 DEF Iterates
      <4> QED BY <4>1, <4>2, <3>2, <1>4
    <3> QED BY <3>1, <3>2
  <2>3. g = [i \in 0 .. m |-> IF i = 0 THEN q ELSE GroupsRound(q, d, n, g[i - 1])]
    BY <2>1, <2>2
  <2> QED BY <2>3, <1>1 DEF GroupsLoop
<1>8. PICK f : GroupsLoop(q, d, n, f) /\ PopGroups(q, d, n) = f[m]
  <2> DEFINE f == CHOOSE f : GroupsLoop(q, d, n, f)
  <2>1. GroupsLoop(q, d, n, f)
    BY <1>7
  <2>2. PopGroups(q, d, n) = f[2 * n + 10]
    BY DEF PopGroups, GroupsLoop, GroupsRound
  <2> QED BY <2>1, <2>2, <1>1
<1>9. \A i \in 0 .. m : f[i] = IF i = 0 THEN q ELSE GroupsRound(q, d, n, f[i - 1])
  BY <1>8, <1>1 DEF GroupsLoop
<1> DEFINE G == [i \in 0 .. m |-> Q]
<1>10. f[0] \in G[0]
  BY <1>9, <1>2, <1>1
<1>11. ASSUME NEW i \in 1 .. m, f[i - 1] \in G[i - 1] PROVE f[i] \in G[i]
  <2>1. i \in 0 .. m /\ i - 1 \in 0 .. m /\ i # 0
    BY <1>1
  <2>2. f[i - 1] \in Q
    BY <2>1, <1>11
  <2> QED BY <2>1, <2>2, <1>3, <1>9
<1>12. f[m] \in G[m]
  <2> HIDE DEF G
  <2> QED BY <1>1, <1>10, <1>11, LoopReaches
<1> QED BY <1>12, <1>8, <1>1 DEF Q

\* The pops of an ungrouped queue.
LEMMA PopReadyKeeps ==
  ASSUME NEW d \in Definitions, ~d.grouped, NEW q, SoundUnder(q, d), NEW n \in Nat
  PROVE  PopReady(q, d, n) \in SoundOf(q, d)
<1> DEFINE Q == SoundOf(q, d)
<1>2. q \in Q
  BY DEF SoundOf, SoundUnder, ListedOnce
<1>3. ASSUME NEW p \in Q PROVE ReadyRound(d, p) \in Q
  <2> DEFINE r == Starts(p, d, Head(p.ready), Default)
  <2>1. SoundUnder(p, d) /\ p.mode = q.mode
    BY DEF SoundOf
  <2>2. p.ready # <<>> => SoundUnder(r, d) /\ r.mode = p.mode
    BY <2>1, FirstKeeps
  <2>3. p.ready # <<>> => r \in Q
    BY <2>1, <2>2 DEF SoundOf, SoundUnder, ListedOnce
  <2> QED BY <2>3 DEF ReadyRound
<1> DEFINE F == [x \in (1 .. n) \X Q |-> ReadyRound(d, x[2])]
<1>4. \A i \in 1 .. n, p \in Q : F[<<i, p>>] = ReadyRound(d, p)
  OBVIOUS
<1>5. F \in [(1 .. n) \X Q -> Q]
  BY <1>3
<1> HIDE DEF F, Q
<1>6. PICK g : Iterates(Q, q, n, F, g)
  BY <1>2, <1>5, IteratesExist
<1>7. ReadyLoop(q, d, n, g)
  <2>1. g \in [0 .. n -> Q] /\ g[0] = q
    BY <1>6 DEF Iterates
  <2>2. ASSUME NEW i \in 0 .. n PROVE g[i] = IF i = 0 THEN q ELSE ReadyRound(d, g[i - 1])
    <3>1. CASE i = 0
      BY <3>1, <2>1
    <3>2. CASE i # 0
      <4>1. i \in 1 .. n /\ i - 1 \in 0 .. n /\ g[i - 1] \in Q
        BY <3>2, <2>1
      <4>2. g[i] = F[<<i, g[i - 1]>>]
        BY <4>1, <1>6 DEF Iterates
      <4> QED BY <4>1, <4>2, <3>2, <1>4
    <3> QED BY <3>1, <3>2
  <2>3. g = [i \in 0 .. n |-> IF i = 0 THEN q ELSE ReadyRound(d, g[i - 1])]
    BY <2>1, <2>2
  <2> QED BY <2>3 DEF ReadyLoop
<1>8. PICK f : ReadyLoop(q, d, n, f) /\ PopReady(q, d, n) = f[n]
  <2> DEFINE f == CHOOSE f : ReadyLoop(q, d, n, f)
  <2>1. ReadyLoop(q, d, n, f)
    BY <1>7
  <2>2. PopReady(q, d, n) = f[n]
    BY DEF PopReady, ReadyLoop, ReadyRound
  <2> QED BY <2>1, <2>2
<1>9. \A i \in 0 .. n : f[i] = IF i = 0 THEN q ELSE ReadyRound(d, f[i - 1])
  BY <1>8 DEF ReadyLoop
<1> DEFINE G == [i \in 0 .. n |-> Q]
<1>10. f[0] \in G[0]
  BY <1>9, <1>2
<1>11. ASSUME NEW i \in 1 .. n, f[i - 1] \in G[i - 1] PROVE f[i] \in G[i]
  <2>1. i \in 0 .. n /\ i - 1 \in 0 .. n /\ i # 0
    OBVIOUS
  <2>2. f[i - 1] \in Q
    BY <2>1, <1>11
  <2> QED BY <2>1, <2>2, <1>3, <1>9
<1>12. f[n] \in G[n]
  <2> HIDE DEF G
  <2> QED BY <1>10, <1>11, LoopReaches
<1> QED BY <1>12, <1>8 DEF Q

\* The queues with their turns, sound or not.
Turned == { p \in QueueStates : Listing(p.turns, p.queued) }

\* A job whose lease lapsed waits again, or failed.
LEMMA LapsedKeeps ==
  ASSUME NEW d \in Definitions, NEW p \in Turned, NEW j \in Members, NEW back
  PROVE  /\ Lapsed(p, d, j, back) \in Turned
         /\ SoundUnder(p, d) /\ p.place[j] = "active" =>
              /\ SoundUnder(Lapsed(p, d, j, back), d) /\ Lapsed(p, d, j, back).mode = p.mode
              /\ \A k \in Members \ {j} : Lapsed(p, d, j, back).place[k] = p.place[k]
<1>1. p \in QueueStates /\ Listing(p.turns, p.queued) /\ "none" \in Places /\ "failed" \in Places
      /\ p.place \in [Members -> Places]
  BY DEF Turned, QueueStates, Places
<1>2. CASE j \in back
  <2> DEFINE l == Leaves(p, d, j, "none")
             r == ReadyAdd(l, d, j)
  <2>1. l \in QueueStates /\ Listing(l.turns, l.queued) /\ PlacedAt(l, p, j, "none")
    BY <1>1, LeavesIs
  <2>2. l.place[j] = "none" /\ l.place \in [Members -> Places]
    BY <2>1, <1>1 DEF PlacedAt
  <2>3. SoundUnder(p, d) /\ p.place[j] = "active" => SoundUnder(l, d)
    <3>1. "none" \in Places \ {"ready", "active"}
      BY <1>1
    <3> QED BY <3>1, LeavesKeeps
  <2> HIDE DEF l
  <2>4. r \in QueueStates /\ Listing(r.turns, r.queued) /\ PlacedAt(r, l, j, "ready")
    BY <2>1, ReadyAddIs
  <2>5. SoundUnder(l, d) => SoundUnder(r, d)
    BY <2>2, ReadyAddKeeps
  <2> HIDE DEF r
  <2>6. r.mode = p.mode /\ \A k \in Members \ {j} : r.place[k] = p.place[k]
    BY <2>1, <2>2, <2>4, <1>1 DEF PlacedAt
  <2>7. Lapsed(p, d, j, back) = r
    BY <1>2 DEF Lapsed, r, l
  <2> QED BY <2>3, <2>4, <2>5, <2>6, <2>7 DEF Turned
<1>3. CASE j \notin back
  <2> DEFINE l == Leaves(p, d, j, "failed")
  <2>1. l \in QueueStates /\ Listing(l.turns, l.queued) /\ PlacedAt(l, p, j, "failed")
    BY <1>1, LeavesIs
  <2>2. SoundUnder(p, d) /\ p.place[j] = "active" => SoundUnder(l, d)
    <3>1. "failed" \in Places \ {"ready", "active"}
      BY <1>1
    <3> QED BY <3>1, LeavesKeeps
  <2>3. Lapsed(p, d, j, back) = l
    BY <1>3 DEF Lapsed
  <2> HIDE DEF l
  <2>4. l.mode = p.mode /\ \A k \in Members \ {j} : l.place[k] = p.place[k]
    BY <2>1, <1>1 DEF PlacedAt
  <2> QED BY <2>1, <2>2, <2>3, <2>4 DEF Turned
<1> QED BY <1>2, <1>3

\* After the first i of an order of jobs the others are where they were.
Untouched(q, d, n, order, i) ==
  { p \in SoundOf(q, d) :
      /\ \A k \in 1 .. n : k > i => p.place[order[k]] = q.place[order[k]]
      /\ \A j \in Members : (\A k \in 1 .. n : order[k] # j) => p.place[j] = q.place[j] }

ReclaimLoop(q, d, back, order, n, f) ==
  f = [i \in 0 .. n |-> IF i = 0 THEN q ELSE Lapsed(f[i - 1], d, order[i], back)]

\* reclaim.
LEMMA ReclaimKeeps ==
  ASSUME NEW d \in Definitions, NEW q, SoundUnder(q, d),
         NEW back \in SUBSET At(q, "active"), NEW dead \in SUBSET At(q, "active")
  PROVE  /\ Reclaim(q, d, back, dead) \in SoundOf(q, d)
         /\ \A j \in Members \ (back \cup dead) : Reclaim(q, d, back, dead).place[j] = q.place[j]
<1> DEFINE S == back \cup dead
           order == Order(S)
           n == Cardinality(S)
<1>1. S \subseteq At(q, "active") /\ IsFiniteSet(S)
  <2>1. S \subseteq At(q, "active")
    OBVIOUS
  <2>2. IsFiniteSet(At(q, "active"))
    BY GroupedQueueAssumption, FS_Subset DEF At
  <2> HIDE DEF S
  <2> QED BY <2>1, <2>2, FS_Subset
<1>2. n \in Nat /\ order \in [1 .. n -> S] /\ \A i, k \in 1 .. n : order[i] = order[k] => i = k
  <2> HIDE DEF S
  <2> QED BY <1>1, OrderOnce
<1> HIDE DEF S, order, n
<1>3. q \in Turned /\ q \in SoundOf(q, d)
  BY DEF Turned, SoundOf, SoundUnder, ListedOnce
<1>4. \A i \in 1 .. n : order[i] \in Members /\ q.place[order[i]] = "active"
  BY <1>1, <1>2 DEF At
<1> DEFINE F == [x \in (1 .. n) \X Turned |-> Lapsed(x[2], d, order[x[1]], back)]
<1>5. \A i \in 1 .. n, p \in Turned : F[<<i, p>>] = Lapsed(p, d, order[i], back)
  OBVIOUS
<1>6. F \in [(1 .. n) \X Turned -> Turned]
  BY <1>4, LapsedKeeps
<1> HIDE DEF F
<1>7. PICK g : Iterates(Turned, q, n, F, g)
  BY <1>2, <1>3, <1>6, IteratesExist
<1>8. ReclaimLoop(q, d, back, order, n, g)
  <2>1. g \in [0 .. n -> Turned] /\ g[0] = q
    BY <1>7 DEF Iterates
  <2>2. ASSUME NEW i \in 0 .. n PROVE g[i] = IF i = 0 THEN q ELSE Lapsed(g[i - 1], d, order[i], back)
    <3>1. CASE i = 0
      BY <3>1, <2>1
    <3>2. CASE i # 0
      <4>1. i \in 1 .. n /\ i - 1 \in 0 .. n /\ g[i - 1] \in Turned
        BY <3>2, <2>1, <1>2
      <4>2. g[i] = F[<<i, g[i - 1]>>]
        BY <4>1, <1>7 DEF Iterates
      <4> QED BY <4>1, <4>2, <3>2, <1>5
    <3> QED BY <3>1, <3>2
  <2>3. g = [i \in 0 .. n |-> IF i = 0 THEN q ELSE Lapsed(g[i - 1], d, order[i], back)]
    BY <2>1, <2>2
  <2> QED BY <2>3 DEF ReclaimLoop
<1>9. PICK f : ReclaimLoop(q, d, back, order, n, f) /\ Reclaim(q, d, back, dead) = f[n]
  <2> DEFINE f == CHOOSE f : ReclaimLoop(q, d, back, order, n, f)
  <2>1. ReclaimLoop(q, d, back, order, n, f)
    BY <1>8
  <2>2. Reclaim(q, d, back, dead) = f[n]
    BY DEF Reclaim, ReclaimLoop, order, n, S
  <2> QED BY <2>1, <2>2
<1>10. \A i \in 0 .. n : f[i] = IF i = 0 THEN q ELSE Lapsed(f[i - 1], d, order[i], back)
  BY <1>9 DEF ReclaimLoop
<1> DEFINE G == [i \in 0 .. n |-> Untouched(q, d, n, order, i)]
<1>11. f[0] \in G[0]
  <2>1. f[0] = q /\ 0 \in 0 .. n
    BY <1>10, <1>2
  <2> QED BY <2>1, <1>3 DEF Untouched
<1>12. ASSUME NEW i \in 1 .. n, f[i - 1] \in G[i - 1] PROVE f[i] \in G[i]
  <2> DEFINE p == f[i - 1]
             j == order[i]
  <2>1. i \in 0 .. n /\ i - 1 \in 0 .. n /\ i # 0 /\ i > i - 1
    BY <1>2
  <2>2. p \in Untouched(q, d, n, order, i - 1) /\ f[i] = Lapsed(p, d, j, back)
    BY <2>1, <1>12, <1>10
  <2> HIDE DEF p
  <2>3. SoundUnder(p, d) /\ p.mode = q.mode /\ p.place[j] = "active" /\ p \in Turned /\ j \in Members
    BY <2>1, <2>2, <1>4 DEF Untouched, SoundOf, SoundUnder, ListedOnce, Turned
  <2>4. SoundUnder(f[i], d) /\ f[i].mode = q.mode /\ \A k \in Members \ {j} : f[i].place[k] = p.place[k]
    BY <2>2, <2>3, LapsedKeeps
  <2>5. f[i] \in SoundOf(q, d)
    BY <2>4 DEF SoundOf, SoundUnder, ListedOnce
  <2>6. ASSUME NEW k \in 1 .. n, k > i PROVE f[i].place[order[k]] = q.place[order[k]]
    <3>1. order[k] # j /\ order[k] \in Members /\ k > i - 1
      BY <2>6, <1>2, <1>4
    <3> QED BY <3>1, <2>2, <2>4 DEF Untouched
  <2>7. ASSUME NEW m \in Members, \A k \in 1 .. n : order[k] # m PROVE f[i].place[m] = q.place[m]
    BY <2>2, <2>4, <2>7 DEF Untouched
  <2> QED BY <2>1, <2>5, <2>6, <2>7 DEF Untouched
<1>13. f[n] \in Untouched(q, d, n, order, n)
  <2> HIDE DEF G
  <2>1. f[n] \in G[n]
    BY <1>2, <1>11, <1>12, LoopReaches
  <2> QED BY <2>1, <1>2 DEF G
<1>14. ASSUME NEW j \in Members \ S PROVE \A k \in 1 .. n : order[k] # j
  BY <1>2
<1> QED BY <1>9, <1>13, <1>14 DEF Untouched, S

PromoteLoop(q, d, order, n, f) ==
  f = [i \in 0 .. n |-> IF i = 0 THEN q ELSE ReadyAdd(f[i - 1], d, order[i])]

\* promote.
LEMMA PromoteKeeps ==
  ASSUME NEW d \in Definitions, NEW q, SoundUnder(q, d), NEW due \in SUBSET At(q, "delayed")
  PROVE  Promote(q, d, due) \in SoundOf(q, d)
<1> DEFINE order == Order(due)
           n == Cardinality(due)
<1>1. IsFiniteSet(due)
  <2>1. IsFiniteSet(At(q, "delayed"))
    BY GroupedQueueAssumption, FS_Subset DEF At
  <2> QED BY <2>1, FS_Subset
<1>2. n \in Nat /\ order \in [1 .. n -> due] /\ \A i, k \in 1 .. n : order[i] = order[k] => i = k
  BY <1>1, OrderOnce
<1> HIDE DEF order, n
<1>3. q \in Turned /\ q \in SoundOf(q, d)
  BY DEF Turned, SoundOf, SoundUnder, ListedOnce
<1>4. \A i \in 1 .. n : order[i] \in Members /\ q.place[order[i]] = "delayed"
  BY <1>2 DEF At
<1> DEFINE F == [x \in (1 .. n) \X Turned |-> ReadyAdd(x[2], d, order[x[1]])]
<1>5. \A i \in 1 .. n, p \in Turned : F[<<i, p>>] = ReadyAdd(p, d, order[i])
  OBVIOUS
<1>6. F \in [(1 .. n) \X Turned -> Turned]
  <2>1. ASSUME NEW p \in Turned, NEW j \in Members PROVE ReadyAdd(p, d, j) \in Turned
    BY ReadyAddIs DEF Turned
  <2> QED BY <1>4, <2>1
<1> HIDE DEF F
<1>7. PICK g : Iterates(Turned, q, n, F, g)
  BY <1>2, <1>3, <1>6, IteratesExist
<1>8. PromoteLoop(q, d, order, n, g)
  <2>1. g \in [0 .. n -> Turned] /\ g[0] = q
    BY <1>7 DEF Iterates
  <2>2. ASSUME NEW i \in 0 .. n PROVE g[i] = IF i = 0 THEN q ELSE ReadyAdd(g[i - 1], d, order[i])
    <3>1. CASE i = 0
      BY <3>1, <2>1
    <3>2. CASE i # 0
      <4>1. i \in 1 .. n /\ i - 1 \in 0 .. n /\ g[i - 1] \in Turned
        BY <3>2, <2>1, <1>2
      <4>2. g[i] = F[<<i, g[i - 1]>>]
        BY <4>1, <1>7 DEF Iterates
      <4> QED BY <4>1, <4>2, <3>2, <1>5
    <3> QED BY <3>1, <3>2
  <2>3. g = [i \in 0 .. n |-> IF i = 0 THEN q ELSE ReadyAdd(g[i - 1], d, order[i])]
    BY <2>1, <2>2
  <2> QED BY <2>3 DEF PromoteLoop
<1>9. PICK f : PromoteLoop(q, d, order, n, f) /\ Promote(q, d, due) = f[n]
  <2> DEFINE f == CHOOSE f : PromoteLoop(q, d, order, n, f)
  <2>1. PromoteLoop(q, d, order, n, f)
    BY <1>8
  <2>2. Promote(q, d, due) = f[n]
    BY DEF Promote, PromoteLoop, order, n
  <2> QED BY <2>1, <2>2
<1>10. \A i \in 0 .. n : f[i] = IF i = 0 THEN q ELSE ReadyAdd(f[i - 1], d, order[i])
  BY <1>9 DEF PromoteLoop
<1> DEFINE G == [i \in 0 .. n |-> Untouched(q, d, n, order, i)]
<1>11. f[0] \in G[0]
  <2>1. f[0] = q /\ 0 \in 0 .. n
    BY <1>10, <1>2
  <2> QED BY <2>1, <1>3 DEF Untouched
<1>12. ASSUME NEW i \in 1 .. n, f[i - 1] \in G[i - 1] PROVE f[i] \in G[i]
  <2> DEFINE p == f[i - 1]
             j == order[i]
  <2>1. i \in 0 .. n /\ i - 1 \in 0 .. n /\ i # 0 /\ i > i - 1
    BY <1>2
  <2>2. p \in Untouched(q, d, n, order, i - 1) /\ f[i] = ReadyAdd(p, d, j)
    BY <2>1, <1>12, <1>10
  <2> HIDE DEF p
  <2>3. SoundUnder(p, d) /\ p.mode = q.mode /\ p.place[j] = "delayed" /\ j \in Members
        /\ p.place \in [Members -> Places]
    BY <2>1, <2>2, <1>4 DEF Untouched, SoundOf, QueueStates
  <2>4. SoundUnder(f[i], d) /\ PlacedAt(f[i], p, j, "ready")
    BY <2>2, <2>3, ReadyAddKeeps
  <2>5. f[i] \in SoundOf(q, d) /\ \A k \in Members \ {j} : f[i].place[k] = p.place[k]
    BY <2>3, <2>4 DEF SoundOf, SoundUnder, ListedOnce, PlacedAt
  <2>6. ASSUME NEW k \in 1 .. n, k > i PROVE f[i].place[order[k]] = q.place[order[k]]
    <3>1. order[k] # j /\ order[k] \in Members /\ k > i - 1
      BY <2>6, <1>2, <1>4
    <3> QED BY <3>1, <2>2, <2>5 DEF Untouched
  <2>7. ASSUME NEW m \in Members, \A k \in 1 .. n : order[k] # m PROVE f[i].place[m] = q.place[m]
    BY <2>2, <2>5, <2>7 DEF Untouched
  <2> QED BY <2>1, <2>5, <2>6, <2>7 DEF Untouched
<1>13. f[n] \in Untouched(q, d, n, order, n)
  <2> HIDE DEF G
  <2>1. f[n] \in G[n]
    BY <1>2, <1>11, <1>12, LoopReaches
  <2> QED BY <2>1, <1>2 DEF G
<1> QED BY <1>9, <1>13 DEF Untouched

\* A claim keeps a queue sound, whatever lapsed, fell due or is admitted.
LEMMA ClaimsKeep ==
  ASSUME NEW d \in Definitions, NEW q, SoundUnder(q, d), NEW most \in Nat, NEW p \in Claims(q, d, most)
  PROVE  SoundUnder(p, d) /\ p.mode = q.mode
<1>1. PICK back \in SUBSET At(q, "active"), dead \in SUBSET At(q, "active"),
           due \in SUBSET At(q, "delayed"), n \in Nat : p = ClaimFrom(q, d, back, dead, due, n)
  <2>1. PICK back \in SUBSET At(q, "active"), dead \in {{}} \cup { {j} : j \in At(q, "active") },
             due \in SUBSET At(q, "delayed"), n \in (IF paused THEN {0} ELSE 0 .. most) :
               p = ClaimFrom(q, d, back, dead, due, n)
    BY DEF Claims, At
  <2>2. dead \in SUBSET At(q, "active") /\ n \in Nat
    OBVIOUS
  <2> QED BY <2>1, <2>2
<1> DEFINE r == Reclaim(q, d, back, dead)
           s == Promote(r, d, due)
<1>2. r \in SoundOf(q, d) /\ \A j \in Members \ (back \cup dead) : r.place[j] = q.place[j]
  BY ReclaimKeeps
<1>3. due \in SUBSET At(r, "delayed")
  BY <1>2 DEF At
<1>4. SoundUnder(r, d) /\ r.mode = q.mode
  BY <1>2 DEF SoundOf
<1>5. p = IF d.grouped THEN PopGroups(s, d, n) ELSE PopReady(s, d, n)
  BY <1>1 DEF ClaimFrom
<1> HIDE DEF r
<1>6. SoundUnder(s, d) /\ s.mode = q.mode
  <2>1. s \in SoundOf(r, d)
    BY <1>3, <1>4, PromoteKeeps
  <2> QED BY <2>1, <1>4 DEF SoundOf
<1> HIDE DEF s
<1>7. p \in SoundOf(s, d)
  BY <1>5, <1>6, PopGroupsKeeps, PopReadyKeeps, GroupedOrNot
<1> QED BY <1>6, <1>7 DEF SoundOf

(***************************************************************************)
(* The queue under its mode.                                               *)
(***************************************************************************)

\* Nothing waits or runs: the queue is sound for whatever mode comes next.
Idle(q) ==
  /\ ListedOnce(q) /\ Bare(q)
  /\ \A j \in Members : q.place[j] \notin {"ready", "active"}

GroupsInv ==
  /\ queue \in QueueStates
  /\ queue.mode = Unset => Idle(queue)
  /\ queue.mode = Unset \/ \E d \in Definitions : queue.mode = {d}
  /\ \A d \in queue.mode : SoundUnder(queue, d)

\* What keeps nothing is sound under every definition.
LEMMA IdleIsSound ==
  ASSUME NEW q, NEW d \in Definitions, Idle(q)
  PROVE  SoundUnder(q, d)
<1>1. ListedOnce(q) /\ Bare(q)
  BY DEF Idle
<1>2. \A g : AtOf(q, g, "ready") = {} /\ AtOf(q, g, "active") = {}
  BY DEF Idle, AtOf
<1>3. InLines(q) /\ HaveTurns(q, d)
  BY <1>1, <1>2, ListingEmpty DEF Bare, InLines, HaveTurns
<1>4. Cardinality({}) = 0 /\ d.cap \in Nat
  BY FS_EmptySet, GroupedOrNot
<1>5. Counted(q, d)
  <2>1. ASSUME NEW g \in Groups PROVE q.held[g] = 0 /\ Cardinality(AtOf(q, g, "active")) = 0
    BY <1>1, <1>2, <1>4 DEF Bare
  <2>2. 0 <= d.cap
    BY <1>4
  <2> QED BY <2>1, <2>2 DEF Counted
<1> QED BY <1>1, <1>3, <1>5, GroupedOrNot DEF SoundUnder

\* A sound queue where nothing waits or runs keeps nothing of its groups.
LEMMA SoundIsIdle ==
  ASSUME NEW q, NEW d \in Definitions, SoundUnder(q, d),
         \A j \in Members : q.place[j] \notin {"ready", "active"}
  PROVE  Idle(q)
<1>1. ListedOnce(q)
  BY DEF SoundUnder
<1>2. CASE d.grouped
  <2>1. InLines(q) /\ Counted(q, d)
    BY <1>2 DEF SoundUnder
  <2>2. \A g : AtOf(q, g, "ready") = {} /\ AtOf(q, g, "active") = {}
    BY DEF AtOf
  <2>3. \A g \in AnyGroup : q.line[g] = <<>>
    BY <2>1, <2>2, ListingNone DEF InLines
  <2>4. Cardinality({}) = 0
    BY FS_EmptySet
  <2>5. \A g \in Groups : q.held[g] = 0
    BY <2>1, <2>2, <2>4 DEF Counted
  <2> QED BY <1>1, <2>3, <2>5 DEF Idle, Bare
<1>3. CASE ~d.grouped
  BY <1>1, <1>3 DEF SoundUnder, Idle
<1> QED BY <1>2, <1>3, GroupedOrNot

\* What a process whose mode agrees finds is sound.
LEMMA AgreedIsSound ==
  ASSUME GroupsInv, NEW d \in Definitions, Agrees(d)
  PROVE  SoundUnder(queue, d)
<1>1. CASE queue.mode = Unset
  BY <1>1, IdleIsSound DEF GroupsInv
<1>2. CASE queue.mode # Unset
  BY <1>2 DEF GroupsInv, Agrees, Unset
<1> QED BY <1>1, <1>2

\* What it leaves is sound, and in its mode.
LEMMA WritesKeeps ==
  ASSUME GroupsInv, NEW d \in Definitions, NEW q, SoundUnder(q, d), q.mode = queue.mode, Writes(d, q)
  PROVE  GroupsInv'
<1>1. q \in QueueStates
  BY DEF SoundUnder, ListedOnce
<1> DEFINE m == IF q.mode = Unset THEN {d} ELSE q.mode
<1>2. m = {d}
  BY DEF Writes, Agrees, Unset, GroupsInv
<1>3. queue' = [q EXCEPT !.mode = {d}]
  BY <1>1, <1>2 DEF Writes, QueueStates
<1> HIDE DEF m
<1> DEFINE r == queue'
<1>4. /\ r \in QueueStates /\ r.place = q.place /\ r.group = q.group /\ r.ready = q.ready
      /\ r.line = q.line /\ r.held = q.held /\ r.turns = q.turns /\ r.queued = q.queued /\ r.mode = {d}
  BY <1>1, <1>3 DEF QueueStates
<1> HIDE DEF r
<1>5. SoundUnder(r, d)
  <2>1. \A x, g : At(r, x) = At(q, x) /\ AtOf(r, g, x) = AtOf(q, g, x)
    BY <1>4 DEF At, AtOf
  <2>2. ListedOnce(r)
    BY <1>4, <2>1 DEF SoundUnder, ListedOnce
  <2>3. d.grouped => InLines(r) /\ HaveTurns(r, d) /\ Counted(r, d)
    BY <1>4, <2>1 DEF SoundUnder, InLines, HaveTurns, Counted, HasSlot
  <2> QED BY <1>4, <2>2, <2>3 DEF SoundUnder, Bare
<1>6. r \in QueueStates /\ r.mode # Unset /\ \E e \in Definitions : r.mode = {e}
  BY <1>4 DEF Unset
<1>7. \A e \in r.mode : SoundUnder(r, e)
  BY <1>4, <1>5
<1> QED BY <1>6, <1>7 DEF GroupsInv, r

\* Each script keeps it.
LEMMA ScriptsKeep ==
  ASSUME GroupsInv, NEW d \in Definitions, NEW j \in Members,
         Add(d, j) \/ Debounce(d, j) \/ Settle(d, j) \/ Release(d, j)
           \/ Cancel(d, j) \/ Retry(d, j) \/ RemoveJob(d, j)
  PROVE  GroupsInv'
<1>1. Agrees(d)
  BY DEF Add, Debounce, Settle, Release, Cancel, Retry, RemoveJob, Writes
<1>2. SoundUnder(queue, d) /\ queue \in QueueStates /\ queue.place \in [Members -> Places]
      /\ Listing(queue.turns, queue.queued)
  BY <1>1, AgreedIsSound DEF GroupsInv, QueueStates, SoundUnder, ListedOnce
<1>3. {"none", "delayed", "failed"} \subseteq Places \ {"ready", "active"}
  BY DEF Places
<1>4. ASSUME Add(d, j) PROVE GroupsInv'
  <2> DEFINE g == IF d.grouped THEN Belongs[j] ELSE Default
             q == [queue EXCEPT !.group[j] = g]
  <2>1. g \in AnyGroup
    BY GroupedQueueAssumption DEF AnyGroup
  <2>2. /\ queue.place[j] = "none"
        /\ Writes(d, ReadyAdd(q, d, j)) \/ Writes(d, [q EXCEPT !.place[j] = "delayed"])
    BY <1>4 DEF Add
  <2>3. q.place = queue.place /\ q.mode = queue.mode
    BY <1>2 DEF QueueStates
  <2> HIDE DEF g
  <2>4. SoundUnder(q, d)
    BY <1>2, <1>3, <2>1, <2>2, PlaceKeeps
  <2> HIDE DEF q
  <2>5. SoundUnder(ReadyAdd(q, d, j), d) /\ ReadyAdd(q, d, j).mode = queue.mode
    BY <2>2, <2>3, <2>4, ReadyAddKeeps DEF PlacedAt
  <2>6. SoundUnder([q EXCEPT !.place[j] = "delayed"], d)
    <3>1. q.place[j] \notin {"ready", "active"} /\ Default \in AnyGroup
      BY <2>2, <2>3 DEF AnyGroup
    <3> QED BY <3>1, <2>4, <1>3, PlaceKeeps
  <2>7. [q EXCEPT !.place[j] = "delayed"].mode = queue.mode
    BY <2>3, <2>4 DEF SoundUnder, ListedOnce, QueueStates
  <2> QED BY <2>2, <2>5, <2>6, <2>7, WritesKeeps
<1>5. \A place \in {"none", "delayed"} :
        queue.place[j] # "active" =>
          /\ SoundUnder([ReadyRem(queue, d, j) EXCEPT !.place[j] = place], d)
          /\ [ReadyRem(queue, d, j) EXCEPT !.place[j] = place].mode = queue.mode
  <2> TAKE place \in {"none", "delayed"}
  <2> SUFFICES ASSUME queue.place[j] # "active"
               PROVE  /\ SoundUnder([ReadyRem(queue, d, j) EXCEPT !.place[j] = place], d)
                      /\ [ReadyRem(queue, d, j) EXCEPT !.place[j] = place].mode = queue.mode
    OBVIOUS
  <2>1. SoundUnder([ReadyRem(queue, d, j) EXCEPT !.place[j] = place], d)
    BY <1>2, <1>3, ReadyRemKeeps
  <2>2. [ReadyRem(queue, d, j) EXCEPT !.place[j] = place].mode = queue.mode
    BY <1>2 DEF ReadyRem, QueueStates
  <2> QED BY <2>1, <2>2
<1>6. ASSUME Debounce(d, j) PROVE GroupsInv'
  BY <1>2, <1>5, <1>6, WritesKeeps DEF Debounce
<1>7. \A place \in {"none", "failed", "delayed"} :
        queue.place[j] = "active" =>
          /\ SoundUnder(Leaves(queue, d, j, place), d)
          /\ PlacedAt(Leaves(queue, d, j, place), queue, j, place)
  BY <1>2, <1>3, LeavesKeeps
<1>8. ASSUME Settle(d, j) PROVE GroupsInv'
  <2>1. PICK place \in {"none", "failed", "delayed"} :
          \/ Writes(d, Leaves(queue, d, j, place))
          \/ \E p \in Claims(Leaves(queue, d, j, place), d, 1) : Writes(d, p)
    BY <1>8 DEF Settle
  <2> DEFINE q == Leaves(queue, d, j, place)
  <2>2. SoundUnder(q, d) /\ q.mode = queue.mode
    BY <1>7, <1>8 DEF Settle, PlacedAt
  <2> HIDE DEF q
  <2>3. \A p \in Claims(q, d, 1) : SoundUnder(p, d) /\ p.mode = queue.mode
    BY <2>2, ClaimsKeep
  <2> QED BY <2>1, <2>2, <2>3, WritesKeeps DEF q
<1>9. ASSUME Release(d, j) PROVE GroupsInv'
  <2> DEFINE q == Leaves(queue, d, j, "none")
  <2>1. queue.place[j] = "active" /\ Writes(d, ReadyAdd(q, d, j))
    BY <1>9 DEF Release
  <2>2. SoundUnder(q, d) /\ q.mode = queue.mode /\ q.place[j] = "none"
    BY <1>2, <1>7, <2>1 DEF PlacedAt
  <2> HIDE DEF q
  <2>3. SoundUnder(ReadyAdd(q, d, j), d) /\ PlacedAt(ReadyAdd(q, d, j), q, j, "ready")
    BY <2>2, ReadyAddKeeps
  <2>4. ReadyAdd(q, d, j).mode = queue.mode
    BY <2>2, <2>3 DEF PlacedAt
  <2> QED BY <2>1, <2>3, <2>4, WritesKeeps
<1>10. ASSUME Cancel(d, j) PROVE GroupsInv'
  <2>1. CASE queue.place[j] = "active"
    <3>1. Writes(d, Leaves(queue, d, j, "none"))
      BY <2>1, <1>10 DEF Cancel
    <3>2. SoundUnder(Leaves(queue, d, j, "none"), d) /\ Leaves(queue, d, j, "none").mode = queue.mode
      BY <2>1, <1>7 DEF PlacedAt
    <3> QED BY <3>1, <3>2, WritesKeeps
  <2>2. CASE queue.place[j] = "ready"
    <3>1. Writes(d, [ReadyRem(queue, d, j) EXCEPT !.place[j] = "none"])
      BY <2>2, <1>10 DEF Cancel
    <3> QED BY <3>1, <2>2, <1>5, WritesKeeps
  <2>3. CASE queue.place[j] = "delayed"
    <3>1. Writes(d, [queue EXCEPT !.place[j] = "none"])
      BY <2>3, <1>10 DEF Cancel
    <3>2. SoundUnder([queue EXCEPT !.place[j] = "none"], d)
      <4>1. Default \in AnyGroup
        BY DEF AnyGroup
      <4> QED BY <4>1, <2>3, <1>2, <1>3, PlaceKeeps
    <3>3. [queue EXCEPT !.place[j] = "none"].mode = queue.mode
      BY <1>2 DEF QueueStates
    <3> QED BY <3>1, <3>2, <3>3, WritesKeeps
  <2> QED BY <2>1, <2>2, <2>3, <1>10 DEF Cancel
<1>11. ASSUME Retry(d, j) PROVE GroupsInv'
  <2>1. queue.place[j] = "failed" /\ Writes(d, ReadyAdd(queue, d, j))
    BY <1>11 DEF Retry
  <2>2. SoundUnder(ReadyAdd(queue, d, j), d) /\ ReadyAdd(queue, d, j).mode = queue.mode
    BY <1>2, <2>1, ReadyAddKeeps DEF PlacedAt
  <2> QED BY <2>1, <2>2, WritesKeeps
<1>12. ASSUME RemoveJob(d, j) PROVE GroupsInv'
  BY <1>2, <1>5, <1>12, WritesKeeps DEF RemoveJob
<1> QED BY <1>4, <1>6, <1>8, <1>9, <1>10, <1>11, <1>12

\* Whatever the processes, of one mode or of two, do to a queue keeps it.
LEMMA GroupsInductive == GroupsSpec => []GroupsInv
<1>1. GroupsInit => GroupsInv
  <2> SUFFICES ASSUME GroupsInit PROVE GroupsInv
    OBVIOUS
  <2> DEFINE q == queue
  <2>1. q = [place |-> [j \in Members |-> "none"], group |-> [j \in Members |-> Default],
             ready |-> <<>>, line |-> [g \in AnyGroup |-> <<>>],
             held |-> [g \in Groups |-> 0], turns |-> <<>>, queued |-> {}, mode |-> Unset]
    BY DEF GroupsInit
  <2> HIDE DEF q
  <2>2. q \in QueueStates
    <3>1. Default \in AnyGroup /\ "none" \in Places
      BY DEF AnyGroup, Places
    <3> QED BY <3>1, <2>1 DEF QueueStates, Unset
  <2>3. At(q, "ready") = {} /\ q.ready = <<>> /\ q.turns = <<>> /\ q.queued = {} /\ q.mode = Unset
    BY <2>1 DEF At
  <2>4. ListedOnce(q)
    BY <2>2, <2>3, ListingEmpty DEF ListedOnce
  <2>5. Bare(q) /\ \A j \in Members : q.place[j] \notin {"ready", "active"}
    BY <2>1 DEF Bare
  <2>6. Idle(q)
    BY <2>4, <2>5 DEF Idle
  <2> QED BY <2>2, <2>3, <2>6 DEF GroupsInv, Unset, q
<1>2. GroupsInv /\ [GroupsNext]_groupVars => GroupsInv'
  <2> SUFFICES ASSUME GroupsInv, [GroupsNext]_groupVars PROVE GroupsInv'
    OBVIOUS
  <2>1. ASSUME NEW d \in Definitions, Claim(d) PROVE GroupsInv'
    <3>1. PICK p \in Claims(queue, d, MaxClaim) : Agrees(d) /\ Writes(d, p)
      BY <2>1 DEF Claim
    <3>2. SoundUnder(queue, d) /\ MaxClaim \in Nat
      BY <3>1, AgreedIsSound, GroupedQueueAssumption
    <3>3. SoundUnder(p, d) /\ p.mode = queue.mode
      BY <3>2, ClaimsKeep
    <3> QED BY <3>1, <3>3, WritesKeeps
  <2>2. ASSUME NEW d \in Definitions, NEW j \in Members,
               Add(d, j) \/ Debounce(d, j) \/ Settle(d, j) \/ Release(d, j)
                 \/ Cancel(d, j) \/ Retry(d, j) \/ RemoveJob(d, j)
        PROVE  GroupsInv'
    BY <2>2, ScriptsKeep
  <2>3. ASSUME Pause \/ Resume \/ UNCHANGED groupVars PROVE GroupsInv'
    <3>1. queue' = queue
      BY <2>3 DEF Pause, Resume, groupVars
    <3> QED BY <3>1 DEF GroupsInv
  <2>4. ASSUME ResetMode PROVE GroupsInv'
    <3>1. PICK d \in Definitions : queue.mode = {d} /\ SoundUnder(queue, d)
      BY <2>4 DEF ResetMode, GroupsInv
    <3>2. \A j \in Members : queue.place[j] \notin {"ready", "active"}
      BY <2>4 DEF ResetMode
    <3>3. Idle(queue)
      BY <3>1, <3>2, SoundIsIdle
    <3> DEFINE r == queue'
    <3>4. r = [queue EXCEPT !.mode = Unset]
      BY <2>4 DEF ResetMode
    <3> HIDE DEF r
    <3>5. /\ r \in QueueStates /\ r.place = queue.place /\ r.ready = queue.ready /\ r.mode = Unset
          /\ r.line = queue.line /\ r.held = queue.held /\ r.turns = queue.turns /\ r.queued = queue.queued
      BY <3>4 DEF GroupsInv, QueueStates, Unset
    <3>6. Idle(r)
      BY <3>3, <3>5 DEF Idle, ListedOnce, Bare, At
    <3> QED BY <3>5, <3>6 DEF GroupsInv, Unset, r
  <2> QED BY <2>1, <2>2, <2>3, <2>4 DEF GroupsNext
<1> QED BY <1>1, <1>2, PTL DEF GroupsSpec

\* The invariants groups.ts states, and the cap they are for, in every queue of
\* any number of jobs, groups and processes: a job that waits does so once in
\* `ready' and once in the line of its group, the counter of a group is the
\* number of its jobs that run and never above the cap, and a group with a job
\* and a slot has one turn.
THEOREM GroupsSoundHolds == GroupsSpec => []GroupsSound
<1>1. GroupsInv => GroupsSound
  <2> SUFFICES ASSUME GroupsInv, NEW d \in queue.mode, d.grouped
               PROVE /\ Elements(queue.ready) = In("ready") /\ Len(queue.ready) = Cardinality(In("ready"))
                     /\ \A g \in AnyGroup :
                          /\ Elements(queue.line[g]) = InGroup(g, "ready")
                          /\ Len(queue.line[g]) = Cardinality(InGroup(g, "ready"))
                          /\ queue.line[g] # <<>> /\ HasSlot(queue, d, g) => g \in queue.queued
                     /\ \A g \in Groups :
                          /\ queue.held[g] = Cardinality(InGroup(g, "active"))
                          /\ d.cap # 0 => queue.held[g] <= d.cap
                     /\ Elements(queue.turns) = queue.queued
                     /\ Len(queue.turns) = Cardinality(queue.queued)
    BY DEF GroupsSound
  <2>1. d \in Definitions /\ SoundUnder(queue, d)
    BY DEF GroupsInv, QueueStates
  <2>2. \A x, g : At(queue, x) = In(x) /\ AtOf(queue, g, x) = InGroup(g, x)
    BY DEF At, AtOf, In, InGroup
  <2>3. ListedOnce(queue) /\ InLines(queue) /\ HaveTurns(queue, d) /\ Counted(queue, d)
    BY <2>1 DEF SoundUnder
  <2>4. /\ Elements(queue.ready) = In("ready") /\ Len(queue.ready) = Cardinality(In("ready"))
        /\ Elements(queue.turns) = queue.queued /\ Len(queue.turns) = Cardinality(queue.queued)
    BY <2>2, <2>3, ListingCount DEF ListedOnce
  <2>5. ASSUME NEW g \in AnyGroup
        PROVE  /\ Elements(queue.line[g]) = InGroup(g, "ready")
               /\ Len(queue.line[g]) = Cardinality(InGroup(g, "ready"))
               /\ queue.line[g] # <<>> /\ HasSlot(queue, d, g) => g \in queue.queued
    BY <2>2, <2>3, ListingCount DEF InLines, HaveTurns
  <2>6. ASSUME NEW g \in Groups
        PROVE  /\ queue.held[g] = Cardinality(InGroup(g, "active"))
               /\ d.cap # 0 => queue.held[g] <= d.cap
    BY <2>2, <2>3 DEF Counted
  <2> QED BY <2>4, <2>5, <2>6
<1> QED BY <1>1, GroupsInductive, PTL

(***************************************************************************)
(* The waits: what is owed to a call is on its way to it, in front of      *)
(* every answer that would settle the call without it.                     *)
(***************************************************************************)

\* What a connection receives: an event, the answer of a PING, of a SUBSCRIBE
\* or of an UNSUBSCRIBE.
EventOf(q) == <<"event", q>>
PingOf(by) == <<"ping", by>>
AnswerTo(c, q) == <<c, q>>
AnswersOf(q) == {AnswerTo("subscribe", q), AnswerTo("unsubscribe", q)}
Incoming ==
  {EventOf(q) : q \in Channels} \cup {PingOf(by) : by \in Waits \cup {Life}}
    \cup UNION {AnswersOf(q) : q \in Channels}

\* What is in a sequence; of what set it holds one at most; and what it holds
\* before anything of a set.
Within(s, m) == \E i \in DOMAIN s : s[i] = m
OnlyOnce(s, S) == \A i, j \in DOMAIN s : s[i] \in S /\ s[j] \in S => i = j
Ahead(s, m, S) == \E i \in DOMAIN s : s[i] = m /\ \A j \in 1 .. i : s[j] \notin S

\* The commands of a channel under way.
Subscribing == {<<"subscribe">>, <<"unsubscribe", "subscribe">>}
TurnsOf == {<<>>, <<"unsubscribe">>} \cup Subscribing

ChannelStates == [who : SUBSET Waits, turns : TurnsOf, ran : BOOLEAN]
SubscriberStates ==
  [conn : {"none", "opening", "open", "closed"}, closing : BOOLEAN,
   heard : SUBSET Channels, cut : SUBSET Channels, pings : SUBSET (Waits \cup {Life}),
   in : Seq(Incoming), of : [Channels -> ChannelStates]]

\* A channel of a connection: a SUBSCRIBE is the last command of one with
\* listeners; what ran is the first, and its answer comes once; a channel whose
\* SUBSCRIBE ran is heard, until the server drops the connection.
ChannelSound(s, q) ==
  /\ \A w \in s.of[q].who : ChannelOf[w] = q
  /\ s.of[q].turns \in Subscribing => s.of[q].who # {}
  /\ s.of[q].turns = <<"unsubscribe">> => s.of[q].who = {}
  /\ s.of[q].ran => s.of[q].turns # <<>>
  /\ \A c \in {"subscribe", "unsubscribe"} :
       Within(s.in, AnswerTo(c, q)) => s.of[q].ran /\ c = Head(s.of[q].turns)
  /\ OnlyOnce(s.in, AnswersOf(q))
  /\ s.of[q].turns = <<"subscribe">> /\ s.of[q].ran => q \in s.heard
  /\ s.of[q].turns = <<>> /\ s.of[q].who # {} => q \in s.heard \cup s.cut

SubscriberSound(s) ==
  /\ s \in SubscriberStates
  /\ s.conn = "none" => s = NewState
  /\ s.closing => \A q \in Channels : s.of[q].who = {}
  /\ \A q \in Channels : ChannelSound(s, q)

CallStates ==
  [at : {"new", "listen", "read", "flush", "wait", "over"},
   answer : {"none", "told", "not found", "closed"},
   read : {NoRead, "there", "kept", "gone"}, absent : BOOLEAN, owed : BOOLEAN]

\* A call whose job is at `place': it flushes for a job that is gone.
CallSound(c, place) ==
  /\ c.at = "new" => ~c.owed
  /\ c.at # "over" => c.answer = "none"
  /\ c.answer \in {"not found", "closed"} => ~c.owed
  /\ (c.read = "gone" /\ c.read # NoRead) \/ c.at = "flush" => place = "gone"

\* A PING of a call, or of the close, is under way.
Pinged(s, by) == by \in s.pings \/ Within(s.in, PingOf(by))

\* A call and a connection: who listens has begun, and once it reads the channel
\* is ready; a PING is of a call that flushes, on the connection it listens to.
PlaceSound(w, c, s) ==
  /\ w \in s.of[ChannelOf[w]].who => c.at # "new"
  /\ w \in s.of[ChannelOf[w]].who /\ c.at \in {"read", "flush", "wait"}
       => s.of[ChannelOf[w]].turns = <<>>
  /\ Pinged(s, w) => c.at \in {"flush", "over"}
  /\ Pinged(s, w) /\ c.at = "flush" => w \in s.of[ChannelOf[w]].who

\* The outcome a pending call is owed comes before the answer of its PING, and
\* of the PING of the close.
Owed(c) == c.at \notin {"new", "over"} /\ c.owed

Comes(w, s) == Ahead(s.in, EventOf(ChannelOf[w]), {PingOf(w), PingOf(Life)})

OwedSound(w) ==
  Owed(wait[w]) =>
    /\ w \notin Workers /\ life \in {"open", "closing", "flushing"}
    /\ \E h \in Subscribers : /\ w \in subscriber[h].of[ChannelOf[w]].who
                              /\ Comes(w, subscriber[h])

\* The connection a listen joins is the one with listeners.
SharedSound ==
  \A h \in Subscribers :
    /\ shared = h => subscriber[h].conn # "none" /\ ~subscriber[h].closing
    /\ \A q \in Channels : subscriber[h].of[q].who # {} => shared = h

\* The PING of the close is on the one connection with listeners, if any.
CloseSound ==
  \A h \in Subscribers : Pinged(subscriber[h], Life) =>
    /\ life \notin {"open", "closing"}
    /\ \A k \in Subscribers \ {h}, q \in Channels : subscriber[k].of[q].who = {}

WaitsTyped ==
  /\ job \in [Channels -> {"there", "kept", "gone"}]
  /\ shared \in {NoSubscriber} \cup Subscribers
  /\ life \in {"open", "closing", "flushing", "flushed", "closed"}
  /\ drops \in 0 .. MaxDrops
  /\ wait \in [Waits -> CallStates] /\ subscriber \in [Subscribers -> SubscriberStates]

WaitsInv ==
  /\ WaitsTyped
  /\ \A h \in Subscribers : SubscriberSound(subscriber[h])
  /\ \A w \in Waits : CallSound(wait[w], job[ChannelOf[w]])
  /\ \A w \in Waits, h \in Subscribers : PlaceSound(w, wait[w], subscriber[h])
  /\ \A w \in Waits : OwedSound(w)
  /\ SharedSound
  /\ CloseSound

\* What is left of a sequence without its first.
LEMMA TailWithin ==
  ASSUME NEW M, NEW s \in Seq(M), s # <<>>
  PROVE  /\ Tail(s) \in Seq(M) /\ Head(s) \in M /\ Within(s, Head(s))
         /\ \A m : Within(Tail(s), m) => Within(s, m)
         /\ \A S : OnlyOnce(s, S) => OnlyOnce(Tail(s), S)
         /\ \A S : OnlyOnce(s, S) /\ Head(s) \in S => \A m \in S : ~Within(Tail(s), m)
         /\ \A m, S : Ahead(s, m, S) => Head(s) \notin S
         /\ \A m, S : Ahead(s, m, S) /\ Head(s) # m => Ahead(Tail(s), m, S)
<1> DEFINE t == Tail(s)
<1>1. /\ t \in Seq(M) /\ Head(s) = s[1] /\ s[1] \in M /\ 1 \in DOMAIN s
      /\ DOMAIN t = 1 .. Len(s) - 1 /\ DOMAIN s = 1 .. Len(s) /\ Len(s) \in Nat
  OBVIOUS
<1>2. \A i \in DOMAIN t : i + 1 \in DOMAIN s /\ t[i] = s[i + 1] /\ i \in Nat
  BY <1>1
<1>3. \A i \in DOMAIN s : i # 1 => i - 1 \in DOMAIN t /\ t[i - 1] = s[i] /\ i \in Nat /\ i > 1
  BY <1>1
<1> HIDE DEF t
<1>4. \A m : Within(t, m) => Within(s, m)
  BY <1>2 DEF Within
<1>5. \A S : OnlyOnce(s, S) => OnlyOnce(t, S)
  BY <1>2 DEF OnlyOnce
<1>6. ASSUME NEW S, OnlyOnce(s, S), Head(s) \in S, NEW m \in S, Within(t, m) PROVE FALSE
  <2>1. PICK i \in DOMAIN t : t[i] = m
    BY <1>6 DEF Within
  <2>2. i + 1 = 1 /\ i \in 1 .. Len(s) - 1
    BY <2>1, <1>1, <1>2, <1>6 DEF OnlyOnce
  <2> QED
    BY <2>2, <1>1
<1>7. ASSUME NEW m, NEW S, Ahead(s, m, S)
      PROVE  Head(s) \notin S /\ (Head(s) # m => Ahead(t, m, S))
  <2>1. PICK i \in DOMAIN s : s[i] = m /\ \A j \in 1 .. i : s[j] \notin S
    BY <1>7 DEF Ahead
  <2>2. 1 \in 1 .. i
    BY <1>1
  <2>3. CASE i = 1
    BY <2>1, <2>2, <2>3, <1>1
  <2>4. CASE i # 1
    <3>1. i - 1 \in DOMAIN t /\ t[i - 1] = m
      BY <2>1, <2>4, <1>3
    <3>2. ASSUME NEW j \in 1 .. i - 1 PROVE t[j] \notin S
      <4>1. j \in DOMAIN t /\ j + 1 \in 1 .. i
        BY <1>1
      <4> QED
        BY <4>1, <1>2, <2>1
    <3> QED
      BY <3>1, <3>2, <2>1, <2>2, <1>1 DEF Ahead
  <2> QED
    BY <2>3, <2>4
<1>8. Within(s, Head(s))
  BY <1>1 DEF Within
<1> QED
  BY <1>1, <1>4, <1>5, <1>6, <1>7, <1>8 DEF t

\* And of one with another behind.
LEMMA AppendWithin ==
  ASSUME NEW M, NEW s \in Seq(M), NEW x \in M
  PROVE  /\ Append(s, x) \in Seq(M)
         /\ \A m : Within(Append(s, x), m) <=> Within(s, m) \/ x = m
         /\ \A S : OnlyOnce(s, S) /\ x \notin S => OnlyOnce(Append(s, x), S)
         /\ \A S : (\A m \in S : ~Within(s, m)) => OnlyOnce(Append(s, x), S)
         /\ \A m, S : Ahead(s, m, S) => Ahead(Append(s, x), m, S)
         /\ \A S : (\A m \in S : ~Within(s, m)) /\ x \notin S => Ahead(Append(s, x), x, S)
<1> DEFINE t == Append(s, x)
           n == Len(s)
<1>1. /\ t \in Seq(M) /\ n \in Nat /\ DOMAIN s = 1 .. n /\ DOMAIN t = 1 .. n + 1
      /\ t[n + 1] = x /\ \A i \in 1 .. n : t[i] = s[i]
  OBVIOUS
<1> HIDE DEF t, n
<1>2. \A m : Within(t, m) <=> Within(s, m) \/ x = m
  <2>1. n + 1 \in DOMAIN t /\ DOMAIN s \subseteq DOMAIN t
    BY <1>1
  <2>2. \A i \in DOMAIN t : i = n + 1 \/ i \in DOMAIN s
    BY <1>1
  <2> QED
    BY <2>1, <2>2, <1>1 DEF Within
<1>3. ASSUME NEW S, OnlyOnce(s, S), x \notin S PROVE OnlyOnce(t, S)
  <2>1. \A i \in DOMAIN t : t[i] \in S => i \in DOMAIN s /\ t[i] = s[i]
    BY <1>1, <1>3
  <2> QED
    BY <2>1, <1>3 DEF OnlyOnce
<1>4. ASSUME NEW S, \A m \in S : ~Within(s, m) PROVE OnlyOnce(t, S)
  <2>1. \A i \in DOMAIN t : t[i] \in S => i = n + 1
    BY <1>1, <1>4 DEF Within
  <2> QED
    BY <2>1 DEF OnlyOnce
<1>5. ASSUME NEW m, NEW S, Ahead(s, m, S) PROVE Ahead(t, m, S)
  <2>1. PICK i \in DOMAIN s : s[i] = m /\ \A j \in 1 .. i : s[j] \notin S
    BY <1>5 DEF Ahead
  <2>2. i \in DOMAIN t /\ t[i] = m
    BY <2>1, <1>1
  <2>3. ASSUME NEW j \in 1 .. i PROVE t[j] \notin S
    <3>1. j \in 1 .. n
      BY <1>1
    <3> QED
      BY <3>1, <2>1, <1>1
  <2> QED
    BY <2>2, <2>3 DEF Ahead
<1>6. ASSUME NEW S, \A m \in S : ~Within(s, m), x \notin S PROVE Ahead(t, x, S)
  <2>1. n + 1 \in DOMAIN t /\ t[n + 1] = x
    BY <1>1
  <2>2. ASSUME NEW j \in 1 .. n + 1 PROVE t[j] \notin S
    <3>1. CASE j = n + 1
      BY <3>1, <1>1, <1>6
    <3>2. CASE j \in 1 .. n
      BY <3>2, <1>1, <1>6 DEF Within
    <3> QED
      BY <3>1, <3>2, <1>1
  <2> QED
    BY <2>1, <2>2 DEF Ahead
<1> QED
  BY <1>1, <1>2, <1>3, <1>4, <1>5, <1>6 DEF t

\* No message is of two kinds, and each names one thing.
LEMMA MessagesApart ==
  /\ \A q, r : EventOf(q) = EventOf(r) => q = r
  /\ \A q, r : PingOf(q) = PingOf(r) => q = r
  /\ \A q, r, c, d : AnswerTo(c, q) = AnswerTo(d, r) => q = r /\ c = d
  /\ \A q, by : EventOf(q) # PingOf(by)
  /\ \A q, r : EventOf(q) \notin AnswersOf(r)
  /\ \A by, r : PingOf(by) \notin AnswersOf(r)
BY DEF EventOf, PingOf, AnswerTo, AnswersOf

\* An answer is of one channel.
LEMMA AnswersApart ==
  /\ \A q, r, c : AnswerTo(c, q) \in AnswersOf(r) => q = r
  /\ \A c \in {"subscribe", "unsubscribe"} : \A q : AnswerTo(c, q) \in AnswersOf(q)
  /\ \A q, m : m \in AnswersOf(q) => \E c \in {"subscribe", "unsubscribe"} : m = AnswerTo(c, q)
BY DEF AnswerTo, AnswersOf

\* The commands under way, and what comes of them.
LEMMA TurnsAre ==
  /\ <<>> \in TurnsOf /\ <<>> \notin Subscribing /\ <<"unsubscribe">> \notin Subscribing
  /\ <<"unsubscribe">> # <<>> /\ <<"subscribe">> # <<>> /\ <<"subscribe">> \in Subscribing
  /\ \A t \in TurnsOf : t = <<>> \/ t = <<"unsubscribe">> \/ t \in Subscribing
  /\ Append(<<>>, "unsubscribe") = <<"unsubscribe">>
  /\ Append(<<>>, "subscribe") = <<"subscribe">>
  /\ Append(<<"unsubscribe">>, "subscribe") \in Subscribing
  /\ Append(<<"unsubscribe">>, "subscribe") # <<"subscribe">>
  /\ Head(Append(<<"unsubscribe">>, "subscribe")) = Head(<<"unsubscribe">>)
  /\ Append(<<"unsubscribe">>, "subscribe") # <<>>
  /\ \A t \in TurnsOf : t # <<>> =>
       /\ Head(t) \in {"subscribe", "unsubscribe"}
       /\ Tail(t) \in TurnsOf /\ Tail(t) # <<"unsubscribe">>
       /\ t # <<"subscribe">> /\ t # <<"unsubscribe">> => Tail(t) = <<"subscribe">>
       /\ t \in {<<"subscribe">>, <<"unsubscribe">>} => Tail(t) = <<>>
       /\ Tail(t) \in Subscribing => t \in Subscribing
       /\ Head(t) = "subscribe" => t = <<"subscribe">>
       /\ Len(t) = 1 => Tail(t) = <<>>
<1>1. ASSUME NEW t \in TurnsOf, t # <<>>
      PROVE  /\ Head(t) \in {"subscribe", "unsubscribe"}
             /\ Tail(t) \in TurnsOf /\ Tail(t) # <<"unsubscribe">>
             /\ t # <<"subscribe">> /\ t # <<"unsubscribe">> => Tail(t) = <<"subscribe">>
             /\ t \in {<<"subscribe">>, <<"unsubscribe">>} => Tail(t) = <<>>
             /\ Tail(t) \in Subscribing => t \in Subscribing
             /\ Head(t) = "subscribe" => t = <<"subscribe">>
             /\ Len(t) = 1 => Tail(t) = <<>>
  <2>1. CASE t = <<"unsubscribe">>
    BY <2>1 DEF TurnsOf, Subscribing
  <2>2. CASE t = <<"subscribe">>
    BY <2>2 DEF TurnsOf, Subscribing
  <2>3. CASE t = <<"unsubscribe", "subscribe">>
    BY <2>3 DEF TurnsOf, Subscribing
  <2> QED
    BY <1>1, <2>1, <2>2, <2>3 DEF TurnsOf, Subscribing
<1> DEFINE joins == "subscribe"
           leaves == "unsubscribe"
<1>2. /\ Append(<<>>, leaves) = <<leaves>> /\ Append(<<>>, joins) = <<joins>>
      /\ Append(<<leaves>>, joins) = <<leaves, joins>>
  <2> HIDE DEF joins, leaves
  <2>1. ASSUME NEW S, NEW a \in S, NEW b \in S
        PROVE  Append(<<a>>, b) = <<a, b>> /\ Append(<<>>, b) = <<b>>
    <3>1. <<a>> \in Seq(S) /\ <<>> \in Seq(S) /\ <<a, b>> \in Seq(S) /\ <<b>> \in Seq(S)
      OBVIOUS
    <3>2. Append(<<a>>, b) \in Seq(S) /\ Append(<<>>, b) \in Seq(S)
      OBVIOUS
    <3>3. /\ Len(Append(<<a>>, b)) = 2 /\ Append(<<a>>, b)[1] = a /\ Append(<<a>>, b)[2] = b
          /\ Len(Append(<<>>, b)) = 1 /\ Append(<<>>, b)[1] = b
      OBVIOUS
    <3>4. Append(<<a>>, b) = <<a, b>>
      <4> DEFINE t == Append(<<a>>, b)
                 u == <<a, b>>
      <4>4. t[1] = u[1] /\ t[2] = u[2]
        BY <3>3
      <4>5. t \in [1 .. 2 -> S]
        <5> HIDE DEF u, t
        <5> SUFFICES ASSUME NEW v \in Seq(S), Len(v) = 2 PROVE v \in [1 .. 2 -> S]
          BY <3>2, <3>3 DEF t
        <5> QED
          OBVIOUS
      <4>6. u \in [1 .. 2 -> S]
        OBVIOUS
      <4>1. /\ t \in [1 .. 2 -> S] /\ u \in [1 .. 2 -> S]
            /\ t[1] = u[1] /\ t[2] = u[2]
        BY <4>4, <4>5, <4>6
      <4> HIDE DEF t, u
      <4>2. \A i \in 1 .. 2 : i = 1 \/ i = 2
        OBVIOUS
      <4>3. t = u
        BY <4>1, <4>2
      <4> QED
        BY <4>3 DEF t, u
    <3>5. Append(<<>>, b) = <<b>>
      BY <3>1, <3>2, <3>3
    <3> QED
      BY <3>4, <3>5
  <2>2. leaves \in {joins, leaves} /\ joins \in {joins, leaves}
    OBVIOUS
  <2> QED
    BY <2>1, <2>2
<1>3. /\ <<>> \in TurnsOf /\ <<>> \notin Subscribing /\ <<"unsubscribe">> \notin Subscribing
      /\ <<"unsubscribe">> # <<>> /\ <<"subscribe">> # <<>> /\ <<"subscribe">> \in Subscribing
      /\ \A t \in TurnsOf : t = <<>> \/ t = <<"unsubscribe">> \/ t \in Subscribing
  BY DEF TurnsOf, Subscribing
<1>4. /\ <<"unsubscribe", "subscribe">> \in Subscribing
      /\ <<"unsubscribe", "subscribe">> # <<"subscribe">>
      /\ <<"unsubscribe", "subscribe">> # <<>>
      /\ Head(<<"unsubscribe", "subscribe">>) = Head(<<"unsubscribe">>)
  BY DEF Subscribing
<1> QED
  BY <1>1, <1>2, <1>3, <1>4

\* What a channel with listeners waits for, once its SUBSCRIBE is answered.
LEMMA ReadyIs ==
  ASSUME NEW s, SubscriberSound(s), NEW q \in Channels
  PROVE  Ready(s, q) <=> s.of[q].who # {} /\ s.of[q].turns = <<>>
<1>1. s.of[q].turns \in TurnsOf /\ ChannelSound(s, q)
  BY DEF SubscriberSound, SubscriberStates, ChannelStates
<1>2. ASSUME s.of[q].turns \in Subscribing
      PROVE  \E i \in DOMAIN s.of[q].turns : s.of[q].turns[i] = "subscribe"
  <2>1. CASE s.of[q].turns = <<"subscribe">>
    BY <2>1
  <2>2. CASE s.of[q].turns = <<"unsubscribe", "subscribe">>
    <3>1. 2 \in DOMAIN s.of[q].turns /\ s.of[q].turns[2] = "subscribe"
      BY <2>2
    <3> QED
      BY <3>1
  <2> QED
    BY <1>2, <2>1, <2>2 DEF Subscribing
<1>3. s.of[q].turns = <<"unsubscribe">> => s.of[q].who = {}
  BY <1>1 DEF ChannelSound
<1> QED
  BY <1>1, <1>2, <1>3, TurnsAre DEF Ready

\* Calls that unlisten where they are ready leave a connection sound.
LeavesAs(s, W, t) ==
  /\ SubscriberSound(t)
  /\ t.conn = s.conn /\ t.pings = s.pings /\ t.in = s.in
  /\ t.closing => s.closing \/ \A q \in Channels : t.of[q].who = {}
  /\ \A q \in Channels :
       /\ t.of[q].who = s.of[q].who \ W
       /\ t.of[q].who # {} => t.of[q].turns = s.of[q].turns

\* They do: a channel left without listeners has its UNSUBSCRIBE under way, but
\* the last, and the connection closes with that.
LEMMA LeftSound ==
  ASSUME NEW s, SubscriberSound(s), s.conn # "none", NEW W,
         \A q \in Channels, w \in W : w \in s.of[q].who => s.of[q].turns = <<>>
  PROVE  LeavesAs(s, W, Left(s, W))
<1> DEFINE of    == [q \in Channels |-> [s.of[q] EXCEPT !.who = @ \ W]]
           empty == {q \in Channels : s.of[q].who # {} /\ of[q].who = {}}
           none  == \A q \in Channels : of[q].who = {}
           last  == IF none /\ empty # {} THEN {CHOOSE q \in empty : TRUE} ELSE {}
           goes  == [q \in Channels |->
                       IF q \in empty \ last THEN [of[q] EXCEPT !.turns = Append(@, "unsubscribe")]
                       ELSE of[q]]
           t == Left(s, W)
<1>1. t = [s EXCEPT !.of = goes, !.closing = @ \/ last # {}, !.cut = @ \ empty]
  BY DEF Left
<1>2. /\ s \in SubscriberStates /\ \A q \in Channels : s.of[q] \in ChannelStates
      /\ \A q \in Channels : s.of[q].turns \in TurnsOf /\ ChannelSound(s, q)
  BY DEF SubscriberSound, SubscriberStates, ChannelStates
<1>3. ASSUME NEW q \in Channels
      PROVE  /\ of[q] \in ChannelStates /\ of[q].who = s.of[q].who \ W
             /\ of[q].turns = s.of[q].turns /\ of[q].ran = s.of[q].ran
             /\ q \in empty => of[q].turns = <<>> /\ of[q].who = {}
  <2>1. /\ of[q] \in ChannelStates /\ of[q].who = s.of[q].who \ W
        /\ of[q].turns = s.of[q].turns /\ of[q].ran = s.of[q].ran
    BY <1>2 DEF ChannelStates
  <2>2. ASSUME q \in empty PROVE s.of[q].turns = <<>>
    <3>1. PICK w : w \in s.of[q].who
      BY <2>2
    <3> QED
      BY <3>1, <2>1, <2>2
  <2> QED
    BY <2>1, <2>2
<1> HIDE DEF of
<1>4. ASSUME NEW q \in Channels
      PROVE  /\ goes[q] \in ChannelStates /\ goes[q].who = s.of[q].who \ W
             /\ goes[q].ran = s.of[q].ran
             /\ \/ goes[q].turns = s.of[q].turns
                \/ goes[q].who = {} /\ s.of[q].turns = <<>> /\ goes[q].turns = <<"unsubscribe">>
  <2>1. CASE q \in empty \ last
    <3>1. goes[q] = [of[q] EXCEPT !.turns = <<"unsubscribe">>]
      BY <2>1, <1>3, TurnsAre
    <3> QED
      BY <3>1, <2>1, <1>3, TurnsAre DEF ChannelStates, TurnsOf
  <2>2. CASE q \notin empty \ last
    <3>1. goes[q] = of[q]
      BY <2>2
    <3> HIDE DEF goes, of, empty, last
    <3> QED
      BY <3>1, <1>3
  <2> QED
    BY <2>1, <2>2
<1>5. last # {} => none
  OBVIOUS
<1>6. none => \A q \in Channels : goes[q].who = {}
  BY <1>3, <1>4
<1>7. \A q \in empty : goes[q].who = {}
  BY <1>3, <1>4
<1> HIDE DEF none, empty, last
<1>8. goes \in [Channels -> ChannelStates]
  BY <1>4
<1> HIDE DEF goes
<1>9. /\ t.conn = s.conn /\ t.pings = s.pings /\ t.in = s.in /\ t.heard = s.heard
      /\ t.cut = s.cut \ empty /\ t.of = goes /\ t.closing = (s.closing \/ last # {})
      /\ t \in SubscriberStates
  BY <1>1, <1>2, <1>8 DEF SubscriberStates
<1> HIDE DEF t
<1>10. t.closing => s.closing \/ \A q \in Channels : t.of[q].who = {}
  BY <1>5, <1>6, <1>9
<1>11. t.closing => \A q \in Channels : t.of[q].who = {}
  BY <1>10, <1>9, <1>4 DEF SubscriberSound
<1>12. ASSUME NEW q \in Channels PROVE ChannelSound(t, q)
  BY <1>2, <1>4, <1>7, <1>9, TurnsAre DEF ChannelSound
<1>13. SubscriberSound(t)
  BY <1>9, <1>11, <1>12 DEF SubscriberSound
<1> QED
  BY <1>4, <1>9, <1>10, <1>13 DEF LeavesAs, t

\* What a call does in a step of connection h, left as t: it stays where it is,
\* ends, or goes on: it found its job, or its SUBSCRIBE is answered.
CallMoves(w, h, t) ==
  \/ wait'[w].at = wait[w].at
  \/ wait'[w].at = "over"
  \/ wait[w].at = "read" /\ wait'[w].at = "wait"
  \/ /\ wait[w].at = "listen" /\ wait'[w].at \in {"read", "wait"}
     /\ w \in t.of[ChannelOf[w]].who => t.of[ChannelOf[w]].turns = <<>>
     /\ \A k \in Subscribers \ {h} : w \notin subscriber[k].of[ChannelOf[w]].who

\* A connection in a step that adds it neither a listener nor a PING: who no
\* longer listens is over, and what is owed to the others still comes.
ConnectionMoves(h, t) ==
  /\ SubscriberSound(t) /\ subscriber' = [subscriber EXCEPT ![h] = t]
  /\ \A by \in Waits \cup {Life} : Pinged(t, by) => Pinged(subscriber[h], by)
  /\ \A q \in Channels :
       /\ t.of[q].who \subseteq subscriber[h].of[q].who
       /\ t.of[q].who # {} /\ subscriber[h].of[q].turns = <<>> => t.of[q].turns = <<>>
  /\ \A w \in Waits : w \in subscriber[h].of[ChannelOf[w]].who =>
       w \in t.of[ChannelOf[w]].who \/ wait'[w].at = "over"
  /\ shared' = shared \/ (shared = h /\ shared' = NoSubscriber)
  /\ shared = h => IF shared' = h THEN t.conn # "none" /\ ~t.closing
                   ELSE \A q \in Channels : t.of[q].who = {}

CallsMove(h, t) ==
  \A w \in Waits :
    /\ CallSound(wait'[w], job'[ChannelOf[w]]) /\ CallMoves(w, h, t)
    /\ Owed(wait'[w]) =>
         /\ Owed(wait[w]) /\ life' \in {"open", "closing", "flushing"}
         /\ w \in subscriber[h].of[ChannelOf[w]].who /\ Comes(w, subscriber[h]) => Comes(w, t)

\* A step of one connection, and of the calls, keeps the invariant.
LEMMA WaitsMove ==
  ASSUME WaitsInv, WaitsTyped', NEW h \in Subscribers, NEW t,
         ConnectionMoves(h, t), CallsMove(h, t),
         life \notin {"open", "closing"} => life' \notin {"open", "closing"}
  PROVE  WaitsInv'
<1> USE DEF WaitsInv
<1>1. /\ subscriber'[h] = t /\ \A k \in Subscribers \ {h} : subscriber'[k] = subscriber[k]
  BY DEF WaitsTyped, ConnectionMoves
<1>2. \A w \in Waits : ChannelOf[w] \in Channels
  BY WaitsAssumption
<1>3. \A k \in Subscribers : SubscriberSound(subscriber'[k])
  BY <1>1 DEF ConnectionMoves
<1>4. ASSUME NEW w \in Waits PROVE PlaceSound(w, wait'[w], t)
  BY <1>2 DEF PlaceSound, CallsMove, CallMoves, ConnectionMoves
<1>5. ASSUME NEW w \in Waits, NEW k \in Subscribers \ {h}
      PROVE  PlaceSound(w, wait'[w], subscriber[k])
  BY <1>2 DEF PlaceSound, CallsMove, CallMoves
<1>6. \A w \in Waits, k \in Subscribers : PlaceSound(w, wait'[w], subscriber'[k])
  BY <1>1, <1>4, <1>5
<1>7. ASSUME NEW w \in Waits, Owed(wait'[w])
      PROVE  /\ w \notin Workers /\ life' \in {"open", "closing", "flushing"}
             /\ \E k \in Subscribers : /\ w \in subscriber'[k].of[ChannelOf[w]].who
                                       /\ Comes(w, subscriber'[k])
  <2>1. PICK k \in Subscribers : /\ w \in subscriber[k].of[ChannelOf[w]].who
                                 /\ Comes(w, subscriber[k])
    BY <1>7 DEF CallsMove, OwedSound
  <2>2. w \notin Workers /\ life' \in {"open", "closing", "flushing"} /\ wait'[w].at # "over"
    BY <1>7 DEF CallsMove, OwedSound, Owed
  <2>3. CASE k = h
    BY <2>1, <2>2, <2>3, <1>1, <1>7 DEF CallsMove, ConnectionMoves
  <2>4. CASE k # h
    BY <2>1, <2>2, <2>4, <1>1
  <2> QED
    BY <2>3, <2>4
<1>8. SharedSound'
  <2>1. \A q \in Channels : t.of[q].who # {} => subscriber[h].of[q].who # {}
    BY DEF ConnectionMoves
  <2>2. NoSubscriber \notin Subscribers
    BY WaitsAssumption DEF NoSubscriber, Subscribers
  <2> QED
    BY <1>1, <2>1, <2>2 DEF SharedSound, ConnectionMoves
<1>9. CloseSound'
  <2>1. ASSUME NEW k \in Subscribers, Pinged(subscriber'[k], Life)
        PROVE  /\ life' \notin {"open", "closing"}
               /\ \A j \in Subscribers \ {k}, q \in Channels : subscriber'[j].of[q].who = {}
    <3>1. Pinged(subscriber[k], Life)
      BY <2>1, <1>1 DEF ConnectionMoves
    <3>2. \A j \in Subscribers \ {k}, q \in Channels : subscriber[j].of[q].who = {}
      BY <3>1 DEF CloseSound
    <3> QED
      BY <3>1, <3>2, <1>1 DEF CloseSound, ConnectionMoves
  <2> QED
    BY <2>1 DEF CloseSound
<1>10. \A w \in Waits : OwedSound(w)'
  BY <1>7 DEF OwedSound
<1>11. \A w \in Waits : CallSound(wait[w], job[ChannelOf[w]])'
  BY DEF CallsMove
<1> QED
  BY <1>3, <1>6, <1>8, <1>9, <1>10, <1>11

\* The parts of the invariant that a step of one connection reads.
LEMMA Parts ==
  ASSUME WaitsInv, NEW h \in Subscribers
  PROVE  /\ SubscriberSound(subscriber[h]) /\ subscriber[h] \in SubscriberStates
         /\ subscriber \in [Subscribers -> SubscriberStates]
         /\ subscriber[h].in \in Seq(Incoming) /\ subscriber[h].pings \subseteq Waits \cup {Life}
         /\ \A q \in Channels : /\ subscriber[h].of[q] \in ChannelStates
                                /\ subscriber[h].of[q].turns \in TurnsOf
                                /\ subscriber[h].of[q].who \subseteq Waits
                                /\ ChannelSound(subscriber[h], q)
         /\ \A w \in Waits : /\ wait[w] \in CallStates /\ ChannelOf[w] \in Channels
                             /\ CallSound(wait[w], job[ChannelOf[w]])
                             /\ PlaceSound(w, wait[w], subscriber[h])
         /\ NoSubscriber \notin Subscribers
<1>1. /\ SubscriberSound(subscriber[h]) /\ subscriber \in [Subscribers -> SubscriberStates]
      /\ \A w \in Waits : /\ CallSound(wait[w], job[ChannelOf[w]])
                          /\ PlaceSound(w, wait[w], subscriber[h])
  BY DEF WaitsInv, WaitsTyped
<1>2. NoSubscriber \notin Subscribers
  BY WaitsAssumption DEF NoSubscriber, Subscribers
<1>3. \A w \in Waits : wait[w] \in CallStates /\ ChannelOf[w] \in Channels
  BY WaitsAssumption DEF WaitsInv, WaitsTyped
<1>4. subscriber[h] \in SubscriberStates /\ \A q \in Channels : ChannelSound(subscriber[h], q)
  BY <1>1 DEF SubscriberSound
<1>5. /\ subscriber[h].in \in Seq(Incoming) /\ subscriber[h].pings \subseteq Waits \cup {Life}
      /\ \A q \in Channels : subscriber[h].of[q] \in ChannelStates
  BY <1>4 DEF SubscriberStates
<1>6. \A q \in Channels : /\ subscriber[h].of[q].turns \in TurnsOf
                          /\ subscriber[h].of[q].who \subseteq Waits
  BY <1>5 DEF ChannelStates
<1> QED
  BY <1>1, <1>2, <1>3, <1>4, <1>5, <1>6

Answers == {"told", "not found", "closed"}

\* A call that is over, with an answer: what it was owed was told it, or it is
\* owed still.
LEMMA OverIs ==
  ASSUME NEW w \in Waits, wait[w] \in CallStates, NEW answer \in Answers, NEW place,
         answer # "told" => ~wait[w].owed
  PROVE  /\ OverWith(w, answer) \in CallStates /\ OverWith(w, answer).at = "over"
         /\ ~OverWith(w, answer).owed /\ ~Owed(OverWith(w, answer))
         /\ CallSound(OverWith(w, answer), place)
<1> DEFINE owes == answer # "told" /\ wait[w].owed
<1>1. owes = FALSE
  OBVIOUS
<1>2. OverWith(w, answer) = [NewWait EXCEPT !.at = "over", !.answer = answer, !.owed = owes]
  BY DEF OverWith
<1> HIDE DEF owes
<1>3. OverWith(w, answer) =
        [at |-> "over", answer |-> answer, read |-> NoRead, absent |-> FALSE, owed |-> FALSE]
  BY <1>1, <1>2 DEF NewWait
<1> DEFINE o == OverWith(w, answer)
<1>4. o.at = "over" /\ o.read = NoRead /\ o.owed = FALSE
  BY <1>3
<1>5. o \in CallStates
  <2>1. answer \in {"none", "told", "not found", "closed"}
    BY DEF Answers
  <2>2. "over" \in {"new", "listen", "read", "flush", "wait", "over"}
    OBVIOUS
  <2>3. NoRead \in {NoRead, "there", "kept", "gone"} /\ FALSE \in BOOLEAN
    OBVIOUS
  <2>4. ASSUME NEW A, NEW B, NEW C, NEW a \in A, NEW b \in B, NEW c \in C
        PROVE  [at |-> a, answer |-> b, read |-> c, absent |-> FALSE, owed |-> FALSE]
                 \in [at : A, answer : B, read : C, absent : BOOLEAN, owed : BOOLEAN]
    OBVIOUS
  <2>5. [at |-> "over", answer |-> answer, read |-> NoRead, absent |-> FALSE, owed |-> FALSE]
          \in CallStates
    BY <2>1, <2>2, <2>3, <2>4 DEF CallStates
  <2> QED
    BY <1>3, <2>5
<1> HIDE DEF o
<1>6. ~o.owed /\ ~Owed(o) /\ CallSound(o, place)
  BY <1>4 DEF Owed, CallSound
<1> QED
  BY <1>4, <1>5, <1>6 DEF o

\* Connection h with less under way on it, and the same listeners.
Nears(s, h) ==
  /\ SubscriberSound(s) /\ s.conn # "none" /\ s.closing = subscriber[h].closing
  /\ \A by \in Waits \cup {Life} : Pinged(s, by) => Pinged(subscriber[h], by)
  /\ \A q \in Channels :
       /\ s.of[q].who = subscriber[h].of[q].who
       /\ subscriber[h].of[q].turns = <<>> => s.of[q].turns = <<>>

\* Calls that are over unlisten where they are ready.
LEMMA UnlistenMoves ==
  ASSUME WaitsInv, NEW h \in Subscribers, NEW s, Nears(s, h), NEW U,
         \A q \in Channels, w \in U : w \in s.of[q].who => s.of[q].turns = <<>>,
         \A w \in U : wait'[w].at = "over",
         Unlisten(h, s, U)
  PROVE  /\ ConnectionMoves(h, Left(s, U)) /\ LeavesAs(s, U, Left(s, U))
         /\ \A w \in Waits : Comes(w, Left(s, U)) <=> Comes(w, s)
<1> DEFINE t == Left(s, U)
<1>1. LeavesAs(s, U, t)
  BY LeftSound DEF Nears
<1>2. /\ subscriber' = [subscriber EXCEPT ![h] = t]
      /\ shared' = IF shared = h /\ t.closing THEN NoSubscriber ELSE shared
  BY DEF Unlisten
<1> HIDE DEF t
<1>3. shared = h => ~subscriber[h].closing
  BY DEF WaitsInv, SharedSound
<1>4. \A by \in Waits \cup {Life} : Pinged(t, by) <=> Pinged(s, by)
  BY <1>1 DEF LeavesAs, Pinged
<1>5. \A w \in Waits : ChannelOf[w] \in Channels
  BY WaitsAssumption
<1>6. NoSubscriber # h
  BY Parts
<1>7. shared = h => IF shared' = h THEN t.conn # "none" /\ ~t.closing
                    ELSE \A q \in Channels : t.of[q].who = {}
  BY <1>1, <1>2, <1>3, <1>6 DEF LeavesAs, Nears
<1>8. \A w \in Waits : w \in subscriber[h].of[ChannelOf[w]].who =>
        w \in t.of[ChannelOf[w]].who \/ wait'[w].at = "over"
  BY <1>1, <1>5 DEF LeavesAs, Nears
<1>9. \A q \in Channels :
        /\ t.of[q].who \subseteq subscriber[h].of[q].who
        /\ t.of[q].who # {} /\ subscriber[h].of[q].turns = <<>> => t.of[q].turns = <<>>
  BY <1>1 DEF LeavesAs, Nears
<1>10. ConnectionMoves(h, t)
  BY <1>1, <1>2, <1>4, <1>7, <1>8, <1>9 DEF ConnectionMoves, LeavesAs, Nears
<1>11. \A w \in Waits : Comes(w, t) <=> Comes(w, s)
  BY <1>1 DEF LeavesAs, Comes
<1> QED
  BY <1>1, <1>10, <1>11 DEF t

\* Nothing happens to a connection.
LEMMA StaysMoves ==
  ASSUME WaitsInv, Stays, NEW h \in Subscribers
  PROVE  ConnectionMoves(h, subscriber[h])
<1>1. subscriber' = [subscriber EXCEPT ![h] = subscriber[h]] /\ shared' = shared
  BY Parts DEF Stays
<1>2. shared = h => subscriber[h].conn # "none" /\ ~subscriber[h].closing
  BY DEF WaitsInv, SharedSound
<1> QED
  BY <1>1, <1>2, Parts DEF ConnectionMoves

\* A connection somebody listens through was opened, and is the shared one.
LEMMA ListensIs ==
  ASSUME WaitsInv, NEW w \in Waits, NEW h \in SubscriberOf(w)
  PROVE  /\ h \in Subscribers /\ shared = h /\ subscriber[h].conn # "none"
         /\ ~subscriber[h].closing /\ w \in subscriber[h].of[ChannelOf[w]].who
         /\ \A q \in Channels : w \in subscriber[h].of[q].who => q = ChannelOf[w]
<1>1. h \in Subscribers /\ w \in subscriber[h].of[ChannelOf[w]].who
  BY DEF SubscriberOf
<1>2. ChannelOf[w] \in Channels /\ \A q \in Channels : ChannelSound(subscriber[h], q)
  BY <1>1, Parts
<1> QED
  BY <1>1, <1>2 DEF WaitsInv, SharedSound, ChannelSound

Lives == {"open", "closing", "flushing", "flushed", "closed"}

\* Calls that end, and are not owed what they are not told.
LEMMA EndsCalls ==
  ASSUME WaitsInv, NEW W \in SUBSET Waits, NEW answer \in Answers, EndCalls(W, answer),
         \A w \in W : answer # "told" => ~wait[w].owed,
         UNCHANGED <<job, drops>>, life' \in Lives,
         life \notin {"open", "closing"} => life' \notin {"open", "closing"},
         \A w \in Waits \ W : Owed(wait[w]) => life' \in {"open", "closing", "flushing"}
  PROVE  WaitsInv'
<1> DEFINE on == {w \in W : \E h \in SubscriberOf(w) : Ready(subscriber[h], ChannelOf[w])}
<1>1. 1 \in Subscribers
  BY WaitsAssumption DEF Subscribers
<1>2. /\ \A w \in W : wait'[w] = OverWith(w, answer)
      /\ \A w \in Waits \ W : wait'[w] = wait[w]
      /\ wait' = [w \in Waits |-> wait'[w]]
  BY DEF EndCalls
<1>3. \A w \in W : /\ wait'[w] \in CallStates /\ wait'[w].at = "over" /\ ~Owed(wait'[w])
                   /\ CallSound(wait'[w], job'[ChannelOf[w]])
  BY <1>2, OverIs, Parts, <1>1
<1>4. wait' \in [Waits -> CallStates]
  BY <1>2, <1>3, Parts, <1>1
<1>5. ASSUME NEW h \in Subscribers, NEW t, \A w \in Waits : Comes(w, subscriber[h]) => Comes(w, t)
      PROVE  CallsMove(h, t)
  BY <1>2, <1>3, <1>5, Parts DEF CallsMove, CallMoves
<1>6. CASE on = {}
  <2>1. Stays
    BY <1>6 DEF EndCalls
  <2>2. ConnectionMoves(1, subscriber[1]) /\ CallsMove(1, subscriber[1])
    BY <2>1, <1>1, <1>5, StaysMoves
  <2>3. WaitsTyped'
    BY <2>1, <1>4 DEF WaitsInv, WaitsTyped, Lives, Stays
  <2> QED
    BY <2>2, <2>3, <1>1, WaitsMove
<1>7. CASE on # {}
  <2>1. PICK h \in Subscribers : /\ \A w \in on : h \in SubscriberOf(w)
                                 /\ Unlisten(h, subscriber[h], on)
    BY <1>7 DEF EndCalls
  <2>2. \A w \in on : w \in Waits /\ wait'[w].at = "over"
    BY <1>3
  <2>3. ASSUME NEW w \in on, NEW q \in Channels, w \in subscriber[h].of[q].who
        PROVE  subscriber[h].of[q].turns = <<>>
    <3>1. PICK k \in SubscriberOf(w) : Ready(subscriber[k], ChannelOf[w])
      OBVIOUS
    <3>2. k = h /\ q = ChannelOf[w]
      BY <3>1, <2>1, <2>2, <2>3, ListensIs
    <3> QED
      BY <3>1, <3>2, ReadyIs, Parts
  <2>4. subscriber[h].conn # "none"
    BY <1>7, <2>1, <2>2, ListensIs
  <2> HIDE DEF on
  <2>5. Nears(subscriber[h], h)
    BY <2>4, Parts DEF Nears
  <2>6. /\ ConnectionMoves(h, Left(subscriber[h], on))
        /\ \A w \in Waits : Comes(w, Left(subscriber[h], on)) <=> Comes(w, subscriber[h])
    BY <2>1, <2>2, <2>3, <2>5, UnlistenMoves
  <2>7. CallsMove(h, Left(subscriber[h], on))
    BY <2>6, <1>5
  <2>8. WaitsTyped'
    <3>1. subscriber' = [subscriber EXCEPT ![h] = Left(subscriber[h], on)]
          /\ Left(subscriber[h], on) \in SubscriberStates
      BY <2>6 DEF ConnectionMoves, SubscriberSound
    <3>2. shared' \in {shared, NoSubscriber}
      BY <2>1 DEF Unlisten
    <3> QED
      BY <3>1, <3>2, <1>4 DEF WaitsInv, WaitsTyped, Lives
  <2> QED
    BY <2>6, <2>7, <2>8, WaitsMove
<1> QED
  BY <1>6, <1>7

\* A step that leaves the connections alone.
LEMMA StaysHold ==
  ASSUME WaitsInv, Stays, wait' \in [Waits -> CallStates],
         job' \in [Channels -> {"there", "kept", "gone"}], UNCHANGED drops, life' \in Lives,
         life \notin {"open", "closing"} => life' \notin {"open", "closing"},
         \A w \in Waits :
           /\ CallSound(wait'[w], job'[ChannelOf[w]])
           /\ \/ wait'[w].at = wait[w].at
              \/ wait[w].at = "read" /\ wait'[w].at = "wait"
           /\ Owed(wait'[w]) => Owed(wait[w]) /\ life' \in {"open", "closing", "flushing"}
  PROVE  WaitsInv'
<1>1. 1 \in Subscribers
  BY WaitsAssumption DEF Subscribers
<1>2. ConnectionMoves(1, subscriber[1])
  BY <1>1, StaysMoves
<1>3. CallsMove(1, subscriber[1])
  BY DEF CallsMove, CallMoves
<1>4. WaitsTyped'
  BY DEF WaitsInv, WaitsTyped, Lives, Stays
<1> QED
  BY <1>1, <1>2, <1>3, <1>4, WaitsMove

\* A step in which the calls stay as they are.
LEMMA CallsStay ==
  ASSUME WaitsInv, UNCHANGED <<job, wait, drops>>, NEW h \in Subscribers, NEW t,
         ConnectionMoves(h, t), life' \in Lives,
         life \notin {"open", "closing"} => life' \notin {"open", "closing"},
         \A w \in Waits : Owed(wait[w]) => life' \in {"open", "closing", "flushing"},
         \A w \in Waits : Comes(w, subscriber[h]) => Comes(w, t)
  PROVE  WaitsInv'
<1>1. CallsMove(h, t)
  BY Parts DEF CallsMove, CallMoves
<1>2. WaitsTyped'
  <2>1. shared' \in {shared, NoSubscriber}
    BY DEF ConnectionMoves
  <2>2. subscriber' = [subscriber EXCEPT ![h] = t] /\ t \in SubscriberStates
    BY DEF ConnectionMoves, SubscriberSound
  <2> QED
    BY <2>1, <2>2 DEF WaitsInv, WaitsTyped, Lives
<1> QED
  BY <1>1, <1>2, WaitsMove

\* What the invariant says of the close, the job and the calls.
LEMMA LifeIs ==
  ASSUME WaitsInv
  PROVE  /\ life \in Lives /\ 1 \in Subscribers
         /\ job \in [Channels -> {"there", "kept", "gone"}] /\ wait \in [Waits -> CallStates]
         /\ \A w \in Waits : Owed(wait[w]) => life \in {"open", "closing", "flushing"}
         /\ \A w \in Waits : Pending(w) /\ wait[w].owed => Owed(wait[w])
BY WaitsAssumption DEF WaitsInv, WaitsTyped, Lives, OwedSound, Subscribers, Owed, Pending

\* The first read runs: the job it finds gone stays gone.
LEMMA ReadRunsKeeps == ASSUME WaitsInv, NEW w \in Waits, ReadRuns(w) PROVE WaitsInv'
<1>1. /\ wait[w].at = "read" /\ wait' = [wait EXCEPT ![w].read = job[ChannelOf[w]]]
      /\ Stays /\ UNCHANGED <<job, life, drops>>
  BY DEF ReadRuns, Stays
<1>2. wait[w] \in CallStates /\ job[ChannelOf[w]] \in {"there", "kept", "gone"}
  BY LifeIs, Parts
<1>3. /\ wait'[w] \in CallStates /\ wait'[w].at = wait[w].at /\ wait'[w].owed = wait[w].owed
      /\ wait'[w].answer = wait[w].answer /\ wait'[w].read = job[ChannelOf[w]]
      /\ wait' \in [Waits -> CallStates] /\ \A v \in Waits \ {w} : wait'[v] = wait[v]
  BY <1>1, <1>2, LifeIs DEF CallStates
<1>4. CallSound(wait'[w], job'[ChannelOf[w]])
  BY <1>1, <1>3, Parts, LifeIs DEF CallSound
<1> QED
  BY <1>1, <1>3, <1>4, LifeIs, Parts, StaysHold DEF Owed

\* A job is removed: nobody is owed anything by it.
LEMMA JobRemovedKeeps == ASSUME WaitsInv, NEW q \in Channels, JobRemoved(q) PROVE WaitsInv'
<1>1. job' = [job EXCEPT ![q] = "gone"] /\ Stays /\ UNCHANGED <<wait, life, drops>>
  BY DEF JobRemoved, Stays
<1>2. \A w \in Waits : CallSound(wait'[w], job'[ChannelOf[w]])
  BY <1>1, LifeIs, Parts DEF CallSound
<1> QED
  BY <1>1, <1>2, LifeIs, StaysHold

\* The close begins: what is owed is owed until its flush ends.
LEMMA CloseBeginsKeeps == ASSUME WaitsInv, CloseBegins PROVE WaitsInv'
<1>1. life = "open" /\ life' = "closing" /\ Stays /\ UNCHANGED <<job, wait, drops>>
  BY DEF CloseBegins, Stays
<1> QED
  BY <1>1, LifeIs, Parts, StaysHold DEF Lives

\* The flush of the close is not answered: nothing is owed any more.
LEMMA FlushExpiresKeeps == ASSUME WaitsInv, FlushExpires PROVE WaitsInv'
<1>1. /\ life = "flushing" /\ life' = "flushed" /\ Stays /\ UNCHANGED <<job, drops>>
      /\ wait' = [w \in Waits |-> [wait[w] EXCEPT !.owed = FALSE]]
  BY DEF FlushExpires, Stays
<1>2. ASSUME NEW w \in Waits
      PROVE  /\ wait'[w] \in CallStates /\ wait'[w].at = wait[w].at /\ ~wait'[w].owed
             /\ wait'[w].answer = wait[w].answer /\ wait'[w].read = wait[w].read
  BY <1>1, LifeIs DEF CallStates
<1>3. \A w \in Waits : CallSound(wait'[w], job'[ChannelOf[w]])
  BY <1>1, <1>2, LifeIs, Parts DEF CallSound
<1>4. wait' \in [Waits -> CallStates]
  BY <1>1, <1>2
<1> QED
  BY <1>1, <1>2, <1>3, <1>4, LifeIs, StaysHold DEF Owed, Lives

\* The calls are rejected once the flush ended, when nothing is owed.
LEMMA AbortsKeeps == ASSUME WaitsInv, Aborts PROVE WaitsInv'
<1> DEFINE W == {w \in Waits : Pending(w)}
<1>1. /\ life = "flushed" /\ life' = "closed" /\ UNCHANGED <<job, drops>>
      /\ EndCalls(W, "closed")
  BY DEF Aborts
<1>2. \A w \in W : ~wait[w].owed
  BY <1>1, LifeIs
<1>3. \A w \in Waits : ~Owed(wait[w])
  BY <1>1, LifeIs
<1> HIDE DEF W
<1>4. W \in SUBSET Waits /\ "closed" \in Answers
  BY DEF W, Answers
<1> QED
  BY <1>1, <1>2, <1>3, <1>4, EndsCalls DEF Lives

\* Calls told the outcome, or an error of their own.
LEMMA ToldKeeps ==
  ASSUME WaitsInv, NEW W \in SUBSET Waits, EndCalls(W, "told"), UNCHANGED <<job, life, drops>>
  PROVE  WaitsInv'
<1>1. "told" \in Answers
  BY DEF Answers
<1> QED
  BY <1>1, LifeIs, EndsCalls

\* The first read fails.
LEMMA ReadFailsKeeps == ASSUME WaitsInv, NEW w \in Waits, ReadFails(w) PROVE WaitsInv'
BY ToldKeeps DEF ReadFails, EndsCall

\* A call times out, or a worker closes.
LEMMA TimesOutKeeps == ASSUME WaitsInv, NEW w \in Waits, TimesOut(w) PROVE WaitsInv'
BY ToldKeeps DEF TimesOut, EndsCall

\* What comes to a call is on its way to it.
LEMMA ComesOnItsWay ==
  ASSUME WaitsInv, NEW w \in Waits, Owed(wait[w])
  PROVE  OnItsWay(w)
BY DEF WaitsInv, OwedSound, Comes, Ahead, OnItsWay, SubscriberOf, EventOf

\* A re-read believes that there is no job when no event is on its way: nothing is owed.
LEMMA RereadKeeps == ASSUME WaitsInv, NEW w \in Waits, Reread(w) PROVE WaitsInv'
<1> DEFINE place == job[ChannelOf[w]]
<1>1. /\ wait[w].at \in {"read", "flush", "wait"} /\ (wait[w].absent => ~OnItsWay(w))
      /\ UNCHANGED <<job, life, drops>>
      /\ \/ \E b \in BOOLEAN : wait' = [wait EXCEPT ![w].absent = b] /\ Stays
         \/ EndCalls({w}, "told")
         \/ EndCalls({w}, "not found") /\ place \notin {"kept", "there"} /\ wait[w].absent
  <2>1. place \in {"there", "kept", "gone"}
    BY LifeIs, Parts
  <2> QED
    BY <2>1 DEF Reread, Believed
<1>2. ASSUME NEW b \in BOOLEAN, wait' = [wait EXCEPT ![w].absent = b], Stays
      PROVE  WaitsInv'
  <2>1. wait[w] \in CallStates
    BY LifeIs
  <2>2. /\ wait'[w] \in CallStates /\ wait'[w].at = wait[w].at /\ wait'[w].owed = wait[w].owed
        /\ wait'[w].answer = wait[w].answer /\ wait'[w].read = wait[w].read
        /\ wait' \in [Waits -> CallStates] /\ \A v \in Waits \ {w} : wait'[v] = wait[v]
    BY <1>2, <2>1, LifeIs DEF CallStates
  <2>3. CallSound(wait'[w], job'[ChannelOf[w]])
    BY <1>1, <2>2, Parts, LifeIs DEF CallSound
  <2> QED
    BY <1>1, <1>2, <2>2, <2>3, LifeIs, Parts, StaysHold DEF Owed
<1>3. CASE EndCalls({w}, "not found") /\ wait[w].absent
  <2>1. ~wait[w].owed
    BY <1>1, <1>3, ComesOnItsWay, LifeIs DEF Pending
  <2>2. "not found" \in Answers
    BY DEF Answers
  <2> DEFINE W == {w}
  <2>3. W \in SUBSET Waits /\ EndCalls(W, "not found") /\ \A v \in W : ~wait[v].owed
    BY <1>3, <2>1
  <2>4. \A v \in Waits \ W : Owed(wait[v]) => life' \in {"open", "closing", "flushing"}
    BY <1>1, LifeIs
  <2> HIDE DEF W
  <2> QED
    BY <1>1, <2>2, <2>3, <2>4, LifeIs, EndsCalls
<1>4. CASE EndCalls({w}, "told")
  BY <1>1, <1>4, ToldKeeps
<1> QED
  BY <1>1, <1>2, <1>3, <1>4

\* A connection is open.
LEMMA OpenedKeeps == ASSUME WaitsInv, NEW h \in Subscribers, Opened(h) PROVE WaitsInv'
<1> DEFINE s == subscriber[h]
           t == [s EXCEPT !.conn = "open"]
<1>1. /\ s.conn = "opening" /\ subscriber' = [subscriber EXCEPT ![h] = t]
      /\ UNCHANGED <<job, shared, wait, life, drops>>
  BY Parts DEF Opened
<1>2. /\ t \in SubscriberStates /\ t.conn = "open" /\ t.closing = s.closing /\ t.pings = s.pings
      /\ t.in = s.in /\ t.of = s.of /\ t.heard = s.heard /\ t.cut = s.cut
  BY Parts DEF SubscriberStates
<1> HIDE DEF t
<1>3. SubscriberSound(t)
  BY <1>2, Parts DEF SubscriberSound, ChannelSound
<1>4. shared = h => ~s.closing
  BY DEF WaitsInv, SharedSound
<1>5. ConnectionMoves(h, t)
  BY <1>1, <1>2, <1>3, <1>4, Parts DEF ConnectionMoves, Pinged
<1>6. \A w \in Waits : Comes(w, s) => Comes(w, t)
  BY <1>2 DEF Comes
<1> QED
  BY <1>1, <1>5, <1>6, LifeIs, CallsStay

\* A connection that is over.
ClosedState == [NewState EXCEPT !.conn = "closed"]

\* Such a connection has no listener and nothing under way.
LEMMA ClosedIs ==
  /\ SubscriberSound(ClosedState) /\ ClosedState \in SubscriberStates /\ ClosedState.conn = "closed"
  /\ ~ClosedState.closing /\ ClosedState.pings = {} /\ ClosedState.in = <<>>
  /\ \A q \in Channels : ClosedState.of[q].who = {} /\ ClosedState.of[q].turns = <<>>
  /\ \A by : ~Pinged(ClosedState, by)
<1>1. NoChannel \in ChannelStates /\ NoChannel.who = {} /\ NoChannel.turns = <<>> /\ ~NoChannel.ran
  BY TurnsAre DEF NoChannel, ChannelStates
<1>2. /\ NewState \in SubscriberStates /\ ~NewState.closing /\ NewState.pings = {}
      /\ NewState.in = <<>> /\ NewState.of = [q \in Channels |-> NoChannel]
  <2>1. /\ [q \in Channels |-> NoChannel] \in [Channels -> ChannelStates]
        /\ <<>> \in Seq(Incoming) /\ "none" \in {"none", "opening", "open", "closed"}
    BY <1>1
  <2> QED
    BY <2>1 DEF SubscriberStates, NewState
<1>3. /\ ClosedState \in SubscriberStates /\ ClosedState.conn = "closed" /\ ~ClosedState.closing
      /\ ClosedState.pings = {} /\ ClosedState.in = <<>> /\ ClosedState.of = [q \in Channels |-> NoChannel]
  BY <1>2 DEF SubscriberStates, ClosedState
<1>5. \A m : ~Within(ClosedState.in, m)
  BY <1>3 DEF Within
<1>6. \A S : OnlyOnce(ClosedState.in, S)
  BY <1>3 DEF OnlyOnce
<1>7. \A q \in Channels : ClosedState.of[q].who = {} /\ ClosedState.of[q].turns = <<>> /\ ~ClosedState.of[q].ran
  BY <1>1, <1>3
<1>8. \A q \in Channels : ChannelSound(ClosedState, q)
  BY <1>5, <1>6, <1>7, TurnsAre DEF ChannelSound
<1>9. SubscriberSound(ClosedState)
  BY <1>3, <1>8 DEF SubscriberSound
<1> QED
  BY <1>3, <1>5, <1>7, <1>9 DEF Pinged

\* An open fails: who listens through it is told so.
LEMMA OpenFailsKeeps == ASSUME WaitsInv, NEW h \in Subscribers, OpenFails(h) PROVE WaitsInv'
<1>1. /\ subscriber' = [subscriber EXCEPT ![h] = ClosedState] /\ UNCHANGED <<job, life, drops>>
      /\ shared' = (IF shared = h THEN NoSubscriber ELSE shared)
      /\ wait' = [w \in Waits |->
           IF h \in SubscriberOf(w) /\ Pending(w) THEN OverWith(w, "told") ELSE wait[w]]
  BY DEF OpenFails, ClosedState
<1>2. "told" \in Answers
  BY DEF Answers
<1>3. ASSUME NEW w \in Waits
      PROVE  /\ wait'[w] \in CallStates /\ CallSound(wait'[w], job'[ChannelOf[w]])
             /\ wait'[w] = wait[w] \/ (wait'[w].at = "over" /\ ~Owed(wait'[w]))
             /\ w \in subscriber[h].of[ChannelOf[w]].who => wait'[w].at = "over"
  <2>1. CASE h \in SubscriberOf(w) /\ Pending(w)
    <3>1. wait'[w] = OverWith(w, "told")
      BY <1>1, <2>1
    <3> QED
      BY <3>1, <1>2, OverIs, Parts
  <2>2. CASE ~(h \in SubscriberOf(w) /\ Pending(w))
    <3>1. wait'[w] = wait[w]
      BY <1>1, <2>2
    <3>2. w \in subscriber[h].of[ChannelOf[w]].who => wait[w].at = "over"
      BY <2>2, Parts DEF SubscriberOf, Pending, PlaceSound
    <3> QED
      BY <1>1, <3>1, <3>2, Parts
  <2> QED
    BY <2>1, <2>2
<1>4. wait' \in [Waits -> CallStates]
  BY <1>1, <1>3
<1>5. NoSubscriber # h
  BY Parts
<1>6. ConnectionMoves(h, ClosedState)
  BY <1>1, <1>3, <1>5, ClosedIs DEF ConnectionMoves
<1>7. CallsMove(h, ClosedState)
  BY <1>1, <1>3, LifeIs DEF CallsMove, CallMoves, Owed
<1>8. WaitsTyped'
  <2>1. shared' \in {shared, NoSubscriber}
    BY <1>1
  <2> QED
    BY <1>1, <1>4, <2>1, ClosedIs DEF WaitsInv, WaitsTyped
<1> QED
  BY <1>1, <1>6, <1>7, <1>8, WaitsMove

\* The flush of the close ends with the connection its PING is on: nothing is
\* owed on another.
LEMMA FlushedByIs ==
  ASSUME WaitsInv, NEW h \in Subscribers
  PROVE  /\ FlushedBy(h) \in Lives
         /\ life \notin {"open", "closing"} => FlushedBy(h) \notin {"open", "closing"}
         /\ FlushedBy(h) = life
            \/ \A w \in Waits : Owed(wait[w]) => h \in SubscriberOf(w)
<1>1. FlushedBy(h) = life \/ (FlushedBy(h) = "flushed" /\ Pinged(subscriber[h], Life))
  BY DEF FlushedBy, Pinged, Within, PingOf
<1>2. ASSUME Pinged(subscriber[h], Life), NEW w \in Waits, Owed(wait[w])
      PROVE  h \in SubscriberOf(w)
  <2>1. PICK k \in Subscribers : w \in subscriber[k].of[ChannelOf[w]].who
    BY <1>2 DEF WaitsInv, OwedSound
  <2>2. k = h
    BY <1>2, <2>1, Parts DEF WaitsInv, CloseSound
  <2> QED
    BY <2>1, <2>2 DEF SubscriberOf
<1> QED
  BY <1>1, <1>2, LifeIs DEF Lives

\* A connection closes once nobody listens through it: it is not the shared one.
LEMMA CloseSubscriberKeeps ==
  ASSUME WaitsInv, NEW h \in Subscribers, CloseSubscriber(h) PROVE WaitsInv'
<1>1. /\ subscriber[h].closing /\ subscriber' = [subscriber EXCEPT ![h] = ClosedState]
      /\ life' = FlushedBy(h) /\ UNCHANGED <<job, shared, wait, drops>>
  BY DEF CloseSubscriber, ClosedState
<1>2. \A q \in Channels : subscriber[h].of[q].who = {}
  BY <1>1, Parts DEF SubscriberSound
<1>3. \A w \in Waits : h \notin SubscriberOf(w) /\ w \notin subscriber[h].of[ChannelOf[w]].who
  BY <1>2, Parts DEF SubscriberOf
<1>4. shared # h
  BY <1>1 DEF WaitsInv, SharedSound
<1>5. ConnectionMoves(h, ClosedState)
  BY <1>1, <1>3, <1>4, ClosedIs DEF ConnectionMoves
<1>6. CallsMove(h, ClosedState)
  BY <1>1, <1>3, FlushedByIs, LifeIs, Parts DEF CallsMove, CallMoves
<1>7. WaitsTyped'
  BY <1>1, ClosedIs, FlushedByIs DEF WaitsInv, WaitsTyped, Lives
<1> QED
  BY <1>1, <1>5, <1>6, <1>7, FlushedByIs, WaitsMove

\* What a connection receives is one of three.
LEMMA IncomingIs ==
  /\ \A q \in Channels : EventOf(q) \in Incoming
  /\ \A by \in Waits \cup {Life} : PingOf(by) \in Incoming
  /\ \A q \in Channels : AnswersOf(q) \subseteq Incoming
  /\ \A m \in Incoming : \/ \E q \in Channels : m = EventOf(q)
                         \/ \E by \in Waits \cup {Life} : m = PingOf(by)
                         \/ \E q \in Channels : m \in AnswersOf(q)
BY DEF Incoming

\* Redis runs the command a channel is at.
TurnRan(s, q) ==
  [s EXCEPT !.of[q].ran = TRUE, !.in = Append(@, <<Head(s.of[q].turns), q>>),
            !.heard = IF Head(s.of[q].turns) = "subscribe" THEN @ \cup {q} ELSE @ \ {q}]

\* Its answer is the one the channel has, and the channel is heard from then on.
LEMMA TurnRuns ==
  ASSUME NEW s, SubscriberSound(s), s.conn = "open", NEW q \in Channels,
         s.of[q].turns # <<>>, ~s.of[q].ran, NEW t, t = TurnRan(s, q)
  PROVE  /\ SubscriberSound(t) /\ t.conn = "open" /\ t.closing = s.closing /\ t.pings = s.pings
         /\ \A r \in Channels : t.of[r].who = s.of[r].who /\ t.of[r].turns = s.of[r].turns
         /\ \A by : Within(t.in, PingOf(by)) => Within(s.in, PingOf(by))
         /\ \A w : Comes(w, s) => Comes(w, t)
<1> DEFINE c == Head(s.of[q].turns)
<1>1. /\ s \in SubscriberStates /\ \A r \in Channels : s.of[r] \in ChannelStates /\ ChannelSound(s, r)
      /\ \A r \in Channels : s.of[r].turns \in TurnsOf
      /\ s.in \in Seq(Incoming)
  BY DEF SubscriberSound, SubscriberStates, ChannelStates
<1>2. c \in {"subscribe", "unsubscribe"}
  BY <1>1, TurnsAre
<1>3. AnswerTo(c, q) \in Incoming /\ AnswerTo(c, q) \in AnswersOf(q)
  BY <1>2, AnswersApart, IncomingIs
<1>4. <<c, q>> = AnswerTo(c, q)
  BY DEF AnswerTo
<1> HIDE DEF c
<1>5. /\ t.conn = s.conn /\ t.closing = s.closing /\ t.pings = s.pings /\ t.cut = s.cut
      /\ t.in = Append(s.in, AnswerTo(c, q))
      /\ t.heard = IF c = "subscribe" THEN s.heard \cup {q} ELSE s.heard \ {q}
      /\ t.of = [s.of EXCEPT ![q].ran = TRUE]
  BY <1>1, <1>4 DEF SubscriberStates, TurnRan, c
<1>14. /\ t.of[q] = [s.of[q] EXCEPT !.ran = TRUE]
       /\ \A r \in Channels \ {q} : t.of[r] = s.of[r]
  BY <1>1, <1>5 DEF SubscriberStates
<1>15. t.of[q].who = s.of[q].who /\ t.of[q].turns = s.of[q].turns /\ t.of[q].ran = TRUE
       /\ t.of[q] \in ChannelStates
  BY <1>1, <1>14 DEF ChannelStates
<1>6. /\ \A r \in Channels : t.of[r].who = s.of[r].who /\ t.of[r].turns = s.of[r].turns
      /\ \A r \in Channels \ {q} : t.of[r].ran = s.of[r].ran
      /\ t.of[q].ran = TRUE /\ t.of \in [Channels -> ChannelStates]
  BY <1>1, <1>5, <1>14, <1>15 DEF SubscriberStates
<1>7. /\ t.in \in Seq(Incoming)
      /\ \A m : Within(t.in, m) <=> Within(s.in, m) \/ m = AnswerTo(c, q)
      /\ \A S : OnlyOnce(s.in, S) /\ AnswerTo(c, q) \notin S => OnlyOnce(t.in, S)
      /\ \A S : (\A m \in S : ~Within(s.in, m)) => OnlyOnce(t.in, S)
      /\ \A m, S : Ahead(s.in, m, S) => Ahead(t.in, m, S)
  BY <1>1, <1>3, <1>5, AppendWithin
<1>8. t \in SubscriberStates
  <2>2. t.heard \in SUBSET Channels
    BY <1>1, <1>5 DEF SubscriberStates
  <2>3. t = [s EXCEPT !.of = t.of, !.in = t.in, !.heard = t.heard]
    BY <1>1, <1>4 DEF TurnRan, SubscriberStates
  <2> QED
    BY <1>1, <1>6, <1>7, <2>2, <2>3 DEF SubscriberStates
<1>9. ASSUME NEW r \in Channels \ {q} PROVE ChannelSound(t, r)
  <2>1. \A d \in {"subscribe", "unsubscribe"} :
          AnswerTo(d, r) # AnswerTo(c, q) /\ AnswerTo(c, q) \notin AnswersOf(r)
    BY AnswersApart, MessagesApart
  <2>2. r \in t.heard <=> r \in s.heard
    BY <1>5
  <2> QED
    BY <1>1, <1>5, <1>7, <1>14, <2>1, <2>2, AnswersApart DEF ChannelSound
<1>10. ChannelSound(t, q)
  <2>1. \A d \in {"subscribe", "unsubscribe"} : ~Within(s.in, AnswerTo(d, q))
    BY <1>1 DEF ChannelSound
  <2>2. OnlyOnce(t.in, AnswersOf(q))
    BY <1>7, <2>1, AnswersApart
  <2>3. \A d \in {"subscribe", "unsubscribe"} : Within(t.in, AnswerTo(d, q)) => d = c
    BY <1>7, <2>1, MessagesApart
  <2>4. s.of[q].turns = <<"subscribe">> => q \in t.heard
    BY <1>5 DEF c
  <2> QED
    BY <1>1, <1>5, <1>6, <2>2, <2>3, <2>4 DEF ChannelSound, c
<1>11. SubscriberSound(t)
  BY <1>5, <1>6, <1>8, <1>9, <1>10 DEF SubscriberSound
<1>12. ASSUME NEW by, Within(t.in, PingOf(by)) PROVE Within(s.in, PingOf(by))
  <2>1. PingOf(by) # AnswerTo(c, q)
    BY <1>3, MessagesApart
  <2> QED
    BY <1>7, <1>12, <2>1
<1>13. \A w : Comes(w, s) => Comes(w, t)
  BY <1>7 DEF Comes
<1> QED
  BY <1>5, <1>6, <1>11, <1>12, <1>13

\* Redis runs a SUBSCRIBE or an UNSUBSCRIBE: its answer is behind what is owed.
LEMMA RunTurnKeeps ==
  ASSUME WaitsInv, NEW h \in Subscribers, NEW q \in Channels, RunTurn(h, q) PROVE WaitsInv'
<1> DEFINE s == subscriber[h]
           t == TurnRan(s, q)
<1>1. /\ s.conn = "open" /\ s.of[q].turns # <<>> /\ ~s.of[q].ran
      /\ UNCHANGED <<job, shared, wait, life, drops>>
  BY DEF RunTurn
<1>2. subscriber' = [subscriber EXCEPT ![h] = t]
  BY DEF RunTurn, TurnRan
<1>3. /\ SubscriberSound(t) /\ t.conn = "open" /\ t.closing = s.closing /\ t.pings = s.pings
      /\ \A r \in Channels : t.of[r].who = s.of[r].who /\ t.of[r].turns = s.of[r].turns
      /\ \A by : Within(t.in, PingOf(by)) => Within(s.in, PingOf(by))
      /\ \A w : Comes(w, s) => Comes(w, t)
  BY <1>1, Parts, TurnRuns
<1> HIDE DEF t
<1>4. shared = h => ~s.closing
  BY DEF WaitsInv, SharedSound
<1>5. ConnectionMoves(h, t)
  BY <1>1, <1>2, <1>3, <1>4, Parts DEF ConnectionMoves, Pinged
<1> QED
  BY <1>1, <1>3, <1>5, LifeIs, CallsStay

\* Redis runs a PING: its answer is behind what is owed.
LEMMA RunPingKeeps ==
  ASSUME WaitsInv, NEW h \in Subscribers, NEW by \in Waits \cup {Life}, RunPing(h, by)
  PROVE  WaitsInv'
<1> DEFINE s == subscriber[h]
           t == [s EXCEPT !.pings = @ \ {by}, !.in = Append(@, <<"ping", by>>)]
<1>1. /\ s.conn = "open" /\ by \in s.pings /\ subscriber' = [subscriber EXCEPT ![h] = t]
      /\ UNCHANGED <<job, shared, wait, life, drops>>
  BY DEF RunPing
<1>2. <<"ping", by>> = PingOf(by) /\ PingOf(by) \in Incoming
  BY IncomingIs DEF PingOf
<1>3. /\ t.conn = s.conn /\ t.closing = s.closing /\ t.pings = s.pings \ {by} /\ t.cut = s.cut
      /\ t.in = Append(s.in, PingOf(by)) /\ t.heard = s.heard /\ t.of = s.of
  BY <1>2, Parts DEF SubscriberStates
<1>4. /\ t.in \in Seq(Incoming)
      /\ \A m : Within(t.in, m) <=> Within(s.in, m) \/ m = PingOf(by)
      /\ \A S : OnlyOnce(s.in, S) /\ PingOf(by) \notin S => OnlyOnce(t.in, S)
      /\ \A m, S : Ahead(s.in, m, S) => Ahead(t.in, m, S)
  BY <1>2, <1>3, Parts, AppendWithin
<1>5. t \in SubscriberStates
  BY <1>2, <1>3, <1>4, Parts DEF SubscriberStates
<1> HIDE DEF t
<1>6. \A q \in Channels : \A c : AnswerTo(c, q) \in AnswersOf(q) => PingOf(by) # AnswerTo(c, q)
  BY MessagesApart
<1>7. \A q \in Channels : ChannelSound(t, q)
  BY <1>3, <1>4, <1>6, Parts, MessagesApart, AnswersApart DEF ChannelSound
<1>8. SubscriberSound(t)
  BY <1>1, <1>3, <1>5, <1>7, Parts DEF SubscriberSound
<1>9. \A b : Pinged(t, b) => Pinged(s, b)
  BY <1>1, <1>3, <1>4, MessagesApart DEF Pinged
<1>10. shared = h => ~s.closing
  BY DEF WaitsInv, SharedSound
<1>11. ConnectionMoves(h, t)
  BY <1>1, <1>3, <1>8, <1>9, <1>10, Parts DEF ConnectionMoves
<1>12. \A w \in Waits : Comes(w, s) => Comes(w, t)
  BY <1>4 DEF Comes
<1> QED
  BY <1>1, <1>11, <1>12, LifeIs, CallsStay

\* A connection loses what is under way, and perhaps calls that unlisten.
LEMMA NearsKeeps ==
  ASSUME WaitsInv, NEW h \in Subscribers, NEW s, Nears(s, h), CallsMove(h, s),
         wait' \in [Waits -> CallStates], UNCHANGED job, drops' \in 0 .. MaxDrops, life' \in Lives,
         life \notin {"open", "closing"} => life' \notin {"open", "closing"},
         \/ subscriber' = [subscriber EXCEPT ![h] = s] /\ UNCHANGED shared
         \/ \E U \in SUBSET Waits :
              /\ Unlisten(h, s, U) /\ \A w \in U : wait'[w].at = "over"
              /\ \A q \in Channels, w \in U : w \in s.of[q].who => s.of[q].turns = <<>>
  PROVE  WaitsInv'
<1>1. ASSUME NEW t, ConnectionMoves(h, t), CallsMove(h, t)
      PROVE  WaitsInv'
  <2>1. shared' \in {shared, NoSubscriber}
    BY <1>1 DEF ConnectionMoves
  <2>2. subscriber' = [subscriber EXCEPT ![h] = t] /\ t \in SubscriberStates
    BY <1>1 DEF ConnectionMoves, SubscriberSound
  <2>3. WaitsTyped'
    BY <2>1, <2>2 DEF WaitsInv, WaitsTyped, Lives
  <2> QED
    BY <1>1, <2>3, WaitsMove
<1>2. CASE subscriber' = [subscriber EXCEPT ![h] = s] /\ UNCHANGED shared
  <2>1. shared = h => ~subscriber[h].closing
    BY DEF WaitsInv, SharedSound
  <2>2. ConnectionMoves(h, s)
    BY <1>2, <2>1, Parts DEF ConnectionMoves, Nears
  <2> QED
    BY <1>1, <2>2
<1>3. ASSUME NEW U \in SUBSET Waits, Unlisten(h, s, U), \A w \in U : wait'[w].at = "over",
             \A q \in Channels, w \in U : w \in s.of[q].who => s.of[q].turns = <<>>
      PROVE  WaitsInv'
  <2> DEFINE t == Left(s, U)
  <2>1. /\ ConnectionMoves(h, t) /\ LeavesAs(s, U, t)
        /\ \A w \in Waits : Comes(w, t) <=> Comes(w, s)
    BY <1>3, UnlistenMoves
  <2> HIDE DEF t
  <2>2. \A w \in Waits : w \in t.of[ChannelOf[w]].who =>
          /\ w \in s.of[ChannelOf[w]].who
          /\ t.of[ChannelOf[w]].turns = s.of[ChannelOf[w]].turns
    BY <2>1, Parts DEF LeavesAs
  <2>3. CallsMove(h, t)
    BY <2>1, <2>2 DEF CallsMove, CallMoves
  <2> QED
    BY <1>1, <2>1, <2>3
<1> QED
  BY <1>2, <1>3

\* A message is received.
Received(h) == [subscriber[h] EXCEPT !.in = Tail(@)]

\* What is owed is then still on its way, unless the message is the outcome itself.
LEMMA ReceivedIs ==
  ASSUME WaitsInv, NEW h \in Subscribers, subscriber[h].in # <<>>
  PROVE  /\ Nears(Received(h), h) /\ Received(h) \in SubscriberStates
         /\ Received(h).heard = subscriber[h].heard /\ Received(h).cut = subscriber[h].cut
         /\ Received(h).of = subscriber[h].of /\ Received(h).in = Tail(subscriber[h].in)
         /\ Head(subscriber[h].in) \in Incoming
         /\ Within(subscriber[h].in, Head(subscriber[h].in))
         /\ \A w \in Waits : Comes(w, subscriber[h]) =>
              /\ Head(subscriber[h].in) \notin {PingOf(w), PingOf(Life)}
              /\ Head(subscriber[h].in) # EventOf(ChannelOf[w]) => Comes(w, Received(h))
<1> DEFINE s == subscriber[h]
           t == Received(h)
<1>1. /\ Tail(s.in) \in Seq(Incoming) /\ Head(s.in) \in Incoming /\ Within(s.in, Head(s.in))
      /\ \A m : Within(Tail(s.in), m) => Within(s.in, m)
      /\ \A S : OnlyOnce(s.in, S) => OnlyOnce(Tail(s.in), S)
      /\ \A m, S : Ahead(s.in, m, S) => Head(s.in) \notin S
      /\ \A m, S : Ahead(s.in, m, S) /\ Head(s.in) # m => Ahead(Tail(s.in), m, S)
  BY Parts, TailWithin
<1>2. /\ t.conn = s.conn /\ t.closing = s.closing /\ t.pings = s.pings /\ t.cut = s.cut
      /\ t.in = Tail(s.in) /\ t.heard = s.heard /\ t.of = s.of /\ t \in SubscriberStates
  BY <1>1, Parts DEF SubscriberStates, Received
<1>3. s.conn # "none"
  <2>1. NewState.in = <<>>
    BY DEF NewState
  <2> QED
    BY <2>1, Parts DEF SubscriberSound
<1> HIDE DEF t
<1>4. \A q \in Channels : ChannelSound(t, q)
  BY <1>1, <1>2, Parts DEF ChannelSound
<1>5. SubscriberSound(t)
  BY <1>2, <1>3, <1>4, Parts DEF SubscriberSound
<1>6. Nears(t, h)
  BY <1>1, <1>2, <1>3, <1>5 DEF Nears, Pinged
<1>7. \A w \in Waits : Comes(w, s) =>
        /\ Head(s.in) \notin {PingOf(w), PingOf(Life)}
        /\ Head(s.in) # EventOf(ChannelOf[w]) => Comes(w, t)
  BY <1>1, <1>2 DEF Comes
<1> QED
  BY <1>1, <1>2, <1>6, <1>7 DEF t

\* The outcome is heard: every pending call that is owed it is told it.
LEMMA EventHeardKeeps ==
  ASSUME WaitsInv, NEW h \in Subscribers, NEW q \in Channels, subscriber[h].in # <<>>,
         Head(subscriber[h].in) = EventOf(q), EventHeard(h, q), UNCHANGED <<job, drops>>
  PROVE  WaitsInv'
<1> DEFINE s == Received(h)
           W == {w \in subscriber[h].of[q].who \ Workers : Pending(w)}
<1>1. /\ wait' = [w \in Waits |-> IF w \in W THEN OverWith(w, "told") ELSE wait[w]]
      /\ IF Ready(s, q) THEN Unlisten(h, s, W)
         ELSE subscriber' = [subscriber EXCEPT ![h] = s] /\ UNCHANGED shared
      /\ UNCHANGED life
  BY DEF EventHeard, Received
<1>2. "told" \in Answers
  BY DEF Answers
<1>3. W \in SUBSET Waits
  BY Parts
<1>4. ASSUME NEW w \in Waits, w \in W
      PROVE  wait'[w] \in CallStates /\ wait'[w].at = "over" /\ ~Owed(wait'[w])
             /\ CallSound(wait'[w], job[ChannelOf[w]])
  BY <1>1, <1>2, <1>4, OverIs, Parts
<1>5. \A w \in Waits : w \notin W => wait'[w] = wait[w]
  BY <1>1
<1>6. wait' \in [Waits -> CallStates]
  BY <1>1, <1>4, <1>5, LifeIs
<1>7. ASSUME NEW w \in Waits, Owed(wait'[w]), w \in subscriber[h].of[ChannelOf[w]].who,
             Comes(w, subscriber[h])
      PROVE  Comes(w, s)
  <2>1. Owed(wait[w]) /\ w \notin W
    BY <1>4, <1>5, <1>7
  <2>2. w \notin Workers /\ Pending(w)
    BY <2>1 DEF WaitsInv, OwedSound, Owed, Pending
  <2>3. ChannelOf[w] # q
    BY <1>7, <2>1, <2>2
  <2>4. EventOf(ChannelOf[w]) # EventOf(q)
    BY <2>3, MessagesApart
  <2> QED
    BY <1>7, <2>4, ReceivedIs
<1>8. CallsMove(h, s)
  BY <1>1, <1>4, <1>5, <1>7, Parts, LifeIs DEF CallsMove, CallMoves
<1>9. Nears(s, h) /\ s.of = subscriber[h].of
  BY ReceivedIs
<1>10. ASSUME Ready(s, q), NEW r \in Channels, NEW w \in W, w \in s.of[r].who
       PROVE  s.of[r].turns = <<>>
  <2>1. r = q
    BY <1>3, <1>9, <1>10, Parts DEF ChannelSound
  <2> QED
    BY <1>9, <1>10, <2>1, ReadyIs DEF Nears
<1> HIDE DEF W, s
<1>11. drops' \in 0 .. MaxDrops
  BY DEF WaitsInv, WaitsTyped
<1> QED
  BY <1>1, <1>3, <1>4, <1>6, <1>8, <1>9, <1>10, <1>11, LifeIs, NearsKeeps

\* The command a channel is at is answered.
TurnDone(h, q) ==
  [subscriber[h] EXCEPT
     !.in = Tail(@), !.cut = @ \ {q}, !.of[q].turns = Tail(@), !.of[q].ran = FALSE]

\* The answer was of the command the channel was at, the only one.
LEMMA TurnDoneIs ==
  ASSUME WaitsInv, NEW h \in Subscribers, NEW q \in Channels, subscriber[h].in # <<>>,
         Head(subscriber[h].in) \in AnswersOf(q)
  PROVE  /\ Nears(TurnDone(h, q), h)
         /\ \A w \in Waits : Comes(w, subscriber[h]) => Comes(w, TurnDone(h, q))
<1> DEFINE s == subscriber[h]
           t == TurnDone(h, q)
<1>1. PICK c \in {"subscribe", "unsubscribe"} : Head(s.in) = AnswerTo(c, q)
  BY AnswersApart
<1>2. s.of[q].ran /\ c = Head(s.of[q].turns) /\ s.of[q].turns # <<>>
  BY <1>1, ReceivedIs, Parts DEF ChannelSound
<1>3. /\ Tail(s.in) \in Seq(Incoming)
      /\ \A m : Within(Tail(s.in), m) => Within(s.in, m)
      /\ \A S : OnlyOnce(s.in, S) => OnlyOnce(Tail(s.in), S)
      /\ \A S : OnlyOnce(s.in, S) /\ Head(s.in) \in S => \A m \in S : ~Within(Tail(s.in), m)
      /\ \A m, S : Ahead(s.in, m, S) /\ Head(s.in) # m => Ahead(Tail(s.in), m, S)
  BY Parts, TailWithin
<1>4. s.conn # "none"
  BY ReceivedIs DEF Nears, Received, SubscriberStates
<1>5. /\ s \in SubscriberStates /\ s.of[q] \in ChannelStates /\ Tail(s.of[q].turns) \in TurnsOf
      /\ Tail(s.of[q].turns) # <<"unsubscribe">>
      /\ Tail(s.of[q].turns) \in Subscribing => s.of[q].turns \in Subscribing
      /\ Tail(s.of[q].turns) = <<>> => s.of[q].turns \in {<<"subscribe">>, <<"unsubscribe">>}
  BY <1>2, Parts, TurnsAre
<1>6. /\ t.conn = s.conn /\ t.closing = s.closing /\ t.pings = s.pings /\ t.cut = s.cut \ {q}
      /\ t.in = Tail(s.in) /\ t.heard = s.heard
      /\ t.of = [s.of EXCEPT ![q].turns = Tail(@), ![q].ran = FALSE]
  BY <1>5 DEF SubscriberStates, TurnDone
<1>7. /\ t.of[q] = [s.of[q] EXCEPT !.turns = Tail(@), !.ran = FALSE]
      /\ \A r \in Channels \ {q} : t.of[r] = s.of[r]
  BY <1>5, <1>6 DEF SubscriberStates
<1>8. /\ t.of[q].who = s.of[q].who /\ t.of[q].turns = Tail(s.of[q].turns) /\ t.of[q].ran = FALSE
      /\ t.of[q] \in ChannelStates
  BY <1>5, <1>7 DEF ChannelStates
<1>9. t.of \in [Channels -> ChannelStates]
  BY <1>5, <1>6, <1>7, <1>8 DEF SubscriberStates
<1>10. t \in SubscriberStates
  <2>1. t = [s EXCEPT !.in = t.in, !.cut = t.cut, !.of = t.of]
    BY <1>5, <1>6 DEF SubscriberStates, TurnDone
  <2>2. t.cut \in SUBSET Channels /\ t.in \in Seq(Incoming)
    BY <1>3, <1>5, <1>6 DEF SubscriberStates
  <2> QED
    BY <1>5, <1>9, <2>1, <2>2 DEF SubscriberStates
<1> HIDE DEF t
<1>11. ASSUME NEW r \in Channels \ {q} PROVE ChannelSound(t, r)
  <2>1. r \in t.heard \cup t.cut <=> r \in s.heard \cup s.cut
    BY <1>6
  <2>2. ChannelSound(s, r) /\ t.of[r] = s.of[r] /\ t.heard = s.heard
    BY <1>6, <1>7, Parts
  <2>3. /\ \A m : Within(t.in, m) => Within(s.in, m)
        /\ \A S : OnlyOnce(s.in, S) => OnlyOnce(t.in, S)
    BY <1>3, <1>6
  <2> HIDE DEF s
  <2> QED
    BY <2>1, <2>2, <2>3 DEF ChannelSound
<1>12. ChannelSound(t, q)
  <2>1. ChannelSound(s, q)
    BY Parts
  <2>2. \A d \in {"subscribe", "unsubscribe"} : ~Within(t.in, AnswerTo(d, q))
    BY <1>3, <1>6, <2>1, AnswersApart DEF ChannelSound
  <2>3. t.of[q].turns = <<>> /\ t.of[q].who # {} => q \in t.heard
    BY <1>2, <1>5, <1>6, <1>8, <2>1 DEF ChannelSound
  <2>4. OnlyOnce(t.in, AnswersOf(q))
    BY <1>3, <1>6, <2>1 DEF ChannelSound
  <2> QED
    BY <1>5, <1>8, <2>1, <2>2, <2>3, <2>4 DEF ChannelSound
<1>13. t.closing => \A r \in Channels : t.of[r].who = {}
  <2>1. t.closing => \A r \in Channels : s.of[r].who = {}
    BY <1>6, Parts DEF SubscriberSound
  <2>2. \A r \in Channels : t.of[r].who = s.of[r].who
    BY <1>7, <1>8
  <2> QED
    BY <2>1, <2>2
<1>14. SubscriberSound(t)
  BY <1>4, <1>6, <1>10, <1>11, <1>12, <1>13 DEF SubscriberSound
<1>15. \A r \in Channels : t.of[r].who = s.of[r].who /\ (s.of[r].turns = <<>> => t.of[r].turns = <<>>)
  BY <1>2, <1>7, <1>8
<1>16. Nears(t, h)
  BY <1>3, <1>4, <1>6, <1>14, <1>15 DEF Nears, Pinged
<1>17. \A w \in Waits : Comes(w, s) => Comes(w, t)
  <2>1. \A w : AnswerTo(c, q) # EventOf(ChannelOf[w])
    BY <1>1, AnswersApart, MessagesApart
  <2> QED
    BY <1>1, <1>3, <1>6, <2>1 DEF Comes
<1> QED
  BY <1>16, <1>17 DEF t

\* A SUBSCRIBE or an UNSUBSCRIBE is answered: the listens that waited go on.
LEMMA TurnAnsweredKeeps ==
  ASSUME WaitsInv, NEW h \in Subscribers, NEW q \in Channels, subscriber[h].in # <<>>,
         Head(subscriber[h].in) \in AnswersOf(q), TurnAnswered(h, q), UNCHANGED <<job, drops>>
  PROVE  WaitsInv'
<1> DEFINE s == TurnDone(h, q)
           W == {w \in s.of[q].who : wait[w].at = "listen"}
           U == {w \in s.of[q].who : wait[w].at = "over"}
<1>1. /\ IF Ready(s, q)
         THEN /\ wait' = [w \in Waits |->
                   IF w \in W THEN [wait[w] EXCEPT !.at = Goes(w)] ELSE wait[w]]
              /\ Unlisten(h, s, U)
         ELSE subscriber' = [subscriber EXCEPT ![h] = s] /\ UNCHANGED <<shared, wait>>
      /\ UNCHANGED life
  BY DEF TurnAnswered, TurnDone
<1>2. /\ Nears(s, h) /\ SubscriberSound(s)
      /\ \A w \in Waits : Comes(w, subscriber[h]) => Comes(w, s)
  BY TurnDoneIs DEF Nears
<1>3. W \subseteq s.of[q].who /\ U \subseteq s.of[q].who /\ s.of[q].who = subscriber[h].of[q].who
      /\ s.of[q].who \subseteq Waits
  BY <1>2, Parts DEF Nears
<1>4. \A w \in W : wait[w].at = "listen"
  OBVIOUS
<1>5. \A w \in U : wait[w].at = "over" /\ w \notin W
  OBVIOUS
<1>6. drops' \in 0 .. MaxDrops
  BY DEF WaitsInv, WaitsTyped
<1> HIDE DEF s, W, U
<1>7. CASE Ready(s, q)
  <2>1. s.of[q].turns = <<>> /\ s.of[q].who # {}
    BY <1>2, <1>7, ReadyIs
  <2>2. ASSUME NEW w \in Waits, w \in W
        PROVE  /\ wait'[w] \in CallStates /\ wait'[w].at \in {"read", "wait"}
               /\ wait'[w].owed = wait[w].owed
               /\ CallSound(wait'[w], job[ChannelOf[w]]) /\ ChannelOf[w] = q
    <3>1. wait'[w] = [wait[w] EXCEPT !.at = Goes(w)] /\ wait[w] \in CallStates
      BY <1>1, <1>7, <2>2, Parts
    <3>2. Goes(w) \in {"read", "wait"}
      BY DEF Goes
    <3>3. /\ wait'[w] \in CallStates /\ wait'[w].at = Goes(w) /\ wait'[w].owed = wait[w].owed
          /\ wait'[w].answer = wait[w].answer /\ wait'[w].read = wait[w].read
      BY <3>1, <3>2 DEF CallStates
    <3>4. CallSound(wait[w], job[ChannelOf[w]]) /\ wait[w].at = "listen"
      BY <1>4, <2>2, Parts
    <3>5. CallSound(wait'[w], job[ChannelOf[w]])
      BY <3>2, <3>3, <3>4 DEF CallSound
    <3>6. ChannelOf[w] = q
      BY <1>3, <2>2, Parts DEF ChannelSound
    <3> QED
      BY <3>2, <3>3, <3>5, <3>6
  <2>3. \A w \in Waits : w \notin W => wait'[w] = wait[w]
    BY <1>1, <1>7
  <2>4. wait' \in [Waits -> CallStates]
    BY <1>1, <1>7, <2>2, <2>3, LifeIs
  <2>5. ASSUME NEW w \in W, NEW k \in Subscribers \ {h}
        PROVE  w \notin subscriber[k].of[ChannelOf[w]].who
    BY <1>3, <2>1, <2>5, Parts DEF WaitsInv, SharedSound
  <2>6. \A w \in Waits : CallSound(wait'[w], job'[ChannelOf[w]]) /\ CallMoves(w, h, s)
    BY <1>4, <2>1, <2>2, <2>3, <2>5, Parts DEF CallMoves
  <2>7. \A w \in Waits : Owed(wait'[w]) => Owed(wait[w])
    BY <1>4, <2>2, <2>3 DEF Owed
  <2>8. CallsMove(h, s)
    BY <1>1, <1>2, <2>6, <2>7, LifeIs DEF CallsMove
  <2>9. \A r \in Channels, w \in U : w \in s.of[r].who => s.of[r].turns = <<>>
    BY <1>2, <1>3, <2>1 DEF SubscriberSound, ChannelSound
  <2>10. \A w \in U : wait'[w].at = "over"
    BY <1>3, <1>5, <2>3
  <2> QED
    BY <1>1, <1>2, <1>3, <1>6, <1>7, <2>4, <2>8, <2>9, <2>10, LifeIs, NearsKeeps
<1>8. CASE ~Ready(s, q)
  <2>1. CallsMove(h, s)
    BY <1>1, <1>2, <1>8, Parts, LifeIs DEF CallsMove, CallMoves
  <2> QED
    BY <1>1, <1>2, <1>6, <1>8, <2>1, LifeIs, NearsKeeps
<1> QED
  BY <1>7, <1>8

\* A PING is answered: what was owed to who asked for it came before.
LEMMA PongedKeeps ==
  ASSUME WaitsInv, NEW h \in Subscribers, NEW by \in Waits \cup {Life}, subscriber[h].in # <<>>,
         Head(subscriber[h].in) = PingOf(by), Ponged(h, by), UNCHANGED <<job, drops>>
  PROVE  WaitsInv'
<1> DEFINE s == Received(h)
<1>1. Nears(s, h) /\ s.of = subscriber[h].of /\ Pinged(subscriber[h], by)
  BY ReceivedIs DEF Pinged
<1>2. \A w \in Waits : Comes(w, subscriber[h]) => by # Life /\ by # w
  BY ReceivedIs
<1>3. \A w \in Waits : Comes(w, subscriber[h]) => Comes(w, s)
  BY ReceivedIs, MessagesApart
<1>4. ASSUME NEW w \in Waits, Owed(wait[w])
      PROVE  \E k \in Subscribers : /\ w \in subscriber[k].of[ChannelOf[w]].who
                                    /\ Comes(w, subscriber[k])
  BY <1>4 DEF WaitsInv, OwedSound
<1>5. drops' \in 0 .. MaxDrops
  BY DEF WaitsInv, WaitsTyped
<1>6. CASE by = Life
  <2>1. /\ life' = (IF life = "flushing" THEN "flushed" ELSE life)
        /\ subscriber' = [subscriber EXCEPT ![h] = s] /\ UNCHANGED <<shared, wait>>
    BY <1>6 DEF Ponged, Received
  <2>2. \A w \in Waits : ~Owed(wait[w])
    BY <1>1, <1>2, <1>4, <1>6, Parts DEF WaitsInv, CloseSound
  <2>3. life' \in Lives /\ (life \notin {"open", "closing"} => life' \notin {"open", "closing"})
    BY <2>1, LifeIs DEF Lives
  <2> HIDE DEF s
  <2>4. CallsMove(h, s)
    BY <2>1, <2>2, Parts DEF CallsMove, CallMoves
  <2> QED
    BY <1>1, <1>5, <2>1, <2>3, <2>4, LifeIs, NearsKeeps
<1>7. CASE by # Life /\ wait[by].at = "flush"
  <2>1. /\ wait' = [wait EXCEPT ![by] = OverWith(by, "not found")] /\ Unlisten(h, s, {by})
        /\ UNCHANGED life
    BY <1>7 DEF Ponged, Received
  <2> HIDE DEF s
  <2>2. by \in Waits /\ by \in subscriber[h].of[ChannelOf[by]].who
    BY <1>1, <1>7, Parts DEF PlaceSound
  <2>3. ~Owed(wait[by])
    BY <1>2, <1>4, <2>2, Parts DEF WaitsInv, SharedSound
  <2>4. ~wait[by].owed
    BY <1>7, <2>2, <2>3 DEF Owed
  <2>5. "not found" \in Answers
    BY DEF Answers
  <2>6. /\ wait'[by] = OverWith(by, "not found") /\ \A w \in Waits \ {by} : wait'[w] = wait[w]
        /\ wait'[by] \in CallStates /\ wait'[by].at = "over" /\ ~Owed(wait'[by])
        /\ CallSound(wait'[by], job[ChannelOf[by]]) /\ wait' \in [Waits -> CallStates]
    BY <2>1, <2>2, <2>4, <2>5, OverIs, LifeIs
  <2>7. CallsMove(h, s)
    BY <1>3, <2>1, <2>6, Parts, LifeIs DEF CallsMove, CallMoves
  <2>8. ASSUME NEW q \in Channels, by \in s.of[q].who PROVE s.of[q].turns = <<>>
    <3>1. q = ChannelOf[by]
      BY <1>1, <2>8, Parts DEF ChannelSound
    <3> QED
      BY <1>1, <1>7, <2>2, <2>8, <3>1, Parts DEF PlaceSound
  <2> DEFINE U == {by}
  <2>9. /\ U \in SUBSET Waits /\ Unlisten(h, s, U) /\ \A w \in U : wait'[w].at = "over"
        /\ \A q \in Channels, w \in U : w \in s.of[q].who => s.of[q].turns = <<>>
    BY <2>1, <2>2, <2>6, <2>8
  <2> HIDE DEF U
  <2> QED
    BY <1>1, <1>5, <2>1, <2>6, <2>7, <2>9, LifeIs, NearsKeeps
<1>8. CASE by # Life /\ wait[by].at # "flush"
  <2>1. subscriber' = [subscriber EXCEPT ![h] = s] /\ UNCHANGED <<shared, wait, life>>
    BY <1>8 DEF Ponged, Received
  <2> HIDE DEF s
  <2>2. CallsMove(h, s)
    BY <1>3, <2>1, Parts, LifeIs DEF CallsMove, CallMoves
  <2> QED
    BY <1>1, <1>5, <2>1, <2>2, LifeIs, NearsKeeps
<1> QED
  BY <1>6, <1>7, <1>8

\* A message is received, whichever it is.
LEMMA ReceiveKeeps == ASSUME WaitsInv, NEW h \in Subscribers, Receive(h) PROVE WaitsInv'
<1> DEFINE c == Head(subscriber[h].in)
<1>1. subscriber[h].in # <<>> /\ UNCHANGED <<job, drops>> /\ c \in Incoming
  BY ReceivedIs DEF Receive
<1>2. ASSUME NEW q \in Channels, c = EventOf(q) PROVE WaitsInv'
  <2>1. c[1] = "event" /\ c[2] = q
    BY <1>2 DEF EventOf
  <2> QED
    BY <1>1, <1>2, <2>1, EventHeardKeeps DEF Receive
<1>3. ASSUME NEW by \in Waits \cup {Life}, c = PingOf(by) PROVE WaitsInv'
  <2>1. c[1] = "ping" /\ c[2] = by
    BY <1>3 DEF PingOf
  <2> QED
    BY <1>1, <1>3, <2>1, PongedKeeps DEF Receive
<1>4. ASSUME NEW q \in Channels, c \in AnswersOf(q) PROVE WaitsInv'
  <2>1. c[1] \notin {"event", "ping"} /\ c[2] = q
    BY <1>4 DEF AnswersOf, AnswerTo
  <2> QED
    BY <1>1, <1>4, <2>1, TurnAnsweredKeeps DEF Receive
<1> QED
  BY <1>1, <1>2, <1>3, <1>4, IncomingIs

\* A call answered as its connection is dropped: nothing is owed.
DroppedCall(w, answer) == [OverWith(w, answer) EXCEPT !.owed = FALSE]

\* Whatever its answer, such a call is over.
LEMMA DroppedCallIs ==
  ASSUME NEW w \in Waits, NEW place, NEW answer \in Answers
  PROVE  /\ DroppedCall(w, answer) \in CallStates /\ DroppedCall(w, answer).at = "over"
         /\ ~Owed(DroppedCall(w, answer)) /\ CallSound(DroppedCall(w, answer), place)
<1> DEFINE o == DroppedCall(w, answer)
           owes == answer # "told" /\ wait[w].owed
           n == [NewWait EXCEPT !.at = "over", !.answer = answer, !.owed = owes]
<1>1. o = [n EXCEPT !.owed = FALSE]
  BY DEF DroppedCall, OverWith
<1> HIDE DEF owes, o
<1>2. n \in [at : {"over"}, answer : {answer}, read : {NoRead}, absent : {FALSE}, owed : {owes}]
  <2>1. NewWait \in [at : {"new"}, answer : {"none"}, read : {NoRead}, absent : {FALSE}, owed : {FALSE}]
    BY DEF NewWait
  <2> QED
    BY <2>1
<1> HIDE DEF n
<1>3. o = [at |-> "over", answer |-> answer, read |-> NoRead, absent |-> FALSE, owed |-> FALSE]
  BY <1>1, <1>2
<1>4. o.at = "over" /\ o.read = NoRead /\ o.owed = FALSE
  BY <1>3
<1>5. o \in CallStates
  <2>1. answer \in {"none", "told", "not found", "closed"}
    BY DEF Answers
  <2>2. "over" \in {"new", "listen", "read", "flush", "wait", "over"}
    OBVIOUS
  <2>3. NoRead \in {NoRead, "there", "kept", "gone"} /\ FALSE \in BOOLEAN
    OBVIOUS
  <2>4. ASSUME NEW A, NEW B, NEW C, NEW a \in A, NEW b \in B, NEW c \in C
        PROVE  [at |-> a, answer |-> b, read |-> c, absent |-> FALSE, owed |-> FALSE]
                 \in [at : A, answer : B, read : C, absent : BOOLEAN, owed : BOOLEAN]
    OBVIOUS
  <2>5. [at |-> "over", answer |-> answer, read |-> NoRead, absent |-> FALSE, owed |-> FALSE]
          \in CallStates
    BY <2>1, <2>2, <2>3, <2>4 DEF CallStates
  <2> QED
    BY <1>3, <2>5
<1>6. ~Owed(o) /\ CallSound(o, place)
  BY <1>4 DEF Owed, CallSound
<1> QED
  BY <1>4, <1>5, <1>6 DEF o

\* A connection the server drops.
DroppedState(h) ==
  LET of == subscriber[h].of IN
  [subscriber[h] EXCEPT
     !.heard = {}, !.cut = {q \in Channels : of[q].who # {}}, !.pings = {}, !.in = <<>>,
     !.of = [q \in Channels |->
               IF q \in {r \in Channels : of[r].turns # <<>>}
               THEN [of[q] EXCEPT !.turns = Tail(@), !.ran = FALSE] ELSE of[q]]]

\* Its first commands are answered by an error, and its listeners hear nothing.
LEMMA DroppedIs ==
  ASSUME WaitsInv, NEW h \in Subscribers, subscriber[h].conn = "open"
  PROVE  /\ Nears(DroppedState(h), h)
         /\ \A q \in Channels : Len(subscriber[h].of[q].turns) = 1 =>
              DroppedState(h).of[q].turns = <<>>
<1> DEFINE s == subscriber[h]
           t == DroppedState(h)
           failed == [q \in Channels |->
                        IF q \in {r \in Channels : s.of[r].turns # <<>>}
                        THEN [s.of[q] EXCEPT !.turns = Tail(@), !.ran = FALSE] ELSE s.of[q]]
<1>1. /\ s \in SubscriberStates /\ \A q \in Channels : s.of[q] \in ChannelStates /\ ChannelSound(s, q)
      /\ \A q \in Channels : s.of[q].turns \in TurnsOf
  BY Parts
<1>2. t = [s EXCEPT !.heard = {}, !.cut = {q \in Channels : s.of[q].who # {}}, !.pings = {},
                    !.in = <<>>, !.of = failed]
  BY DEF DroppedState
<1>3. ASSUME NEW q \in Channels
      PROVE  /\ failed[q].who = s.of[q].who /\ failed[q].ran = FALSE /\ failed[q] \in ChannelStates
             /\ failed[q].turns = IF s.of[q].turns = <<>> THEN <<>> ELSE Tail(s.of[q].turns)
  <2>1. CASE s.of[q].turns = <<>>
    <3>1. failed[q] = s.of[q]
      BY <2>1
    <3> HIDE DEF failed, s
    <3>2. s.of[q].ran = FALSE
      BY <1>1, <2>1 DEF ChannelSound, ChannelStates
    <3> QED
      BY <1>1, <2>1, <3>1, <3>2
  <2>2. CASE s.of[q].turns # <<>>
    <3>1. failed[q] = [s.of[q] EXCEPT !.turns = Tail(@), !.ran = FALSE]
      BY <2>2
    <3>2. Tail(s.of[q].turns) \in TurnsOf
      BY <1>1, <2>2, TurnsAre
    <3> HIDE DEF failed, s
    <3> QED
      BY <1>1, <2>2, <3>1, <3>2 DEF ChannelStates
  <2> QED
    BY <2>1, <2>2
<1>4. failed \in [Channels -> ChannelStates]
  BY <1>3
<1> HIDE DEF failed
<1>5. /\ t.conn = s.conn /\ t.closing = s.closing /\ t.pings = {} /\ t.in = <<>> /\ t.heard = {}
      /\ t.cut = {q \in Channels : s.of[q].who # {}} /\ t.of = failed /\ t \in SubscriberStates
  <2> DEFINE cut == {q \in Channels : s.of[q].who # {}}
  <2>1. t = [s EXCEPT !.heard = {}, !.cut = cut, !.pings = {}, !.in = <<>>, !.of = failed]
    BY <1>2
  <2>2. cut \in SUBSET Channels /\ {} \in SUBSET Channels /\ {} \in SUBSET (Waits \cup {Life})
        /\ <<>> \in Seq(Incoming)
    OBVIOUS
  <2>3. t.cut = cut
    BY <1>1, <2>1 DEF SubscriberStates
  <2> HIDE DEF cut, t
  <2>4. /\ t.conn = s.conn /\ t.closing = s.closing /\ t.pings = {} /\ t.in = <<>> /\ t.heard = {}
        /\ t.of = failed
    BY <1>1, <2>1 DEF SubscriberStates
  <2>5. t \in SubscriberStates
    BY <1>1, <1>4, <2>1, <2>2 DEF SubscriberStates
  <2> QED
    BY <2>3, <2>4, <2>5 DEF cut
<1> HIDE DEF t
<1>6. (\A m : ~Within(t.in, m)) /\ \A S : OnlyOnce(t.in, S)
  BY <1>5 DEF Within, OnlyOnce
<1>7. ASSUME NEW q \in Channels PROVE ChannelSound(t, q)
  <2>1. /\ t.of[q].who = s.of[q].who /\ ~t.of[q].ran
        /\ t.of[q].turns = IF s.of[q].turns = <<>> THEN <<>> ELSE Tail(s.of[q].turns)
        /\ s.of[q].who # {} => q \in t.cut
    BY <1>3, <1>5
  <2>2. /\ t.of[q].turns \in Subscribing => s.of[q].turns \in Subscribing
        /\ t.of[q].turns # <<"unsubscribe">>
    BY <1>1, <2>1, TurnsAre
  <2>3. ChannelSound(s, q)
    BY <1>1
  <2> HIDE DEF s
  <2> QED
    BY <1>6, <2>1, <2>2, <2>3 DEF ChannelSound
<1>8. t.closing => \A q \in Channels : t.of[q].who = {}
  <2>1. t.closing => \A q \in Channels : s.of[q].who = {}
    BY <1>5, Parts DEF SubscriberSound
  <2> QED
    BY <1>3, <1>5, <2>1
<1>9. SubscriberSound(t)
  BY <1>5, <1>7, <1>8 DEF SubscriberSound
<1>10. \A by : ~Pinged(t, by)
  BY <1>5, <1>6 DEF Pinged
<1>11. Nears(t, h)
  BY <1>3, <1>5, <1>9, <1>10 DEF Nears
<1>12. ASSUME NEW q \in Channels, Len(s.of[q].turns) = 1 PROVE t.of[q].turns = <<>>
  BY <1>1, <1>3, <1>5, <1>12, TurnsAre
<1> QED
  BY <1>11, <1>12 DEF t

\* The server drops a connection: nothing is owed to who listened through it.
LEMMA DropKeeps == ASSUME WaitsInv, NEW h \in Subscribers, Drop(h) PROVE WaitsInv'
<1> DEFINE of     == subscriber[h].of
           dead   == {w \in Waits : /\ h \in SubscriberOf(w) /\ ~Ready(subscriber[h], ChannelOf[w])
                                    /\ Len(of[ChannelOf[w]].turns) = 1}
           pinged == {w \in Waits : h \in SubscriberOf(w) /\ wait[w].at = "flush"}
           s      == DroppedState(h)
           U      == dead \cup pinged
<1>1. /\ subscriber[h].conn = "open" /\ drops < MaxDrops /\ drops' = drops + 1
      /\ wait' = [w \in Waits |->
           IF w \in dead /\ Pending(w) THEN OverWith(w, "told")
           ELSE IF w \in pinged THEN DroppedCall(w, "not found")
           ELSE IF h \in SubscriberOf(w) THEN [wait[w] EXCEPT !.owed = FALSE] ELSE wait[w]]
      /\ UNCHANGED job /\ life' = FlushedBy(h)
  BY DEF Drop, DroppedCall
<1>2. Unlisten(h, s, U)
  BY DEF Drop, DroppedState
<1>3. /\ Nears(s, h)
      /\ \A q \in Channels : Len(subscriber[h].of[q].turns) = 1 => s.of[q].turns = <<>>
  BY <1>1, DroppedIs
<1>4. \A w \in Waits : h \in SubscriberOf(w) <=> w \in subscriber[h].of[ChannelOf[w]].who
  BY DEF SubscriberOf
<1>5. drops' \in 0 .. MaxDrops
  <2>1. drops \in 0 .. MaxDrops /\ MaxDrops \in Nat
    BY WaitsAssumption DEF WaitsInv, WaitsTyped
  <2>2. drops < MaxDrops /\ drops' = drops + 1
    BY <1>1
  <2> QED
    BY <2>1, <2>2
<1>6. "told" \in Answers /\ "not found" \in Answers
  BY DEF Answers
<1>7. /\ U \in SUBSET Waits /\ dead \subseteq U /\ pinged \subseteq U
      /\ \A w \in dead : h \in SubscriberOf(w) /\ Len(subscriber[h].of[ChannelOf[w]].turns) = 1
      /\ \A w \in pinged : h \in SubscriberOf(w) /\ wait[w].at = "flush"
      /\ \A w \in U : w \in dead \/ w \in pinged
  OBVIOUS
<1> HIDE DEF s, U, dead, pinged
<1>8. ASSUME NEW w \in Waits
      PROVE  /\ wait'[w] \in CallStates /\ CallSound(wait'[w], job'[ChannelOf[w]])
             /\ wait'[w].at = wait[w].at \/ wait'[w].at = "over"
             /\ w \in U => wait'[w].at = "over"
             /\ Owed(wait'[w]) => wait'[w] = wait[w] /\ h \notin SubscriberOf(w)
  <2>1. wait[w] \in CallStates /\ CallSound(wait[w], job[ChannelOf[w]])
    BY Parts
  <2>2. CASE w \in dead /\ Pending(w)
    <3>1. wait'[w] = OverWith(w, "told")
      BY <1>1, <2>2
    <3> QED
      BY <1>6, <2>1, <3>1, OverIs
  <2>3. CASE ~(w \in dead /\ Pending(w)) /\ w \in pinged
    <3>1. wait'[w] = DroppedCall(w, "not found")
      BY <1>1, <2>3
    <3> QED
      BY <1>6, <3>1, DroppedCallIs
  <2>4. CASE ~(w \in dead /\ Pending(w)) /\ w \notin pinged /\ h \in SubscriberOf(w)
    <3>1. wait'[w] = [wait[w] EXCEPT !.owed = FALSE]
      BY <1>1, <2>4
    <3>2. /\ wait'[w] \in CallStates /\ wait'[w].at = wait[w].at /\ ~wait'[w].owed
          /\ wait'[w].answer = wait[w].answer /\ wait'[w].read = wait[w].read
      BY <2>1, <3>1 DEF CallStates
    <3>3. CallSound(wait'[w], job'[ChannelOf[w]]) /\ ~Owed(wait'[w])
      BY <1>1, <2>1, <3>2 DEF CallSound, Owed
    <3>4. w \in U => wait[w].at = "over"
      BY <1>4, <1>7, <2>4, Parts DEF Pending, PlaceSound
    <3> QED
      BY <3>2, <3>3, <3>4
  <2>5. CASE h \notin SubscriberOf(w)
    <3>1. wait'[w] = wait[w] /\ w \notin U
      BY <1>1, <1>7, <2>5
    <3> QED
      BY <1>1, <2>1, <2>5, <3>1
  <2> QED
    BY <2>2, <2>3, <2>4, <2>5
<1>9. wait' \in [Waits -> CallStates]
  BY <1>1, <1>8
<1>10. CallsMove(h, s)
  BY <1>4, <1>8, <1>1, FlushedByIs, LifeIs DEF CallsMove, CallMoves
<1>11. ASSUME NEW q \in Channels, NEW w \in U, w \in s.of[q].who PROVE s.of[q].turns = <<>>
  <2>1. w \in Waits /\ w \in subscriber[h].of[q].who
    BY <1>3, <1>7, <1>11 DEF Nears
  <2>2. q = ChannelOf[w]
    BY <2>1, Parts DEF ChannelSound
  <2>3. CASE w \in dead
    BY <1>3, <1>7, <2>2, <2>3
  <2>4. CASE w \in pinged
    BY <1>3, <1>7, <2>1, <2>2, <2>4, Parts DEF Nears, PlaceSound
  <2> QED
    BY <1>7, <2>3, <2>4
<1> QED
  BY <1>1, <1>2, <1>3, <1>5, <1>7, <1>8, <1>9, <1>10, <1>11, FlushedByIs, NearsKeeps

\* An event is sent to a connection.
EventSent(s, q) == [s EXCEPT !.in = Append(@, EventOf(q))]

\* It comes behind every PING answered so far.
LEMMA EventSentIs ==
  ASSUME NEW s, SubscriberSound(s), NEW q \in Channels, q \in s.heard
  PROVE  /\ SubscriberSound(EventSent(s, q)) /\ EventSent(s, q).of = s.of
         /\ EventSent(s, q).conn = s.conn /\ EventSent(s, q).closing = s.closing
         /\ \A by : Pinged(EventSent(s, q), by) <=> Pinged(s, by)
         /\ \A w : Comes(w, s) => Comes(w, EventSent(s, q))
         /\ \A w : ChannelOf[w] = q /\ ~Pinged(s, w) /\ ~Pinged(s, Life) => Comes(w, EventSent(s, q))
<1> DEFINE t == EventSent(s, q)
<1>1. /\ s \in SubscriberStates /\ s.in \in Seq(Incoming) /\ EventOf(q) \in Incoming
      /\ \A r \in Channels : ChannelSound(s, r)
  BY IncomingIs DEF SubscriberSound, SubscriberStates
<1>2. /\ Append(s.in, EventOf(q)) \in Seq(Incoming)
      /\ \A m : Within(Append(s.in, EventOf(q)), m) <=> Within(s.in, m) \/ EventOf(q) = m
      /\ \A S : OnlyOnce(s.in, S) /\ EventOf(q) \notin S => OnlyOnce(Append(s.in, EventOf(q)), S)
      /\ \A m, S : Ahead(s.in, m, S) => Ahead(Append(s.in, EventOf(q)), m, S)
      /\ \A S : (\A m \in S : ~Within(s.in, m)) /\ EventOf(q) \notin S =>
           Ahead(Append(s.in, EventOf(q)), EventOf(q), S)
  BY <1>1, AppendWithin
<1>3. /\ t \in SubscriberStates /\ t.in = Append(s.in, EventOf(q)) /\ t.of = s.of
      /\ t.conn = s.conn /\ t.closing = s.closing /\ t.pings = s.pings
      /\ t.heard = s.heard /\ t.cut = s.cut
  BY <1>1, <1>2 DEF SubscriberStates, EventSent
<1> HIDE DEF t
<1>4. s.conn # "none"
  <2>1. NewState.heard = {}
    BY DEF NewState
  <2> QED
    BY <2>1 DEF SubscriberSound
<1>5. ASSUME NEW r \in Channels PROVE ChannelSound(t, r)
  <2>1. \A c \in {"subscribe", "unsubscribe"} : EventOf(q) # AnswerTo(c, r)
    BY AnswersApart, MessagesApart
  <2> QED
    BY <1>1, <1>2, <1>3, <2>1, MessagesApart DEF ChannelSound
<1>6. SubscriberSound(t)
  BY <1>3, <1>4, <1>5 DEF SubscriberSound
<1>7. \A by : Pinged(t, by) <=> Pinged(s, by)
  BY <1>2, <1>3, MessagesApart DEF Pinged
<1>8. \A w : Comes(w, s) => Comes(w, t)
  BY <1>2, <1>3 DEF Comes
<1>9. ASSUME NEW w, ChannelOf[w] = q, ~Pinged(s, w), ~Pinged(s, Life) PROVE Comes(w, t)
  <2>1. \A m \in {PingOf(w), PingOf(Life)} : ~Within(s.in, m)
    BY <1>9 DEF Pinged
  <2>2. EventOf(q) \notin {PingOf(w), PingOf(Life)}
    BY MessagesApart
  <2> QED
    BY <1>2, <1>3, <1>9, <2>1, <2>2 DEF Comes
<1> QED
  BY <1>3, <1>6, <1>7, <1>8, <1>9 DEF t

\* A job ends: its outcome is sent to each connection a ready call listens through.
LEMMA JobEndsKeeps ==
  ASSUME WaitsInv, NEW q \in Channels, NEW to \in {"kept", "gone"}, JobEnds(q, to)
  PROVE  WaitsInv'
<1>1. /\ job[q] = "there" /\ job' = [job EXCEPT ![q] = to] /\ UNCHANGED <<shared, life, drops>>
      /\ wait' = [w \in Waits |->
           IF w \in Hearing(q) /\ life \in {"open", "closing"} THEN [wait[w] EXCEPT !.owed = TRUE]
           ELSE wait[w]]
      /\ subscriber' = [h \in Subscribers |->
           IF q \in subscriber[h].heard /\ subscriber[h].of[q].who # {}
           THEN EventSent(subscriber[h], q) ELSE subscriber[h]]
  BY DEF JobEnds, EventSent, EventOf
<1>2. ASSUME NEW h \in Subscribers
      PROVE  /\ SubscriberSound(subscriber'[h]) /\ subscriber'[h].of = subscriber[h].of
             /\ subscriber'[h].conn = subscriber[h].conn
             /\ subscriber'[h].closing = subscriber[h].closing
             /\ \A by : Pinged(subscriber'[h], by) <=> Pinged(subscriber[h], by)
             /\ \A w : Comes(w, subscriber[h]) => Comes(w, subscriber'[h])
             /\ q \in subscriber[h].heard /\ subscriber[h].of[q].who # {} =>
                  \A w : ChannelOf[w] = q /\ ~Pinged(subscriber[h], w) /\ ~Pinged(subscriber[h], Life)
                           => Comes(w, subscriber'[h])
  <2>1. CASE q \in subscriber[h].heard /\ subscriber[h].of[q].who # {}
    <3>1. subscriber'[h] = EventSent(subscriber[h], q)
      BY <1>1, <2>1
    <3> QED
      BY <2>1, <3>1, EventSentIs, Parts
  <2>2. CASE ~(q \in subscriber[h].heard /\ subscriber[h].of[q].who # {})
    <3>1. subscriber'[h] = subscriber[h]
      BY <1>1, <2>2
    <3> QED
      BY <2>2, <3>1, Parts
  <2> QED
    BY <2>1, <2>2
<1>3. ASSUME NEW w \in Waits
      PROVE  /\ wait'[w] \in CallStates /\ wait'[w].at = wait[w].at
             /\ wait'[w].answer = wait[w].answer /\ wait'[w].read = wait[w].read
             /\ \/ wait'[w].owed = wait[w].owed
                \/ w \in Hearing(q) /\ life \in {"open", "closing"}
  <2>1. wait[w] \in CallStates
    BY LifeIs
  <2> QED
    BY <1>1, <2>1 DEF CallStates
<1>4. WaitsTyped'
  <2>1. job' \in [Channels -> {"there", "kept", "gone"}]
    BY <1>1, LifeIs
  <2>2. wait' \in [Waits -> CallStates]
    BY <1>1, <1>3
  <2>3. subscriber' \in [Subscribers -> SubscriberStates]
    BY <1>1, <1>2 DEF SubscriberSound
  <2> QED
    BY <1>1, <2>1, <2>2, <2>3 DEF WaitsInv, WaitsTyped
<1>5. ASSUME NEW w \in Waits PROVE CallSound(wait'[w], job'[ChannelOf[w]])
  <2>1. CallSound(wait[w], job[ChannelOf[w]])
    BY Parts, LifeIs
  <2>2. w \in Hearing(q) => wait[w].at \notin {"new", "over"}
    BY DEF Hearing, Pending
  <2>3. job[ChannelOf[w]] = "gone" => job'[ChannelOf[w]] = "gone"
    BY <1>1, LifeIs, Parts
  <2> QED
    BY <1>3, <2>1, <2>2, <2>3 DEF CallSound
<1>6. \A w \in Waits, h \in Subscribers : PlaceSound(w, wait'[w], subscriber'[h])
  BY <1>2, <1>3, Parts DEF PlaceSound
<1>7. ASSUME NEW w \in Waits, Owed(wait[w])
      PROVE  /\ w \notin Workers /\ life' \in {"open", "closing", "flushing"}
             /\ \E h \in Subscribers : /\ w \in subscriber'[h].of[ChannelOf[w]].who
                                       /\ Comes(w, subscriber'[h])
  BY <1>1, <1>2, <1>7 DEF WaitsInv, OwedSound
<1>8. ASSUME NEW w \in Waits, w \in Hearing(q), life \in {"open", "closing"}
      PROVE  /\ w \notin Workers /\ life' \in {"open", "closing", "flushing"}
             /\ \E h \in Subscribers : /\ w \in subscriber'[h].of[ChannelOf[w]].who
                                       /\ Comes(w, subscriber'[h])
  <2>1. PICK h \in SubscriberOf(w) : Ready(subscriber[h], q) /\ q \notin subscriber[h].cut
    BY <1>8 DEF Hearing
  <2>2. w \notin Workers /\ Pending(w) /\ ChannelOf[w] = q
    BY <1>8 DEF Hearing
  <2>3. h \in Subscribers /\ w \in subscriber[h].of[q].who
    BY <2>1, <2>2 DEF SubscriberOf
  <2>4. q \in subscriber[h].heard
    BY <2>1, <2>3, ReadyIs, Parts DEF ChannelSound
  <2>5. wait[w].at # "flush" /\ wait[w].at # "over"
    BY <1>1, <2>2, <2>3, Parts DEF CallSound, Pending
  <2>6. ~Pinged(subscriber[h], w)
    BY <2>3, <2>5, Parts DEF PlaceSound
  <2>7. ~Pinged(subscriber[h], Life)
    BY <1>8, <2>3 DEF WaitsInv, CloseSound
  <2> QED
    BY <1>1, <1>2, <1>8, <2>2, <2>3, <2>4, <2>6, <2>7
<1>9. \A w \in Waits : OwedSound(w)'
  <2>1. ASSUME NEW w \in Waits, Owed(wait'[w])
        PROVE  Owed(wait[w]) \/ (w \in Hearing(q) /\ life \in {"open", "closing"})
    BY <1>3, <2>1 DEF Owed
  <2> QED
    BY <1>7, <1>8, <2>1 DEF OwedSound
<1>10. SharedSound'
  BY <1>1, <1>2 DEF WaitsInv, SharedSound
<1>11. CloseSound'
  BY <1>1, <1>2 DEF WaitsInv, CloseSound
<1> QED
  BY <1>2, <1>4, <1>5, <1>6, <1>9, <1>10, <1>11 DEF WaitsInv

\* A PING is asked of a connection.
PingAsked(s, by) == [s EXCEPT !.pings = @ \cup {by}]

\* Its answer is not there yet.
LEMMA PingAskedIs ==
  ASSUME NEW s, SubscriberSound(s), s.conn # "none", NEW by \in Waits \cup {Life}
  PROVE  /\ SubscriberSound(PingAsked(s, by)) /\ PingAsked(s, by).of = s.of
         /\ PingAsked(s, by).conn = s.conn /\ PingAsked(s, by).closing = s.closing
         /\ \A b : Pinged(PingAsked(s, by), b) <=> Pinged(s, b) \/ b = by
         /\ \A w : Comes(w, s) => Comes(w, PingAsked(s, by))
<1> DEFINE t == PingAsked(s, by)
<1>1. /\ t \in SubscriberStates /\ t.in = s.in /\ t.of = s.of
      /\ t.conn = s.conn /\ t.closing = s.closing /\ t.pings = s.pings \cup {by}
      /\ t.heard = s.heard /\ t.cut = s.cut
  BY DEF SubscriberSound, SubscriberStates, PingAsked
<1> HIDE DEF t
<1>2. \A q \in Channels : ChannelSound(t, q)
  BY <1>1 DEF SubscriberSound, ChannelSound
<1>3. SubscriberSound(t)
  BY <1>1, <1>2 DEF SubscriberSound
<1>4. (\A b : Pinged(t, b) <=> Pinged(s, b) \/ b = by) /\ \A w : Comes(w, s) => Comes(w, t)
  BY <1>1 DEF Pinged, Comes
<1> QED
  BY <1>1, <1>3, <1>4 DEF t

\* The first read is answered: a job that is gone is flushed for, behind its outcome.
LEMMA ReadAnsweredKeeps == ASSUME WaitsInv, NEW w \in Waits, ReadAnswered(w) PROVE WaitsInv'
<1>1. /\ wait[w].at = "read" /\ wait[w].read # NoRead /\ UNCHANGED <<job, life, drops>>
  BY DEF ReadAnswered
<1>2. /\ wait[w] \in CallStates /\ wait[w].read \in {NoRead, "there", "kept", "gone"}
      /\ ChannelOf[w] \in Channels
  BY LifeIs, WaitsAssumption DEF CallStates
<1>3. CASE wait[w].read = "kept"
  <2> DEFINE W == {w}
  <2>1. W \in SUBSET Waits /\ EndCalls(W, "told")
    BY <1>3 DEF ReadAnswered
  <2> HIDE DEF W
  <2> QED
    BY <1>1, <2>1, ToldKeeps
<1>4. CASE wait[w].read = "there"
  <2>1. wait' = [wait EXCEPT ![w].at = "wait"] /\ Stays
    BY <1>4 DEF ReadAnswered
  <2>2. /\ wait'[w] \in CallStates /\ wait'[w].at = "wait" /\ wait'[w].owed = wait[w].owed
        /\ wait'[w].answer = wait[w].answer /\ wait'[w].read = wait[w].read
        /\ wait' \in [Waits -> CallStates] /\ \A v \in Waits \ {w} : wait'[v] = wait[v]
    BY <1>2, <2>1, LifeIs DEF CallStates
  <2>3. CallSound(wait'[w], job'[ChannelOf[w]])
    BY <1>1, <2>2, Parts, LifeIs DEF CallSound
  <2> QED
    BY <1>1, <2>1, <2>2, <2>3, LifeIs, Parts, StaysHold DEF Owed
<1>5. CASE wait[w].read \notin {"kept", "there"}
  <2>1. /\ wait' = [wait EXCEPT ![w].at = "flush"] /\ UNCHANGED shared
        /\ subscriber' = [h \in Subscribers |->
             IF h \in SubscriberOf(w) THEN PingAsked(subscriber[h], w) ELSE subscriber[h]]
    BY <1>5 DEF ReadAnswered, PingAsked
  <2>2. /\ wait'[w] \in CallStates /\ wait'[w].at = "flush" /\ wait'[w].owed = wait[w].owed
        /\ wait'[w].answer = wait[w].answer /\ wait'[w].read = wait[w].read
        /\ wait' \in [Waits -> CallStates] /\ \A v \in Waits \ {w} : wait'[v] = wait[v]
    BY <1>2, <2>1, LifeIs DEF CallStates
  <2>3. CallSound(wait'[w], job'[ChannelOf[w]])
    BY <1>1, <1>2, <1>5, <2>2, Parts, LifeIs DEF CallSound
  <2>4. ASSUME NEW h \in Subscribers
        PROVE  /\ SubscriberSound(subscriber'[h]) /\ subscriber'[h].of = subscriber[h].of
               /\ subscriber'[h].conn = subscriber[h].conn
               /\ subscriber'[h].closing = subscriber[h].closing
               /\ \A by : Pinged(subscriber'[h], by) <=>
                    Pinged(subscriber[h], by) \/ (by = w /\ h \in SubscriberOf(w))
               /\ \A v : Comes(v, subscriber[h]) => Comes(v, subscriber'[h])
    <3>1. CASE h \in SubscriberOf(w)
      BY <2>1, <3>1, PingAskedIs, Parts, ListensIs
    <3>2. CASE h \notin SubscriberOf(w)
      BY <2>1, <3>2, Parts
    <3> QED
      BY <3>1, <3>2
  <2>5. WaitsTyped'
    <3>1. subscriber' \in [Subscribers -> SubscriberStates]
      BY <2>1, <2>4 DEF SubscriberSound
    <3> QED
      BY <1>1, <2>1, <2>2, <3>1 DEF WaitsInv, WaitsTyped
  <2>6. \A v \in Waits : CallSound(wait'[v], job'[ChannelOf[v]])
    BY <1>1, <2>2, <2>3, Parts, LifeIs
  <2>7. ASSUME NEW v \in Waits, NEW h \in Subscribers
        PROVE  PlaceSound(v, wait'[v], subscriber'[h])
    <3>1. CASE v = w
      BY <1>1, <2>2, <2>4, <3>1, Parts DEF PlaceSound, SubscriberOf
    <3>2. CASE v # w
      <4>1. wait'[v] = wait[v] /\ subscriber'[h].of = subscriber[h].of
        BY <2>2, <2>4, <3>2
      <4>2. PlaceSound(v, wait[v], subscriber[h])
        BY Parts
      <4>3. Pinged(subscriber'[h], v) <=> Pinged(subscriber[h], v)
        BY <2>4, <3>2
      <4> QED
        BY <4>1, <4>2, <4>3 DEF PlaceSound
    <3> QED
      BY <3>1, <3>2
  <2>8. \A v \in Waits : Owed(wait'[v]) => Owed(wait[v])
    BY <1>1, <2>2 DEF Owed
  <2>9. \A v \in Waits : OwedSound(v)'
    BY <1>1, <2>4, <2>8 DEF WaitsInv, OwedSound
  <2>10. SharedSound'
    BY <2>1, <2>4 DEF WaitsInv, SharedSound
  <2>11. CloseSound'
    BY <1>1, <2>4, WaitsAssumption DEF WaitsInv, CloseSound, Life
  <2> QED
    BY <2>4, <2>5, <2>6, <2>7, <2>9, <2>10, <2>11 DEF WaitsInv
<1> QED
  BY <1>3, <1>4, <1>5

\* The close flushes the connection with listeners, or there is nothing owed.
LEMMA CloseFlushesKeeps == ASSUME WaitsInv, CloseFlushes PROVE WaitsInv'
<1>1. life = "closing" /\ UNCHANGED <<job, shared, wait, drops>>
  BY DEF CloseFlushes
<1>2. CASE Listening /\ shared # NoSubscriber
  <2>1. /\ life' = "flushing"
        /\ subscriber' = [subscriber EXCEPT ![shared] = PingAsked(subscriber[shared], Life)]
    BY <1>2 DEF CloseFlushes, PingAsked
  <2>2. shared \in Subscribers /\ subscriber[shared].conn # "none"
    BY <1>2 DEF WaitsInv, WaitsTyped, SharedSound
  <2>3. ASSUME NEW h \in Subscribers
        PROVE  /\ SubscriberSound(subscriber'[h]) /\ subscriber'[h].of = subscriber[h].of
               /\ subscriber'[h].conn = subscriber[h].conn
               /\ subscriber'[h].closing = subscriber[h].closing
               /\ \A by : Pinged(subscriber'[h], by) <=>
                    Pinged(subscriber[h], by) \/ (by = Life /\ h = shared)
               /\ \A v : Comes(v, subscriber[h]) => Comes(v, subscriber'[h])
    <3>1. CASE h = shared
      BY <2>1, <2>2, <3>1, PingAskedIs, Parts
    <3>2. CASE h # shared
      BY <2>1, <2>2, <3>2, Parts
    <3> QED
      BY <3>1, <3>2
  <2>4. WaitsTyped'
    <3>1. subscriber' \in [Subscribers -> SubscriberStates]
      BY <2>1, <2>2, <2>3, Parts DEF SubscriberSound
    <3> QED
      BY <1>1, <2>1, <3>1 DEF WaitsInv, WaitsTyped
  <2>5. \A w \in Waits : w # Life
    BY WaitsAssumption DEF Life
  <2>6. ASSUME NEW w \in Waits, NEW h \in Subscribers
        PROVE  PlaceSound(w, wait'[w], subscriber'[h])
    <3>1. wait'[w] = wait[w] /\ subscriber'[h].of = subscriber[h].of
      BY <1>1, <2>3
    <3>2. PlaceSound(w, wait[w], subscriber[h])
      BY Parts
    <3>3. Pinged(subscriber'[h], w) <=> Pinged(subscriber[h], w)
      BY <2>3, <2>5
    <3> QED
      BY <3>1, <3>2, <3>3 DEF PlaceSound
  <2>7. \A w \in Waits : OwedSound(w)'
    BY <1>1, <2>1, <2>3 DEF WaitsInv, OwedSound
  <2>8. SharedSound'
    BY <1>1, <2>3 DEF WaitsInv, SharedSound
  <2>9. CloseSound'
    BY <1>1, <2>1, <2>3 DEF WaitsInv, CloseSound, SharedSound
  <2> QED
    BY <1>1, <2>2, <2>3, <2>4, <2>6, <2>7, <2>8, <2>9, Parts DEF WaitsInv
<1>3. CASE ~(Listening /\ shared # NoSubscriber)
  <2>1. life' = "flushed" /\ Stays
    BY <1>1, <1>3 DEF CloseFlushes, Stays
  <2>2. ASSUME NEW w \in Waits PROVE ~Owed(wait[w])
    <3>1. SUFFICES ASSUME Owed(wait[w]) PROVE FALSE
      OBVIOUS
    <3>2. PICK h \in Subscribers : w \in subscriber[h].of[ChannelOf[w]].who
      BY <3>1 DEF WaitsInv, OwedSound
    <3>3. h \in SubscriberOf(w)
      BY <3>2 DEF SubscriberOf
    <3> QED
      BY <1>3, <3>3, ListensIs, Parts DEF Listening
  <2> QED
    BY <1>1, <2>1, <2>2, LifeIs, Parts, StaysHold DEF Lives
<1> QED
  BY <1>2, <1>3

\* A call joins a connection.
JoinsAs(s, q, w, t) ==
  /\ SubscriberSound(t) /\ t.conn # "none" /\ t.closing = s.closing
  /\ t.pings = s.pings /\ t.in = s.in /\ t.of[q].who = s.of[q].who \cup {w}
  /\ \A r \in Channels \ {q} : t.of[r] = s.of[r]
  /\ s.of[q].who # {} => t.of[q].turns = s.of[q].turns

\* It is subscribed behind what is under way of its channel.
LEMMA JoinedIs ==
  ASSUME NEW s, SubscriberSound(s), ~s.closing, NEW w \in Waits, NEW q \in Channels, ChannelOf[w] = q
  PROVE  JoinsAs(s, q, w, Joined(s, q, w))
<1> DEFINE t == Joined(s, q, w)
           c == [s.of[q] EXCEPT !.who = @ \cup {w},
                                !.turns = IF s.of[q].who = {} THEN Append(@, "subscribe") ELSE @]
           conn == IF s.conn = "none" THEN "opening" ELSE s.conn
<1>1. /\ s \in SubscriberStates /\ \A r \in Channels : s.of[r] \in ChannelStates /\ ChannelSound(s, r)
      /\ \A r \in Channels : s.of[r].turns \in TurnsOf
  BY DEF SubscriberSound, SubscriberStates, ChannelStates
<1>2. t = [s EXCEPT !.conn = conn, !.of = [s.of EXCEPT ![q] = c]]
  <2> DEFINE who   == s.of[q].who \cup {w}
             turns == IF s.of[q].who = {} THEN Append(s.of[q].turns, "subscribe") ELSE s.of[q].turns
  <2>1. t = [s EXCEPT !.conn = conn, !.of[q].who = who, !.of[q].turns = turns]
    BY <1>1 DEF Joined, Turns, SubscriberStates, ChannelStates
  <2>2. c = [s.of[q] EXCEPT !.who = who, !.turns = turns]
    BY <1>1 DEF ChannelStates
  <2> HIDE DEF t, c, conn, who, turns
  <2>3. [s.of EXCEPT ![q] = c] = [s.of EXCEPT ![q].who = who, ![q].turns = turns]
    BY <1>1, <2>2 DEF SubscriberStates, ChannelStates
  <2> QED
    BY <1>1, <2>1, <2>3 DEF SubscriberStates
<1>3. conn \in {"none", "opening", "open", "closed"} /\ conn # "none"
  BY <1>1 DEF SubscriberStates
<1>4. /\ s.of[q].who = {} => s.of[q].turns \in {<<>>, <<"unsubscribe">>}
      /\ s.of[q].who # {} => s.of[q].turns # <<"unsubscribe">>
  BY <1>1, TurnsAre DEF ChannelSound
<1>5. /\ s.of[q].who = {} => /\ Append(s.of[q].turns, "subscribe") \in Subscribing
                             /\ s.of[q].turns # <<>> =>
                                  /\ Head(Append(s.of[q].turns, "subscribe")) = Head(s.of[q].turns)
                                  /\ Append(s.of[q].turns, "subscribe") # <<"subscribe">>
      /\ Subscribing \subseteq TurnsOf
  BY <1>4, TurnsAre DEF TurnsOf
<1>6. /\ c \in ChannelStates /\ c.who = s.of[q].who \cup {w} /\ c.ran = s.of[q].ran
      /\ c.turns = IF s.of[q].who = {} THEN Append(s.of[q].turns, "subscribe") ELSE s.of[q].turns
  BY <1>1, <1>5 DEF ChannelStates
<1> HIDE DEF t, c, conn
<1>7. /\ t.conn = conn /\ t.closing = s.closing /\ t.pings = s.pings /\ t.cut = s.cut
      /\ t.in = s.in /\ t.heard = s.heard /\ t.of = [s.of EXCEPT ![q] = c]
      /\ t \in SubscriberStates
  BY <1>1, <1>2, <1>3, <1>6 DEF SubscriberStates
<1>8. t.of[q] = c /\ \A r \in Channels \ {q} : t.of[r] = s.of[r]
  BY <1>1, <1>7 DEF SubscriberStates
<1>9. ASSUME NEW r \in Channels \ {q} PROVE ChannelSound(t, r)
  BY <1>1, <1>7, <1>8 DEF ChannelSound
<1>10. ChannelSound(t, q)
  <2>1. ChannelSound(s, q)
    BY <1>1
  <2>2. CASE s.of[q].who # {}
    <3>1. /\ t.of[q].who = s.of[q].who \cup {w} /\ t.of[q].turns = s.of[q].turns
          /\ t.of[q].ran = s.of[q].ran
      BY <1>6, <1>8, <2>2
    <3> QED
      BY <1>4, <1>7, <2>1, <2>2, <3>1 DEF ChannelSound
  <2>3. CASE s.of[q].who = {}
    <3>1. /\ t.of[q].who = {w} /\ t.of[q].turns = Append(s.of[q].turns, "subscribe")
          /\ t.of[q].ran = s.of[q].ran /\ t.of[q].turns \in Subscribing
      BY <1>5, <1>6, <1>8, <2>3
    <3>2. t.of[q].turns # <<>> /\ t.of[q].turns # <<"unsubscribe">>
      BY <3>1, TurnsAre
    <3>3. s.of[q].ran => /\ Head(t.of[q].turns) = Head(s.of[q].turns)
                         /\ t.of[q].turns # <<"subscribe">>
      BY <1>5, <2>1, <2>3, <3>1 DEF ChannelSound
    <3> HIDE DEF t
    <3> QED
      BY <1>7, <2>1, <3>1, <3>2, <3>3 DEF ChannelSound
  <2> QED
    BY <2>2, <2>3
<1>11. SubscriberSound(t)
  BY <1>3, <1>7, <1>9, <1>10 DEF SubscriberSound
<1> QED
  BY <1>3, <1>6, <1>7, <1>8, <1>11 DEF JoinsAs, t

\* A call begins to listen: nothing is owed to it, and no close flushes yet.
LEMMA FinishedKeeps == ASSUME WaitsInv, NEW w \in Waits, Finished(w) PROVE WaitsInv'
<1> DEFINE q == ChannelOf[w]
<1>1. /\ wait[w].at = "new" /\ life \in {"open", "closing"} /\ UNCHANGED <<job, life, drops>>
  BY DEF Finished
<1>2. PICK h \in Subscribers :
        /\ IF shared # NoSubscriber THEN h = shared ELSE subscriber[h].conn = "none"
        /\ subscriber' = [subscriber EXCEPT ![h] = Joined(@, q, w)]
        /\ shared' = h
        /\ wait' = [wait EXCEPT ![w].at = IF Ready(subscriber[h], q) THEN Goes(w) ELSE "listen"]
  BY DEF Finished
<1> DEFINE s == subscriber[h]
           t == Joined(s, q, w)
<1>3. q \in Channels /\ wait[w] \in CallStates /\ SubscriberSound(s)
  BY Parts
<1>4. ~s.closing
  <2>1. CASE shared # NoSubscriber
    BY <1>2, <2>1 DEF WaitsInv, SharedSound
  <2>2. CASE shared = NoSubscriber
    <3>1. s.conn = "none"
      BY <1>2, <2>2
    <3>2. ~NewState.closing
      BY DEF NewState
    <3> QED
      BY <1>3, <3>1, <3>2 DEF SubscriberSound
  <2> QED
    BY <2>1, <2>2
<1>5. /\ SubscriberSound(t) /\ t.conn # "none" /\ t.closing = s.closing
      /\ t.pings = s.pings /\ t.in = s.in /\ t.of[q].who = s.of[q].who \cup {w}
      /\ \A r \in Channels \ {q} : t.of[r] = s.of[r]
      /\ s.of[q].who # {} => t.of[q].turns = s.of[q].turns
  <2>1. ChannelOf[w] = q /\ q \in Channels /\ SubscriberSound(s) /\ ~s.closing
    BY <1>3, <1>4
  <2> HIDE DEF q, s
  <2>2. JoinsAs(s, q, w, t)
    BY <2>1, JoinedIs
  <2> QED
    BY <2>2 DEF JoinsAs
<1> HIDE DEF t
<1>6. subscriber'[h] = t /\ \A k \in Subscribers \ {h} : subscriber'[k] = subscriber[k]
  BY <1>2, Parts DEF t
<1>7. \A k \in Subscribers \ {h}, r \in Channels : subscriber[k].of[r].who = {}
  BY <1>2, Parts DEF WaitsInv, SharedSound
<1>8. \A k \in Subscribers : ~Pinged(subscriber[k], Life)
  BY <1>1 DEF WaitsInv, CloseSound
<1>9. \A k \in Subscribers : \A by : Pinged(subscriber'[k], by) <=> Pinged(subscriber[k], by)
  BY <1>5, <1>6 DEF Pinged
<1>10. /\ wait'[w] \in CallStates /\ wait'[w].at \in {"listen", "read", "wait"}
       /\ wait'[w].at # "listen" => Ready(s, q)
       /\ wait'[w].owed = wait[w].owed /\ wait'[w].answer = wait[w].answer
       /\ wait'[w].read = wait[w].read
       /\ wait' \in [Waits -> CallStates] /\ \A v \in Waits \ {w} : wait'[v] = wait[v]
  <2>1. Goes(w) \in {"read", "wait"}
    BY DEF Goes
  <2> DEFINE at == IF Ready(s, q) THEN Goes(w) ELSE "listen"
  <2>2. at \in {"listen", "read", "wait"} /\ (at # "listen" => Ready(s, q))
    BY <2>1
  <2>3. wait' = [wait EXCEPT ![w].at = at]
    BY <1>2
  <2> HIDE DEF at
  <2>4. wait'[w] = [wait[w] EXCEPT !.at = at] /\ \A v \in Waits \ {w} : wait'[v] = wait[v]
    BY <2>3, LifeIs
  <2>5. /\ wait'[w] \in CallStates /\ wait'[w].at = at
        /\ wait'[w].owed = wait[w].owed /\ wait'[w].answer = wait[w].answer
        /\ wait'[w].read = wait[w].read
    BY <1>3, <2>2, <2>4 DEF CallStates
  <2> QED
    BY <2>2, <2>3, <2>4, <2>5, LifeIs
<1>11. ~wait'[w].owed /\ CallSound(wait'[w], job'[q])
  <2>1. CallSound(wait[w], job[q])
    BY Parts
  <2> HIDE DEF q
  <2> QED
    BY <1>1, <1>10, <2>1 DEF CallSound
<1>12. WaitsTyped'
  <2>1. subscriber' \in [Subscribers -> SubscriberStates]
    BY <1>2, <1>5, Parts DEF t, SubscriberSound
  <2> QED
    BY <1>1, <1>2, <1>10, <2>1 DEF WaitsInv, WaitsTyped
<1>13. ASSUME NEW v \in Waits, NEW k \in Subscribers
       PROVE  PlaceSound(v, wait'[v], subscriber'[k])
  <2>1. PlaceSound(v, wait[v], subscriber[k]) /\ ChannelOf[v] \in Channels
    BY Parts
  <2>2. Pinged(subscriber'[k], v) <=> Pinged(subscriber[k], v)
    BY <1>9
  <2>3. CASE k # h
    <3>1. subscriber'[k].of[ChannelOf[v]].who = {} /\ subscriber[k].of[ChannelOf[v]].who = {}
      BY <1>6, <1>7, <2>1, <2>3
    <3>2. ~Pinged(subscriber[k], v) \/ v # w
      BY <1>1, <2>1 DEF PlaceSound
    <3> QED
      BY <1>10, <2>1, <2>2, <3>1, <3>2 DEF PlaceSound
  <2>4. CASE k = h /\ v = w
    <3>1. ~Pinged(s, w) /\ subscriber'[k] = t
      BY <1>1, <1>6, <2>1, <2>4 DEF PlaceSound
    <3>2. wait'[w].at # "listen" => t.of[q].turns = <<>>
      BY <1>3, <1>5, <1>10, ReadyIs
    <3> QED
      BY <1>10, <2>2, <2>4, <3>1, <3>2 DEF PlaceSound
  <2>5. CASE k = h /\ v # w
    <3>1. wait'[v] = wait[v] /\ subscriber'[k] = t
      BY <1>6, <1>10, <2>5
    <3>2. /\ v \in t.of[ChannelOf[v]].who <=> v \in s.of[ChannelOf[v]].who
          /\ v \in s.of[ChannelOf[v]].who => t.of[ChannelOf[v]].turns = s.of[ChannelOf[v]].turns
      BY <1>5, <2>1, <2>5
    <3> QED
      BY <2>1, <2>2, <2>5, <3>1, <3>2 DEF PlaceSound
  <2> QED
    BY <2>3, <2>4, <2>5
<1>14. ASSUME NEW v \in Waits, Owed(wait'[v])
       PROVE  /\ v \notin Workers /\ life' \in {"open", "closing", "flushing"}
              /\ \E k \in Subscribers : /\ v \in subscriber'[k].of[ChannelOf[v]].who
                                        /\ Comes(v, subscriber'[k])
  <2>1. v # w /\ Owed(wait[v]) /\ ChannelOf[v] \in Channels
    BY <1>10, <1>11, <1>14, Parts DEF Owed
  <2>2. PICK k \in Subscribers : /\ v \in subscriber[k].of[ChannelOf[v]].who
                                 /\ Comes(v, subscriber[k])
    BY <2>1 DEF WaitsInv, OwedSound
  <2>3. v \in subscriber'[k].of[ChannelOf[v]].who /\ Comes(v, subscriber'[k])
    BY <1>5, <1>6, <1>7, <2>1, <2>2 DEF Comes
  <2> QED
    BY <1>1, <2>1, <2>3 DEF WaitsInv, OwedSound
<1>15. SharedSound'
  BY <1>2, <1>4, <1>5, <1>6, <1>7 DEF SharedSound
<1>16. CloseSound'
  BY <1>8, <1>9 DEF CloseSound
<1>17. \A k \in Subscribers : SubscriberSound(subscriber'[k])
  BY <1>5, <1>6, Parts
<1>18. \A v \in Waits : CallSound(wait'[v], job'[ChannelOf[v]])
  BY <1>1, <1>10, <1>11, Parts
<1> QED
  BY <1>12, <1>13, <1>14, <1>15, <1>16, <1>17, <1>18 DEF WaitsInv, OwedSound

\* The invariant holds at the start.
LEMMA WaitsStart == FinishedInit => WaitsInv
<1> SUFFICES ASSUME FinishedInit PROVE WaitsInv
  OBVIOUS
<1>1. /\ job = [q \in Channels |-> "there"] /\ subscriber = [h \in Subscribers |-> NewState]
      /\ shared = NoSubscriber /\ wait = [w \in Waits |-> NewWait] /\ life = "open" /\ drops = 0
  BY DEF FinishedInit
<1>2. NoChannel \in ChannelStates /\ NoChannel.who = {} /\ NoChannel.turns = <<>> /\ ~NoChannel.ran
  BY TurnsAre DEF NoChannel, ChannelStates
<1>3. /\ NewState \in SubscriberStates /\ ~NewState.closing /\ NewState.pings = {}
      /\ NewState.in = <<>> /\ NewState.of = [q \in Channels |-> NoChannel]
  <2>1. /\ [q \in Channels |-> NoChannel] \in [Channels -> ChannelStates]
        /\ <<>> \in Seq(Incoming) /\ "none" \in {"none", "opening", "open", "closed"}
    BY <1>2
  <2> QED
    BY <2>1 DEF SubscriberStates, NewState
<1>4. (\A m : ~Within(NewState.in, m)) /\ \A S : OnlyOnce(NewState.in, S)
  BY <1>3 DEF Within, OnlyOnce
<1>5. \A q \in Channels : NewState.of[q].who = {} /\ NewState.of[q].turns = <<>> /\ ~NewState.of[q].ran
  BY <1>2, <1>3
<1>6. \A q \in Channels : ChannelSound(NewState, q)
  BY <1>4, <1>5, TurnsAre DEF ChannelSound
<1>7. SubscriberSound(NewState) /\ \A by : ~Pinged(NewState, by)
  BY <1>3, <1>4, <1>6 DEF SubscriberSound, Pinged
<1>8. NewWait.at = "new" /\ NewWait.answer = "none" /\ NewWait.read = NoRead /\ ~NewWait.owed
      /\ NewWait \in CallStates
  BY DEF NewWait, CallStates
<1>9. WaitsTyped
  BY <1>1, <1>3, <1>8, WaitsAssumption DEF WaitsTyped
<1>10. \A w \in Waits : ChannelOf[w] \in Channels
  BY WaitsAssumption
<1>11. \A h \in Subscribers : subscriber[h] = NewState
  BY <1>1
<1>12. \A w \in Waits : wait[w] = NewWait
  BY <1>1
<1>13. \A w \in Waits : CallSound(wait[w], job[ChannelOf[w]]) /\ OwedSound(w)
  BY <1>8, <1>12 DEF CallSound, OwedSound, Owed
<1>14. \A w \in Waits, h \in Subscribers : PlaceSound(w, wait[w], subscriber[h])
  BY <1>5, <1>7, <1>10, <1>11, <1>12, <1>8 DEF PlaceSound
<1>15. SharedSound /\ CloseSound
  <2>1. NoSubscriber \notin Subscribers
    BY WaitsAssumption DEF NoSubscriber, Subscribers
  <2> QED
    BY <1>1, <1>5, <1>7, <1>11, <2>1 DEF SharedSound, CloseSound
<1> QED
  BY <1>7, <1>9, <1>11, <1>13, <1>14, <1>15 DEF WaitsInv

\* Every step keeps the invariant.
LEMMA WaitsKeeps == WaitsInv /\ [FinishedNext]_finishedVars => WaitsInv'
<1> SUFFICES ASSUME WaitsInv, [FinishedNext]_finishedVars PROVE WaitsInv'
  OBVIOUS
<1>1. CASE UNCHANGED finishedVars
  BY <1>1 DEF finishedVars, WaitsInv, WaitsTyped, OwedSound, SharedSound, CloseSound
<1>2. ASSUME NEW w \in Waits,
             \/ Finished(w) \/ ReadRuns(w) \/ ReadAnswered(w) \/ Reread(w)
             \/ ReadFails(w) \/ TimesOut(w)
      PROVE  WaitsInv'
  BY <1>2, FinishedKeeps, ReadRunsKeeps, ReadAnsweredKeeps, RereadKeeps, ReadFailsKeeps,
     TimesOutKeeps
<1>3. ASSUME NEW h \in Subscribers,
             \/ Opened(h) \/ OpenFails(h) \/ Receive(h) \/ Drop(h) \/ CloseSubscriber(h)
             \/ \E q \in Channels : RunTurn(h, q)
             \/ \E by \in Waits \cup {Life} : RunPing(h, by)
      PROVE  WaitsInv'
  BY <1>3, OpenedKeeps, OpenFailsKeeps, ReceiveKeeps, DropKeeps, CloseSubscriberKeeps,
     RunTurnKeeps, RunPingKeeps
<1>4. ASSUME NEW q \in Ending, JobRemoved(q) \/ \E to \in {"kept", "gone"} : JobEnds(q, to)
      PROVE  WaitsInv'
  BY <1>4, JobRemovedKeeps, JobEndsKeeps, WaitsAssumption
<1>5. CASE CloseBegins \/ CloseFlushes \/ FlushExpires \/ Aborts
  BY <1>5, CloseBeginsKeeps, CloseFlushesKeeps, FlushExpiresKeeps, AbortsKeeps
<1> QED
  BY <1>1, <1>2, <1>3, <1>4, <1>5 DEF FinishedNext

\* A call that was listening when its job ended is not told that there is no
\* such job, nor that the Redis closed, for any number of calls, queues,
\* connections and drops.
THEOREM TellsOutcomeHolds == FinishedSpec => []TellsOutcome
<1>1. WaitsInv => TellsOutcome
  <2>1. ASSUME WaitsInv, NEW w \in Waits
        PROVE  wait[w].answer \in {"not found", "closed"} => ~wait[w].owed
    BY <2>1 DEF WaitsInv, CallSound
  <2> QED
    BY <2>1 DEF TellsOutcome
<1> QED
  BY <1>1, WaitsStart, WaitsKeeps, PTL DEF FinishedSpec

\* Every value is one the calls, the connections and the close can have, and a
\* call listens through one connection at most.
THEOREM FinishedTyped == FinishedSpec => []FinishedTypeOK
<1>1. ASSUME WaitsInv PROVE FinishedTypeOK
  <2>1. ASSUME NEW w \in Waits PROVE Cardinality(SubscriberOf(w)) <= 1
    <3>1. SubscriberOf(w) \subseteq {shared}
      BY <1>1, ListensIs
    <3>2. IsFiniteSet({shared}) /\ Cardinality({shared}) = 1
      BY FS_Singleton
    <3>3. Cardinality(SubscriberOf(w)) <= Cardinality({shared})
      BY <3>1, <3>2, FS_Subset
    <3> QED
      BY <3>2, <3>3
  <2>2. \A w \in Waits : wait[w].at \in {"new", "listen", "read", "flush", "wait", "over"}
    BY <1>1, LifeIs DEF CallStates
  <2> QED
    BY <1>1, <2>1, <2>2 DEF FinishedTypeOK, WaitsInv, WaitsTyped
<1> QED
  BY <1>1, WaitsStart, WaitsKeeps, PTL DEF FinishedSpec
=============================================================================
