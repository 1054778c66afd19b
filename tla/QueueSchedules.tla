--------------------------- MODULE QueueSchedules ---------------------------
(***************************************************************************)
(* The schedules of a queue (packages/redis/src/queue/schedule, its        *)
(* scripts, and the worker that fires them).  Every moment is computed by  *)
(* a client, on its own clock, and reaches Redis later, when a script      *)
(* compares it with what is stored: two workers may hold the same due      *)
(* schedule, and a schedule may be replaced while one of them holds it.    *)
(*                                                                         *)
(* No fired job is kept: its id would hide a second firing.                *)
(***************************************************************************)
EXTENDS Integers, FiniteSets

CONSTANTS
  Schedules,     \* schedule ids
  Specs,         \* what a schedule may say
  Firers,        \* workers
  Admins,        \* the callers of schedules.upsert, and the processes that run SYNC
  Lists,         \* the schedules a definition may have: each a function of Schedules
  Skews,         \* how far a client's clock is from the server's
  MaxTime,       \* bound on the server's clock
  MaxFired,      \* bound on the firings of an occurrence that a late call wrote again
  Defer,         \* how long a schedule that no longer parses is put aside
  NoSpec

ASSUME SchedulesAssumption ==
  /\ Specs \subseteq [kind : {"every", "cron", "broken"}, period : Nat \ {0}]
  /\ NoSpec \notin Specs /\ Lists \subseteq [Schedules -> Specs \cup {NoSpec}]
  /\ Skews \subseteq Int /\ {MaxTime, MaxFired} \subseteq Nat /\ Defer \in Nat \ {0}

VARIABLES
  clock,     \* the server's
  schedules, \* hash and score of each
  owned,     \* the set schedulesDefinition
  firer,     \* the due schedule each worker holds
  admin,     \* the call each admin has on its way
  fired,     \* how many jobs each occurrence added
  late       \* occurrences a call wrote when their moment had passed

scheduleVars == <<clock, schedules, owned, firer, admin, fired, late>>

\* As far as a moment computed within the bound goes.
Moments == 0 .. 2 * MaxTime + Defer + 3

NoSchedule == [spec |-> NoSpec, origin |-> "none", next |-> 0]

NothingDue == [id |-> NoSpec, spec |-> NoSpec, due |-> 0]

NoCall == [call |-> "none", specs |-> [s \in Schedules |-> NoSpec], next |-> [s \in Schedules |-> 0]]

SchedulesInit ==
  /\ clock = 0
  /\ schedules = [s \in Schedules |-> NoSchedule]
  /\ owned = {}
  /\ firer = [w \in Firers |-> NothingDue]
  /\ admin = [a \in Admins |-> NoCall]
  /\ fired = [o \in Schedules \X (0 .. MaxTime) |-> 0]
  /\ late = {}

Later(a, b) == IF a > b THEN a ELSE b

\* The first point of the cron's grid after t.
NextAfter(period, t) == (t \div period + 1) * period

\* The first due + k * period after now, k at least 1: the grid keeps its
\* phase, whatever was missed.
NextEvery(due, period, now) == due + Later(1, (now - due) \div period + 1) * period

NextOf(spec, due, now) ==
  IF spec.kind = "every" THEN NextEvery(due, spec.period, now)
  ELSE NextAfter(spec.period, Later(due, now))

FirstNext(spec, now) ==
  IF spec.kind = "every" THEN now + spec.period ELSE NextAfter(spec.period, now)

\* A client's clock.
ClientTimes == { clock + k : k \in Skews } \cap Nat

(***************************************************************************)
(* Writing schedules                                                       *)
(***************************************************************************)

\* The client works out the first occurrences, and sends the call.
SendUpsert(a, s, spec) ==
  /\ admin[a] = NoCall
  /\ \E now \in ClientTimes :
       admin' = [admin EXCEPT ![a] = [call |-> "upsert",
                                      specs |-> [t \in Schedules |-> IF t = s THEN spec ELSE NoSpec],
                                      next |-> [t \in Schedules |-> IF t = s THEN FirstNext(spec, now) ELSE 0]]]
  /\ UNCHANGED <<clock, schedules, owned, firer, fired, late>>

\* Once per process, and again where it failed.
SendSync(a, list) ==
  /\ admin[a] = NoCall
  /\ \E now \in ClientTimes :
       admin' = [admin EXCEPT ![a] =
         [call |-> "sync", specs |-> list,
          next |-> [s \in Schedules |-> IF list[s] = NoSpec THEN 0 ELSE FirstNext(list[s], now)]]]
  /\ UNCHANGED <<clock, schedules, owned, firer, fired, late>>

Listed(a) == { s \in Schedules : admin[a].specs[s] # NoSpec }

\* A definition schedule is refused.
Writable(a) == IF admin[a].call = "sync" THEN Listed(a)
               ELSE { s \in Listed(a) : schedules[s].origin # "definition" }

\* A mistake: a restart writes the next occurrence over the one that is stored.
BadKeeps(a, s) == FALSE

\* SYNC keeps the stored moment of a schedule that says the same.
Keeps(a, s) == admin[a].call = "sync" /\ schedules[s].spec = admin[a].specs[s]

Upserted(a, s) ==
  [spec |-> admin[a].specs[s],
   origin |-> IF admin[a].call = "sync" THEN "definition" ELSE "runtime",
   next |-> IF Keeps(a, s) THEN schedules[s].next ELSE admin[a].next[s]]

\* UPSERT, or SYNC: what the definition no longer has goes.
ArriveCall(a) ==
  /\ admin[a] # NoCall
  /\ schedules' = [s \in Schedules |->
       IF s \in Writable(a) THEN Upserted(a, s)
       ELSE IF admin[a].call = "sync" /\ s \in owned /\ schedules[s].origin = "definition" THEN NoSchedule
       ELSE schedules[s]]
  /\ owned' = IF admin[a].call = "sync" THEN Listed(a) ELSE owned
  /\ late' = late \cup { <<s, admin[a].next[s]>> :
                         s \in { t \in Writable(a) : admin[a].next[t] <= clock /\ ~Keeps(a, t) } }
  /\ admin' = [admin EXCEPT ![a] = NoCall]
  /\ UNCHANGED <<clock, firer, fired>>

LoseCall(a) ==
  /\ admin[a] # NoCall
  /\ admin' = [admin EXCEPT ![a] = NoCall]
  /\ UNCHANGED <<clock, schedules, owned, firer, fired, late>>

Unschedule(s) ==
  /\ schedules[s] # NoSchedule /\ schedules[s].origin # "definition"
  /\ schedules' = [schedules EXCEPT ![s] = NoSchedule]
  /\ UNCHANGED <<clock, owned, firer, admin, fired, late>>

(***************************************************************************)
(* Firing                                                                  *)
(***************************************************************************)

\* A claim reports what is due; the worker comes to it one by one.
ClaimDue(w, s) ==
  /\ firer[w] = NothingDue
  /\ schedules[s] # NoSchedule /\ schedules[s].next <= clock
  /\ firer' = [firer EXCEPT ![w] = [id |-> s, spec |-> schedules[s].spec, due |-> schedules[s].next]]
  /\ UNCHANGED <<clock, schedules, owned, admin, fired, late>>

\* A mistake: the schedule is there, whenever it is due.
BadStillDue(w) == schedules[firer[w].id] # NoSchedule

\* Still scored at the moment the worker was told of: else it finds nothing to
\* do.
StillDue(w) ==
  /\ schedules[firer[w].id] # NoSchedule
  /\ schedules[firer[w].id].next = firer[w].due
  /\ firer[w].due <= clock

\* FIRE: the job, and the next occurrence, worked out on the worker's clock.
Fire(w) ==
  /\ firer[w] # NothingDue /\ firer[w].spec.kind # "broken"
  /\ \E now \in ClientTimes :
       IF StillDue(w)
       THEN /\ fired[<<firer[w].id, firer[w].due>>] < MaxFired
            /\ schedules' = [schedules EXCEPT ![firer[w].id].next = NextOf(firer[w].spec, firer[w].due, now)]
            /\ fired' = [fired EXCEPT ![<<firer[w].id, firer[w].due>>] = @ + 1]
       ELSE UNCHANGED <<schedules, fired>>
  /\ firer' = [firer EXCEPT ![w] = NothingDue]
  /\ UNCHANGED <<clock, owned, admin, late>>

\* DEFER: a spec that no longer parses is put aside.
Deferred(w) ==
  /\ firer[w] # NothingDue /\ firer[w].spec.kind = "broken"
  /\ \E now \in ClientTimes :
       IF StillDue(w) /\ now + Defer > firer[w].due
       THEN schedules' = [schedules EXCEPT ![firer[w].id].next = now + Defer]
       ELSE UNCHANGED schedules
  /\ firer' = [firer EXCEPT ![w] = NothingDue]
  /\ UNCHANGED <<clock, owned, admin, fired, late>>

\* The call fails, the worker closes or crashes: the rest of its round is left
\* to the next claim.
LeaveRound(w) ==
  /\ firer[w] # NothingDue
  /\ firer' = [firer EXCEPT ![w] = NothingDue]
  /\ UNCHANGED <<clock, schedules, owned, admin, fired, late>>

SchedulesTick ==
  /\ clock < MaxTime
  /\ clock' = clock + 1
  /\ UNCHANGED <<schedules, owned, firer, admin, fired, late>>

SchedulesNext ==
  \/ \E a \in Admins :
       \/ \E s \in Schedules, spec \in Specs : SendUpsert(a, s, spec)
       \/ \E list \in Lists : SendSync(a, list)
       \/ ArriveCall(a) \/ LoseCall(a)
  \/ \E s \in Schedules : Unschedule(s) \/ \E w \in Firers : ClaimDue(w, s)
  \/ \E w \in Firers : Fire(w) \/ Deferred(w) \/ LeaveRound(w)
  \/ SchedulesTick

SchedulesSpec == SchedulesInit /\ [][SchedulesNext]_scheduleVars

(***************************************************************************)
(* Properties                                                              *)
(***************************************************************************)

\* The types of the seven variables.
SchedulesTypeOK ==
  /\ clock \in 0 .. MaxTime
  /\ schedules \in [Schedules -> [spec : Specs, origin : {"definition", "runtime"}, next : Moments] \cup {NoSchedule}]
  /\ owned \subseteq Schedules
  /\ firer \in [Firers -> [id : Schedules, spec : Specs, due : Moments] \cup {NothingDue}]
  /\ admin \in [Admins -> [call : {"none", "upsert", "sync"}, specs : [Schedules -> Specs \cup {NoSpec}],
                           next : [Schedules -> Moments]]]
  /\ fired \in [Schedules \X (0 .. MaxTime) -> Nat]
  /\ late \subseteq Schedules \X Moments

\* An occurrence adds one job at most, however many workers hold it, whatever
\* replaces the schedule meanwhile and however far their clocks are apart;
\* unless a call on its way for longer than the schedule's own wait wrote a
\* moment that had passed, from which the schedule goes on (schedule.ts FIRE,
\* fire.ts nextOf).
OncePerOccurrence ==
  \A s \in Schedules, t \in 0 .. MaxTime :
    fired[<<s, t>>] <= 1 \/ \E u \in 0 .. t : <<s, u>> \in late

\* The moment of a schedule that its definition goes on having had come, and
\* moves on though no worker holds it as it was when it did not parse.
DueMovesOn(s) ==
  /\ schedules[s].origin = "definition" /\ schedules'[s].origin = "definition"
  /\ schedules'[s].spec = schedules[s].spec
  /\ ~\E w \in Firers : firer[w].id = s /\ firer[w].spec.kind = "broken"
  /\ schedules[s].next <= clock /\ schedules'[s].next # schedules[s].next

\* No deploy skips an occurrence: the moment of a schedule its definition goes
\* on having moves on, once it has come, by adding its job only; unless a worker
\* still holds the schedule as it was when it did not parse, and puts it aside
\* (schedule.ts SYNC, FIRE, DEFER).
DueIsFired ==
  [][\A s \in Schedules :
       DueMovesOn(s) => fired'[<<s, schedules[s].next>>] = fired[<<s, schedules[s].next>>] + 1]_scheduleVars

=============================================================================
