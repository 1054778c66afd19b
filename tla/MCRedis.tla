------------------------------ MODULE MCRedis -------------------------------
(***************************************************************************)
(* Parts of the redis package beside its job queue's store, one of them    *)
(* per behaviour: calls under an idempotency key, a lock, the steps of a   *)
(* job, the groups of a queue, its schedules, the streams of a channel, a  *)
(* rate limit, the waits for a job's end, and the clients that what is     *)
(* opened shares.  `part' is the one that runs; the others stand as they   *)
(* began.                                                                  *)
(***************************************************************************)
EXTENDS MCIdempotency, RedisLock, QueueSteps, GroupedQueue, QueueSchedules,
        KeyedStreams, RateLimit, FinishedWaits, MCConnections

CONSTANTS j1, j2, j3, ga, gb, s1, i1, i2, i3, n1, ka, kb, w1, w2, w3, q1, q2

VARIABLE part

\* Two jobs of one group, and one of another.
MCBelongs == (j1 :> ga) @@ (j2 :> ga) @@ (j3 :> gb)

MCDefinitions == {[grouped |-> TRUE, cap |-> 1], [grouped |-> FALSE, cap |-> 0]}

Each(kind, period) == [kind |-> kind, period |-> period]

MCSpecs == {Each("every", 1), Each("cron", 2), Each("broken", 2)}

\* What a definition lists: nothing, a cron of its own, or one nobody can read.
MCLists == [Schedules -> {NoSpec, Each("cron", 2), Each("broken", 2)}]

\* A worker's clock is the server's, or one behind.
MCSkews == {-1, 0}

\* Two iterators of the key of the message, and one of another.
MCKeyOf == (i1 :> ka) @@ (i2 :> ka) @@ (i3 :> kb) @@ (n1 :> ka)

\* Two calls about one queue, and a worker of another.
MCChannelOf == (w1 :> q1) @@ (w2 :> q1) @@ (w3 :> q2)

\* The two are alike: the first that calls is w1.  The server drops a
\* connection of two calls; all three have one that it does not.
FewCalls ==
  /\ wait'[w1].at = "new" => wait'[w2].at = "new"
  /\ drops' # 0 => \E w \in Waits : wait'[w].at = "new"

RedisInit ==
  /\ part \in {"idempotency", "lock", "steps", "groups", "schedules", "streams", "limit", "waits", "connections"}
  /\ Init /\ (part # "idempotency" => \A r \in Runs : run[r].print = f1)
  /\ LockInit /\ StepsInit /\ GroupsInit /\ SchedulesInit
  /\ StreamsInit /\ (part # "streams" => ~fallback)
  /\ LimitInit /\ (part # "limit" => ahead = 0)
  /\ FinishedInit /\ ConnectionsInit

redisVars ==
  <<vars, lockVars, stepVars, groupVars, scheduleVars, streamVars, limitVars, finishedVars,
    connectionVars, part>>

RedisNext ==
  /\ UNCHANGED part
  /\ \/ part = "idempotency" /\ Next
          /\ UNCHANGED <<lockVars, stepVars, groupVars, scheduleVars, streamVars,
                         limitVars, finishedVars, connectionVars>>
     \/ part = "lock" /\ LockNext
          /\ UNCHANGED <<vars, stepVars, groupVars, scheduleVars, streamVars,
                         limitVars, finishedVars, connectionVars>>
     \/ part = "steps" /\ StepsNext
          /\ UNCHANGED <<vars, lockVars, groupVars, scheduleVars, streamVars,
                         limitVars, finishedVars, connectionVars>>
     \/ part = "groups" /\ GroupsNext
          /\ UNCHANGED <<vars, lockVars, stepVars, scheduleVars, streamVars,
                         limitVars, finishedVars, connectionVars>>
     \/ part = "schedules" /\ SchedulesNext
          /\ UNCHANGED <<vars, lockVars, stepVars, groupVars, streamVars,
                         limitVars, finishedVars, connectionVars>>
     \/ part = "streams" /\ StreamsNext
          /\ UNCHANGED <<vars, lockVars, stepVars, groupVars, scheduleVars,
                         limitVars, finishedVars, connectionVars>>
     \/ part = "limit" /\ LimitNext
          /\ UNCHANGED <<vars, lockVars, stepVars, groupVars, scheduleVars,
                         streamVars, finishedVars, connectionVars>>
     \/ part = "waits" /\ FinishedNext /\ FewCalls
          /\ UNCHANGED <<vars, lockVars, stepVars, groupVars, scheduleVars,
                         streamVars, limitVars, connectionVars>>
     \/ part = "connections" /\ ConnectionsNext
          /\ UNCHANGED <<vars, lockVars, stepVars, groupVars, scheduleVars,
                         streamVars, limitVars, finishedVars>>

RedisSpec == RedisInit /\ [][RedisNext]_redisVars

=============================================================================
