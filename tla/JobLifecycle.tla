---------------------------- MODULE JobLifecycle ----------------------------
(***************************************************************************)
(* What a queue promises of each job, with nothing of its sets, tokens,    *)
(* leases or workers (packages/redis/docs/guide/queues.md, "Running at     *)
(* least once"): a job is tried at most Attempts times, an attempt ends    *)
(* once, a job that completed never runs again, a job that failed runs     *)
(* again only when it is retried by hand, and nothing starts while the     *)
(* queue is paused.                                                        *)
(*                                                                         *)
(* One script moves several jobs, each by a move of its own.               *)
(***************************************************************************)
EXTENDS Naturals

CONSTANTS Jobs, Attempts

VARIABLES status, attempt, paused

Queued == {"waiting", "delayed"}

Init ==
  /\ status = [j \in Jobs |-> "none"]
  /\ attempt = [j \in Jobs |-> 0]
  /\ paused = FALSE

To(j, st, n) == status'[j] = st /\ attempt'[j] = n

Add(j)    == status[j] = "none" /\ \E st \in Queued : To(j, st, 0)

\* A delayed job falls due, or a retry is promoted.
Queue(j)  == status[j] \in Queued /\ To(j, "waiting", attempt[j])

Start(j)  == /\ status[j] \in Queued /\ ~paused
             /\ attempt[j] < Attempts /\ To(j, "active", attempt[j] + 1)

Complete(j) == status[j] = "active" /\ To(j, "completed", attempt[j])

\* The attempt failed or its lease lapsed, with another one left ...
TryAgain(j) ==
  /\ status[j] = "active" /\ attempt[j] < Attempts
  /\ \/ \E st \in Queued : To(j, st, attempt[j])
     \/ ~paused /\ To(j, "active", attempt[j] + 1)

\* ... or for good.
Fail(j)   == status[j] = "active" /\ To(j, "failed", attempt[j])

\* Claimed by a worker that was closing, and never started.
GiveBack(j) == status[j] = "active" /\ attempt[j] > 0 /\ To(j, "waiting", attempt[j] - 1)

\* Retried by hand.
Retry(j)  == status[j] = "failed" /\ To(j, "waiting", 0)

\* Canceled, removed, or no longer retained.
Leave(j)  == status[j] # "none" /\ To(j, "none", 0)

Stay(j)   == To(j, status[j], attempt[j])

Move(j) ==
  \/ Stay(j)
  \/ Add(j) \/ Queue(j) \/ Start(j) \/ Complete(j) \/ TryAgain(j) \/ Fail(j)
  \/ GiveBack(j) \/ Retry(j) \/ Leave(j)

Next == paused' \in BOOLEAN /\ \A j \in Jobs : Move(j)

Spec == Init /\ [][Next]_<<status, attempt, paused>>

=============================================================================
