----------------------------- MODULE MCJobQueue -----------------------------
(* Small instances of JobQueue. *)
EXTENDS JobQueue, TLC

MCOnePriority == [j \in Jobs |-> 0]

\* One urgent job, the others alike.
MCTwoPriorities ==
  LET first == CHOOSE j \in Jobs : TRUE
  IN  [j \in Jobs |-> IF j = first THEN 0 ELSE 1]

MCRetryDelays == {-1, 1}

MCNoRetry == {-1}

MCKeepNothing == -1

WorkerSymmetry == Permutations(Workers)

JobSymmetry == Permutations(Jobs)

\* The worker that stays up, for liveness.
Steady == CHOOSE w \in Workers : TRUE

\* Workers that stay open, cut off by what their renewals tell them.
BatonSpec == Init /\ [][OpenNext /\ \A m \in told' : m.what = "lost"]_vars

LiveSpec == Init /\ [][BusyNext({Steady})]_vars /\ Fairness

=============================================================================
