---------------------------- MODULE Idempotency -----------------------------
(***************************************************************************)
(* One key of an idempotent operation (packages/redis/src/idempotency):    *)
(* calls of `run' take the key, run their work under a renewed lease and   *)
(* store its result, or replay, wait for or refuse what holds the key.     *)
(*                                                                         *)
(* Every step is a script over one hash.  A connection runs what it was    *)
(* sent in order, but a script is first sent by its SHA alone, and sent    *)
(* again in full, behind whatever followed it, where the server does not   *)
(* hold it.  A call that stops waiting for an answer withdraws nothing.    *)
(***************************************************************************)
EXTENDS Naturals, Sequences

CONSTANTS
  Runs,             \* the calls of run, each with a token of its own
  Prints,           \* fingerprints
  Requests,         \* the fingerprints the calls may have, each a function of Runs
  Lease, Ttl,       \* how long the key is held unless renewed, and a result kept
  MaxWait,          \* how long a call waits for a running key
  MaxPipe,          \* bounds the renewals: none is sent behind this many commands
  LosesConnection,  \* whether connections fail
  NoRun             \* nobody

ASSUME IdempotencyAssumption ==
  /\ Lease \in Nat /\ Ttl \in Nat /\ MaxWait \in Nat /\ MaxPipe \in Nat
  /\ Requests \subseteq [Runs -> Prints]
  /\ LosesConnection \in BOOLEAN /\ NoRun \notin Runs

VARIABLES
  key,      \* the record in Redis
  run       \* the calls

vars == <<key, run>>

Scripts == {"begin", "complete", "renew", "release"}

\* `by' is the token of a running record; of a done one, the run whose result
\* it holds.  `left' is the time until it expires.
Keys == [state : {"running", "done"}, by : Runs, print : Prints, left : 0 .. Lease + Ttl]

Free == [state |-> "free"]

Commands == [script : Scripts, full : BOOLEAN]

Answers == [script : Scripts, what : {"noscript", "started", "mismatch", "corrupt",
                                      "running", "done", "yes", "no"},
            by : Runs \cup {NoRun}]

\* Where a call ended, by what its caller is told.
Ends == {"stored", "replayed", "refused", "gave up", "threw", "lost", "unknown", "crashed"}

Phases == {"new", "taking", "pausing", "working", "storing", "giving back"} \cup Ends

\* `pipe': sent and not run yet; `answers': on their way back; `lost': the
\* heartbeat's; `value': the run whose result it replays; `taken': the key was
\* taken from it, by its lease or by forget.
Call == [phase : Phases, print : Prints, wait : 0 .. MaxWait, lost : BOOLEAN,
         taken : BOOLEAN, value : Runs \cup {NoRun},
         pipe : Seq(Commands), answers : Seq(Answers)]

Init ==
  /\ key = Free
  /\ \E prints \in Requests :
       run = [r \in Runs |->
               [phase |-> "new", print |-> prints[r], wait |-> MaxWait, lost |-> FALSE,
                taken |-> FALSE, value |-> NoRun, pipe |-> <<>>, answers |-> <<>>]]

(***************************************************************************)
(* The scripts                                                             *)
(***************************************************************************)

Answer(script, what, by) == [script |-> script, what |-> what, by |-> by]

Held(r) == key.state = "running" /\ key.by = r

\* A mistake: whoever asks, a running record is stored over.
BadCompletes(r) == key.state = "running"

Completes(r) == Held(r)

SameRequest(r) == key.print = run[r].print

\* A mistake: a record about to expire is taken for one that did.
BadTakes == key.state = "free" \/ key.left = 0

\* A record is there through the millisecond it expires at.
Takes == key.state = "free"

\* In that millisecond its PTTL is 0, which BEGIN takes for a record without an
\* expiry: corrupt.
BeginAnswer(r) ==
  CASE Takes                      -> Answer("begin", "started", NoRun)
    [] ~Takes /\ key.left = 0      -> Answer("begin", "corrupt", NoRun)
    [] ~Takes /\ key.left > 0 /\ ~SameRequest(r) -> Answer("begin", "mismatch", NoRun)
    [] OTHER -> Answer("begin", key.state, IF key.state = "done" THEN key.by ELSE NoRun)

AnswerOf(r, script) ==
  CASE script = "begin"    -> BeginAnswer(r)
    [] script = "complete" -> Answer(script, IF Completes(r) THEN "yes" ELSE "no", NoRun)
    [] OTHER               -> Answer(script, IF Held(r) THEN "yes" ELSE "no", NoRun)

\* Compare and delete.
Released(r) == IF Held(r) THEN Free ELSE key

KeyAfter(r, script) ==
  CASE script = "begin" /\ Takes ->
         [state |-> "running", by |-> r, print |-> run[r].print, left |-> Lease]
    [] script = "complete" /\ Completes(r) ->
         [state |-> "done", by |-> r, print |-> key.print, left |-> Ttl]
    [] script = "renew" /\ Held(r) -> [key EXCEPT !.left = Lease]
    [] script = "release" -> Released(r)
    [] OTHER -> key

\* Of the answers to a call that is over, only NOSCRIPT has an effect, and none
\* once its process died.
Minded(c, a) == c.phase \notin Ends \/ (a.what = "noscript" /\ c.phase # "crashed")

\* The server runs what the connection of r sent next, or answers NOSCRIPT.
\* Which scripts it holds changes at any time: calls with other keys load them,
\* and a restart, a failover or SCRIPT FLUSH forgets them.
Serve(r) ==
  /\ run[r].pipe # <<>>
  /\ \E known \in BOOLEAN :
       LET c == Head(run[r].pipe)
           answer == IF known THEN AnswerOf(r, c.script) ELSE Answer(c.script, "noscript", NoRun)
     IN  /\ c.full => known
         /\ key' = IF known THEN KeyAfter(r, c.script) ELSE key
         /\ run' = [run EXCEPT ![r].pipe = Tail(@),
                               ![r].answers = IF Minded(run[r], answer)
                                              THEN Append(@, answer) ELSE @]

(***************************************************************************)
(* A call                                                                  *)
(***************************************************************************)

Sent(c, script) == [c EXCEPT !.pipe = Append(@, [script |-> script, full |-> FALSE])]

\* What a call that is over does not need any more.
Settled(c) == IF c.phase \in Ends THEN [c EXCEPT !.wait = 0, !.lost = FALSE] ELSE c

Becomes(r, c) == run' = [run EXCEPT ![r] = Settled(c)] /\ UNCHANGED key

Begin(r) ==
  /\ run[r].phase \in {"new", "pausing"}
  /\ Becomes(r, Sent([run[r] EXCEPT !.phase = "taking"], "begin"))

\* beginOrWait, then run or notStarted: what BEGIN answered.
Begun(c, a) ==
  CASE a.what = "started" -> [c EXCEPT !.phase = "working"]
    [] a.what = "done"    -> [c EXCEPT !.phase = "replayed", !.value = a.by]
    [] a.what = "running" -> [c EXCEPT !.phase = IF c.wait > 0 THEN "pausing" ELSE "refused"]
    [] OTHER              -> [c EXCEPT !.phase = "refused"]

\* What a call does with an answer.  One it stopped waiting for changes nothing
\* but for NOSCRIPT: the script is sent again, in full.
After(c, a) ==
  CASE a.what = "noscript" -> [c EXCEPT !.pipe = Append(@, [script |-> a.script, full |-> TRUE])]
    [] a.what # "noscript" /\ a.script = "begin" /\ c.phase = "taking" -> Begun(c, a)
    [] a.what = "no" /\ a.script = "renew" /\ c.phase = "working" -> [c EXCEPT !.lost = TRUE]
    [] a.what \in {"yes", "no"} /\ a.script = "complete" /\ c.phase = "storing" ->
         [c EXCEPT !.phase = IF a.what = "yes" THEN "stored" ELSE "lost"]
    [] a.what \in {"yes", "no"} /\ a.script = "release" /\ c.phase = "giving back" ->
         [c EXCEPT !.phase = "threw"]
    [] OTHER -> c

Hear(r) ==
  /\ run[r].answers # <<>>
  /\ Becomes(r, [After(run[r], Head(run[r].answers)) EXCEPT !.answers = Tail(@)])

\* The renewals stop with the work, and once one found the key lost.
Beats(r) == run[r].phase = "working" /\ ~run[r].lost

\* keepLease: every third of the lease, where the process gets to it.
Beat(r) ==
  /\ Beats(r) /\ Len(run[r].pipe) + Len(run[r].answers) < MaxPipe
  /\ Becomes(r, Sent(run[r], "renew"))

\* A run that knows its key was taken stores nothing.
Stores(c) == IF c.lost THEN [c EXCEPT !.phase = "lost"]
             ELSE [Sent(c, "complete") EXCEPT !.phase = "storing"]

WorkReturns(r) == run[r].phase = "working" /\ Becomes(r, Stores(run[r]))

\* work throws, or its result does not fit the schema.
WorkThrows(r) ==
  /\ run[r].phase = "working"
  /\ Becomes(r, Sent([run[r] EXCEPT !.phase = "giving back"], "release"))

\* How a call goes on when the command it waits for fails: a BEGIN is followed
\* by a release nobody waits for.
Failed(c) ==
  CASE c.phase = "taking"      -> Sent([c EXCEPT !.phase = "gave up"], "release")
    [] c.phase = "storing"     -> [c EXCEPT !.phase = "unknown"]
    [] c.phase = "giving back" -> [c EXCEPT !.phase = "threw"]
    [] OTHER                   -> c

\* No answer within timeoutMs.
TimeOut(r) ==
  /\ run[r].phase \in {"taking", "storing", "giving back"}
  /\ Becomes(r, Failed(run[r]))

\* The connection fails: what it did not run yet, and its answers, are gone.
\* A release sent at once may find no connection either.
LoseConnection(r) ==
  /\ LosesConnection /\ (run[r].pipe # <<>> \/ run[r].answers # <<>>)
  /\ LET cut == [run[r] EXCEPT !.pipe = <<>>, !.answers = <<>>]
     IN  \E c \in {Failed(cut), [Failed(cut) EXCEPT !.pipe = <<>>]} : Becomes(r, c)

\* The process dies.  What it sent may still run.
Crash(r) ==
  /\ run[r].phase \notin Ends \cup {"new"}
  /\ Becomes(r, [run[r] EXCEPT !.phase = "crashed", !.answers = <<>>])

(***************************************************************************)
(* The rest of the world                                                   *)
(***************************************************************************)

\* The key is gone, and with it the lease of the run that held it.
Gone ==
  /\ key' = Free
  /\ run' = [r \in Runs |-> [run[r] EXCEPT !.taken = @ \/ Held(r)]]

\* forget, by hand.
Forget == key.state # "free" /\ Gone

Waited(c) == [c EXCEPT !.wait = IF c.phase \in {"taking", "pausing"} /\ @ > 0 THEN @ - 1 ELSE @]

Tick ==
  /\ \/ key.state # "free" \/ \E r \in Runs : Waited(run[r]) # run[r]
  /\ key' = IF key.state = "free" \/ key.left = 0 THEN Free ELSE [key EXCEPT !.left = @ - 1]
  /\ run' = [r \in Runs |->
       [Waited(run[r]) EXCEPT !.taken = @ \/ (Held(r) /\ key.left = 0)]]

Next ==
  \/ \E r \in Runs :
       \/ Begin(r) \/ Serve(r) \/ Hear(r) \/ Beat(r) \/ WorkReturns(r) \/ WorkThrows(r)
       \/ TimeOut(r) \/ LoseConnection(r) \/ Crash(r)
  \/ Forget \/ Tick

\* Redis lets keys expire.
Spec == Init /\ [][Next]_vars

(***************************************************************************)
(* Properties                                                              *)
(***************************************************************************)

\* The types of the two variables.
TypeOK ==
  /\ key \in Keys \cup {Free}
  /\ run \in [Runs -> Call]

\* Two calls run their work at once only where the key was taken from one of
\* them, by its lease or by forget: never for a late, lost, repeated or
\* reordered command (run.ts).
WorksAlone == \A r, s \in Runs :
  run[r].phase = "working" /\ run[s].phase = "working" =>
    r = s \/ run[r].taken \/ run[s].taken

\* A result that is stored is the one of a run that never lost the key, and a
\* caller told LEASE_LOST ("its result was not stored", run.ts leaseLost) is
\* told the truth, whatever is still under way.
StoredByHolder == \A r \in Runs :
  key.state = "done" /\ key.by = r => ~run[r].taken /\ run[r].phase # "lost"

\* What a call replays is the result of work that succeeded for the same
\* request: never one of work that threw, nor one of a call that never took
\* the key.
ReplaysAsked == \A r \in Runs :
  LET v == run[r].value
  IN  v # NoRun => /\ run[v].print = run[r].print
                   /\ run[v].phase \in {"storing", "stored", "unknown", "crashed"}

\* Both: the record is the result of the work it says, and its caller knows.
ResultsHold == StoredByHolder /\ ReplaysAsked

\* What take says of a BEGIN that failed: a release "is sent behind it ... so
\* it frees a key the late BEGIN took" (run.ts).  Once nothing is under way, a
\* call that gave up holds no key, where no connection failed.
GivenBack == \A r \in Runs :
  run[r].phase = "gave up" /\ run[r].pipe = <<>> /\ run[r].answers = <<>> => ~Held(r)

=============================================================================
