---------------------------- MODULE Transactions ----------------------------
(***************************************************************************)
(* One call of withTransaction (packages/mongo/src/transaction), the call  *)
(* its callback makes on the same session, and the caller that asks again  *)
(* on a transient error.  The server and the driver's own withTransaction  *)
(* are external: a commit may run and its answer be lost, and the server   *)
(* may drop a transaction nobody committed.                                *)
(***************************************************************************)
EXTENDS Naturals

CONSTANTS
  MaxRuns   \* how many times the callback runs, by the driver's retries and the caller's

ASSUME TransactionsAssumption == MaxRuns \in Nat \ {0}

VARIABLES
  call,     \* the call of withTransaction
  server,   \* what the server holds of its transaction
  applied   \* how many times each part of the work was committed

transactionVars == <<call, server, applied>>

Parts == {"outer", "inner"}

\* "transient": labelled TransientTransactionError, "unknown": labelled
\* UnknownTransactionCommitResult.
Errors == {"transient", "unknown", "other"}

TransactionCall == [phase : {"new", "running", "committing", "over"}, retryTransient : BOOLEAN,
         runs : 0 .. MaxRuns, late : BOOLEAN, answer : Errors \cup {"none", "ok"}]

Server == [state : {"none", "open", "committed", "aborted"}, written : SUBSET Parts]

Nothing == [state |-> "none", written |-> {}]

TransactionsInit ==
  /\ \E retry \in BOOLEAN :
       call = [phase |-> "new", retryTransient |-> retry, runs |-> 0, late |-> FALSE, answer |-> "none"]
  /\ server = Nothing
  /\ applied = [p \in Parts |-> 0]

Running == call.phase = "running"

\* Started; asked again by the caller on a transient error, in a call of its own.
Begin ==
  /\ call.phase = "new" \/ (call.phase = "over" /\ call.answer = "transient")
  /\ call.runs < MaxRuns
  /\ call' = [call EXCEPT !.phase = "running", !.runs = @ + 1, !.late = FALSE, !.answer = "none"]
  /\ server' = [state |-> "open", written |-> {}]
  /\ UNCHANGED applied

Write(part) ==
  /\ Running /\ server.state = "open"
  /\ server' = [server EXCEPT !.written = @ \cup {part}]
  /\ UNCHANGED <<call, applied>>

\* The callback's own work, and that of the call it makes on the session it was
\* given, which joins: nothing of it is committed before the outer call commits.
\* Should the inner one throw and the callback catch it, what it wrote stays.
OuterWrites == Write("outer")

InnerWrites == Write("inner")

Over(answer) == call' = [call EXCEPT !.phase = "over", !.answer = answer]

\* Aborted, and the callback run again from the start.
Rerun ==
  /\ call.runs < MaxRuns
  /\ call' = [call EXCEPT !.phase = "running", !.runs = @ + 1]
  /\ server' = [state |-> "open", written |-> {}]

\* The driver's part: a transient error runs the callback again, until its
\* window closes.  With retryTransient false it is the caller's at once.
Transient ==
  IF call.retryTransient /\ ~call.late THEN Rerun
  ELSE Over("transient") /\ server' = [server EXCEPT !.state = "aborted"]

\* A DataError that wraps a transient driver error is handed to the driver as
\* its own; any other passes through.
CallbackThrows ==
  /\ Running
  /\ \/ Transient
     \/ server.state = "open" /\ Over("other") /\ server' = [server EXCEPT !.state = "aborted"]
  /\ UNCHANGED applied

\* It calls abortTransaction and resolves.  So does the call; but runOnce goes on
\* to commit, which the driver refuses after an abort.
CallbackAborts ==
  /\ Running /\ server.state = "open"
  /\ server' = [state |-> "aborted", written |-> {}]
  /\ Over(IF call.retryTransient THEN "ok" ELSE "other")
  /\ UNCHANGED applied

CallbackResolves ==
  /\ Running /\ server.state = "open"
  /\ call' = [call EXCEPT !.phase = "committing"]
  /\ UNCHANGED <<server, applied>>

\* A mistake: a commit whose result is unknown runs the callback again.
BadUnknown == IF call.late THEN Over("unknown") /\ UNCHANGED server ELSE Rerun

\* It is sent again, alone, within the window.
Unknown == (IF call.late THEN Over("unknown") ELSE UNCHANGED call) /\ UNCHANGED server

\* The commit runs, and is answered; the commit of what is committed is too.
Commit ==
  /\ call.phase = "committing" /\ server.state \in {"open", "committed"}
  /\ applied' = IF server.state = "committed" THEN applied
                ELSE [p \in Parts |-> applied[p] + (IF p \in server.written THEN 1 ELSE 0)]
  /\ server' = [server EXCEPT !.state = "committed"]
  /\ Over("ok")

\* It runs, and its answer is lost: told apart from the above by the next
\* attempt only.
CommitUnseen ==
  /\ call.phase = "committing" /\ server.state = "open"
  /\ applied' = [p \in Parts |-> applied[p] + (IF p \in server.written THEN 1 ELSE 0)]
  /\ server' = [server EXCEPT !.state = "committed"]
  /\ UNCHANGED call

\* No answer, whatever the server holds.
CommitUnknown ==
  /\ call.phase = "committing"
  /\ Unknown
  /\ UNCHANGED applied

\* The server holds no such transaction: labelled transient.
CommitRefused ==
  /\ call.phase = "committing" /\ server.state = "aborted"
  /\ Transient
  /\ UNCHANGED applied

\* The server gives up on a transaction.
ServerAborts ==
  /\ server.state = "open"
  /\ server' = [server EXCEPT !.state = "aborted"]
  /\ UNCHANGED <<call, applied>>

\* The 120 seconds of the driver, and of runOnce.
WindowCloses ==
  /\ call.phase \in {"running", "committing"} /\ ~call.late
  /\ call' = [call EXCEPT !.late = TRUE]
  /\ UNCHANGED <<server, applied>>

TransactionsNext ==
  \/ Begin \/ OuterWrites \/ InnerWrites
  \/ CallbackThrows \/ CallbackAborts \/ CallbackResolves
  \/ Commit \/ CommitUnseen \/ CommitUnknown \/ CommitRefused \/ ServerAborts \/ WindowCloses

TransactionsSpec == TransactionsInit /\ [][TransactionsNext]_transactionVars

(***************************************************************************)
(* Properties                                                              *)
(***************************************************************************)

\* The types of the three variables.
TransactionsTypeOK ==
  /\ call \in TransactionCall /\ server \in Server
  /\ applied \in [Parts -> 0 .. MaxRuns]

\* However often the callback ran, by the driver's hand or by the caller's
\* own retry of a transient error, its work is applied once at most: a commit
\* that may have run is asked again alone, and what a joined call wrote goes
\* with the rest (with-transaction.ts commitRetryingUnknownResult).
AppliedOnce ==
  /\ \A p \in Parts : applied[p] <= 1
  /\ applied["inner"] = 1 => server.state = "committed"

=============================================================================
