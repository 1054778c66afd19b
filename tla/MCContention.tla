---------------------------- MODULE MCContention ----------------------------
(***************************************************************************)
(* What several callers contend for, one behaviour per part: a job that    *)
(* two workers fight over, the slots of a worker whose loop and runs claim *)
(* two jobs, the one id of a bucket that puts, a delete and a reader       *)
(* share, and the keys under which calls of add meet.  `part' is the one   *)
(* that runs; the others stand as they began.                              *)
(***************************************************************************)
EXTENDS MCJobQueue, FileBytes, QueueAdds

CONSTANTS w1, u1, u2, a1, a2

VARIABLE part

MCPieces == (u1 :> <<1, 2>>) @@ (u2 :> <<2>>)

MCChunkSizes == [p \in Putters |-> 2]

\* Each put has a process of its own.
MCProcessOf == [p \in Putters |-> p]

Asking(kind, from, to) == [kind |-> kind, from |-> from, to |-> to]

\* Inside of the file, across its chunks, beyond its end, empty and refused.
MCRanges ==
  {Whole, Asking("from", 1, 0), Asking("from", 3, 0), Asking("between", 1, 1), Asking("between", 2, 9),
   Asking("last", 0, 2), Asking("last", 0, 0), Asking("last", 0, 9), Asking("response", -1, 2),
   Asking("response", 1, 2), Asking("stream", -1, 2), Asking("stream", 2, 1)}

\* Edits of one document, calls in one window, both, and one id twice.
MCBatches ==
  {(a1 :> <<"debounced", "debounced">>) @@ (a2 :> <<"debounced">>),
   (a1 :> <<"throttled", "throttled">>) @@ (a2 :> <<"throttled">>),
   (a1 :> <<"debounced", "throttled">>) @@ (a2 :> <<"named", "bad">>),
   (a1 :> <<"named", "named">>) @@ (a2 :> <<"named">>)}

\* Two workers of one slot, of whom nothing is heard late.
OfOneSlot == INSTANCE JobQueue WITH Concurrency <- 1, MaxTold <- 0

\* One worker of two slots that stays open, whose jobs have one attempt and no delay.
OfTwoSlots == INSTANCE JobQueue WITH
  Workers <- {w1}, Attempts <- 1, KeepAge <- MCKeepNothing, Delays <- {0}, RetryDelays <- MCNoRetry

\* One job at a time.
OneJob == Cardinality({ j \in Jobs : db'.hash[j].state # "none" }) <= 1

\* At most one of the puts is in a transaction.
ContentionInit ==
  /\ part \in {"queue", "slots", "bytes", "adds"}
  /\ IF part = "slots" THEN OfTwoSlots!Init ELSE Init
  /\ FileBytesInit
  /\ part # "bytes" =>
       ~indexed /\ deleter.op = "drop" /\ \A p \in Putters : ~putter[p].within /\ ~putter[p].auto
  /\ part = "bytes" => ~putter[u2].within
  /\ AddsInit /\ (part # "adds" => \A c \in Calls : adder[c].items[1] = "named")

contentionVars == <<vars, byteVars, addVars, part>>

\* The queue may never stop; the others may.
ContentionNext ==
  /\ UNCHANGED part
  /\ \/ part = "queue" /\ OfOneSlot!Next /\ OneJob /\ UNCHANGED <<byteVars, addVars>>
     \/ part = "slots" /\ OfTwoSlots!OpenNext /\ ~db'.paused /\ UNCHANGED <<byteVars, addVars>>
     \/ part = "bytes" /\ FileBytesNext /\ UNCHANGED <<vars, addVars>>
     \/ part = "adds" /\ AddsNext /\ UNCHANGED <<vars, byteVars>>
     \/ part \in {"bytes", "adds"} /\ UNCHANGED <<vars, byteVars, addVars>>

\* Where w1 alone works, no two states differ by the names of the workers only.
ContentionSymmetry == WorkerSymmetry \cup JobSymmetry

ContentionSpec == ContentionInit /\ [][ContentionNext]_contentionVars

=============================================================================
