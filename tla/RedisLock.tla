------------------------------ MODULE RedisLock ------------------------------
(***************************************************************************)
(* withLock (packages/redis/src/lock/with-lock.ts): SET NX PX, the work,   *)
(* and a release that looks at the token first.  Nothing renews the lock:  *)
(* its ttl may run out at any moment of the work, and of the calls around  *)
(* it, the answer of the SET included.  Each call has a token of its own,  *)
(* so a call stands for its token.                                         *)
(***************************************************************************)
EXTENDS Naturals

CONSTANTS
  Calls,       \* the calls of withLock for one key
  Patience,    \* how many more tries a call's wait leaves room for
  NoCaller

ASSUME LockAssumption == NoCaller \notin Calls /\ Patience \in Nat

VARIABLES
  lockKey,     \* the token the key holds
  call,        \* each call's place, what came of it, and the tries it has left
  lateSets,    \* the calls that ended with their SET still on its way
  beside       \* <<c, d>>: c's work began while d's ran

lockVars == <<lockKey, call, lateSets, beside>>

LockInit ==
  /\ lockKey = NoCaller
  /\ call = [c \in Calls |-> [at |-> "taking", came |-> "none", left |-> Patience]]
  /\ lateSets = {} /\ beside = {}

LockGoes(c, at, came) == call' = [call EXCEPT ![c].at = at, ![c].came = came]

\* The work of this call runs.
Working == { c \in Calls : call[c].at = "working" }

\* The SET NX runs and takes the key; its answer is on its way.
SetRuns(c) ==
  /\ call[c].at = "taking" /\ lockKey = NoCaller
  /\ lockKey' = c
  /\ LockGoes(c, "taken", "none")
  /\ UNCHANGED <<lateSets, beside>>

\* OK comes, whoever holds the key by then: the work begins.
WorkBegins(c) ==
  /\ call[c].at = "taken"
  /\ LockGoes(c, "working", "none")
  /\ beside' = beside \cup { <<c, d>> : d \in Working }
  /\ UNCHANGED <<lockKey, lateSets>>

\* It is held: sleep and try again while the wait lasts, or LOCK_HELD.
TryAgain(c) ==
  /\ call[c].at = "taking" /\ lockKey # NoCaller
  /\ IF call[c].left > 0 THEN call' = [call EXCEPT ![c].left = @ - 1]
     ELSE LockGoes(c, "ended", "held")
  /\ UNCHANGED <<lockKey, lateSets, beside>>

\* A call that ends with its SET on its way.
LeavesSet(c) == lateSets' = IF call[c].at = "taking" THEN lateSets \cup {c} ELSE lateSets

\* The SET fails, run or yet to run: the call throws.
TakeFails(c) ==
  /\ call[c].at \in {"taking", "taken"}
  /\ LockGoes(c, "ended", "threw") /\ LeavesSet(c)
  /\ UNCHANGED <<lockKey, beside>>

\* A SET runs whose call has ended.
LateSet(c) ==
  /\ c \in lateSets /\ lateSets' = lateSets \ {c}
  /\ lockKey' = IF lockKey = NoCaller THEN c ELSE lockKey
  /\ UNCHANGED <<call, beside>>

\* The work resolves, or throws; a lock taken inside it may be what it throws of.
WorkEnds(c) ==
  /\ call[c].at = "working"
  /\ \E resolved \in BOOLEAN : LockGoes(c, IF resolved THEN "releasing" ELSE "givingBack", "none")
  /\ UNCHANGED <<lockKey, lateSets, beside>>

\* A mistake: DEL, whoever holds the lock.
BadStillOwn(c) == lockKey # NoCaller

\* What RELEASE answers: the key held this call's token.
StillOwn(c) == lockKey = c

FreedBy(c) == IF StillOwn(c) THEN NoCaller ELSE lockKey

\* The release is answered: the work's value, or LOCK_LOST.
ReleaseKey(c) ==
  /\ call[c].at = "releasing"
  /\ lockKey' = FreedBy(c)
  /\ LockGoes(c, "ended", IF StillOwn(c) THEN "done" ELSE "lost")
  /\ UNCHANGED <<lateSets, beside>>

\* It fails, run or not: the lock is given back once more, then the failure is
\* thrown.
ReleaseFails(c) ==
  /\ call[c].at = "releasing"
  /\ lockKey' \in {lockKey, FreedBy(c)}
  /\ LockGoes(c, "givingBack", "none")
  /\ UNCHANGED <<lateSets, beside>>

\* The release of a call that throws; its own failure is left unsaid.
GiveBack(c) ==
  /\ call[c].at = "givingBack"
  /\ lockKey' \in {lockKey, FreedBy(c)}
  /\ LockGoes(c, "ended", "threw")
  /\ UNCHANGED <<lateSets, beside>>

\* The ttl runs out, or a release that was given up runs after all.
LockLapses ==
  /\ lockKey # NoCaller
  /\ lockKey' = NoCaller
  /\ UNCHANGED <<call, lateSets, beside>>

\* The process dies.
CallDies(c) ==
  /\ call[c].at # "ended"
  /\ LockGoes(c, "ended", "died") /\ LeavesSet(c)
  /\ UNCHANGED <<lockKey, beside>>

LockNext ==
  \/ \E c \in Calls :
       \/ SetRuns(c) \/ TryAgain(c) \/ TakeFails(c) \/ LateSet(c) \/ WorkBegins(c) \/ WorkEnds(c)
       \/ ReleaseKey(c) \/ ReleaseFails(c) \/ GiveBack(c) \/ CallDies(c)
  \/ LockLapses

LockSpec == LockInit /\ [][LockNext]_lockVars

\* What is said of a call.
LockCall ==
  [at : {"taking", "taken", "working", "releasing", "givingBack", "ended"},
   came : {"none", "done", "held", "lost", "threw", "died"}, left : 0 .. Patience]

\* The types of the four variables.
LockTypeOK ==
  /\ lockKey \in Calls \cup {NoCaller}
  /\ call \in [Calls -> LockCall]
  /\ lateSets \subseteq Calls
  /\ beside \subseteq Calls \X Calls

\* Of two calls whose works ran beside each other -- the ttl ran out under one, or
\* before the answer of its SET came -- one at most is told its work's value, the
\* other that it lost the lock, or of a failure (with-lock.ts: LOCK_LOST).  The
\* value alone does not say that the work ran alone: the call told it may have
\* taken the key of one that still worked.
DoneNeverBeside ==
  \A p \in beside : call[p[1]].came # "done" \/ call[p[2]].came # "done"

=============================================================================
