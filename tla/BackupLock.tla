----------------------------- MODULE BackupLock -----------------------------
(***************************************************************************)
(* The lock of a backup definition in one repository                       *)
(* (packages/backup/src/lock/lock.ts).  Nothing is written conditionally:  *)
(* a run writes a lock file of its own, lists the others, and goes on when *)
(* none is live.  It renews its file while it works, and stops on its own  *)
(* once its lease ran out.                                                 *)
(*                                                                         *)
(* Times are kept relative to now, in ticks: `file' is the time left until *)
(* the expiresAt a file carries, `left' the time left until the deadline   *)
(* its run keeps on a monotonic clock.  Requests to the repository take    *)
(* any time: `write' is a put of the run's own lock file that was sent     *)
(* and did not land yet.                                                   *)
(***************************************************************************)
EXTENDS Integers, FiniteSets

CONSTANTS
  Runs,    \* the calls of create, prune, hold and unhold, by all processes
  Lease,   \* lock.lease
  Skew,    \* how much two hosts' wall clocks may disagree
  Gone     \* no such file, or no write under way

ASSUME LockAssumption ==
  /\ Lease \in Nat \ {0}
  /\ Skew \in Nat /\ Skew <= Lease
  /\ Gone \notin Int

VARIABLES
  file,    \* the lock files, by the run that owns them
  lease    \* what each run keeps of its lock

lockVars == <<file, lease>>

Stages ==
  {"new",        \* not called yet
   "writing",    \* its lock file is being written
   "landed",     \* written; it will list the others
   "looking",    \* checking the others, one by one
   "held",       \* the lock was taken: live until `left' runs out
   "leaving",    \* refused, or done: it removes its file and ends
   "over", "crashed"}

\* Past its expiresAt by a lease, by some clock: beyond, no time is told from another.
Floor == Skew - Lease - 1

Times == Floor .. Lease

LeaseType == [stage : Stages, left : Times, look : SUBSET Runs, write : Times \cup {Gone}]

LockTypeOK ==
  /\ file \in [Runs -> Times \cup {Gone}]
  /\ lease \in [Runs -> LeaseType]

NoLease == [stage |-> "new", left |-> Floor, look |-> {}, write |-> Gone]

LockInit ==
  /\ file = [r \in Runs |-> Gone]
  /\ lease = [r \in Runs |-> NoLease]

Stage(r) == lease[r].stage

\* Nothing reads the deadline of a run that ended.
Ended == NoLease

\* held(): the deadline did not pass.  Nothing moves a deadline that did.
HeldBy(r) == lease[r].left > 0

\* A file removed, or left there where the repository refuses: forget.
Forgotten(k) == \E gone \in BOOLEAN : file' = IF gone THEN [file EXCEPT ![k] = Gone] ELSE file

Later(t, u) == IF t > u THEN t ELSE u

(***************************************************************************)
(* Taking the lock                                                         *)
(***************************************************************************)

WriteLock(r) ==
  /\ Stage(r) = "new"
  /\ lease' = [lease EXCEPT ![r] =
       [stage |-> "writing", left |-> Lease, look |-> {}, write |-> Lease]]
  /\ UNCHANGED file

Land(r) ==
  /\ Stage(r) = "writing"
  /\ file' = [file EXCEPT ![r] = lease[r].write]
  /\ lease' = [lease EXCEPT ![r].stage = "landed", ![r].write = Gone]

\* The put rejects, whether or not it landed.
LandFails(r) ==
  /\ Stage(r) = "writing"
  /\ \E f \in {file[r], lease[r].write} : file' = [file EXCEPT ![r] = f]
  /\ lease' = [lease EXCEPT ![r] = [Ended EXCEPT !.stage = "leaving"]]

\* The other files a listing shows.
Others(r) == {k \in Runs \ {r} : file[k] # Gone}

\* A mistake: it looks for the others while its own file is being written.
BadListOthers(r) ==
  /\ Stage(r) \in {"writing", "landed"}
  /\ lease' = [lease EXCEPT ![r].stage = "looking", ![r].look = Others(r)]
  /\ UNCHANGED file

ListOthers(r) ==
  /\ Stage(r) = "landed"
  /\ lease' = [lease EXCEPT ![r].stage = "looking", ![r].look = Others(r)]
  /\ UNCHANGED file

\* A mistake: no room for clocks that disagree.
BadStale(k) == file[k] # Gone /\ \E d \in -Skew .. Skew : file[k] < d

\* Past its expiresAt by a lease more, by the reader's wall clock.
Stale(k) == file[k] # Gone /\ \E d \in -Skew .. Skew : file[k] + Lease < d

\* The file is gone since the listing, or stale and removed.
PassOver(r, k) ==
  /\ Stage(r) = "looking" /\ k \in lease[r].look
  /\ \/ file[k] = Gone /\ UNCHANGED file
     \/ Stale(k) /\ Forgotten(k)
  /\ lease' = [lease EXCEPT ![r].look = @ \ {k}]

\* LOCKED, or the repository fails to list or to read.
Refuse(r) ==
  /\ Stage(r) \in {"landed", "looking"}
  /\ lease' = [lease EXCEPT ![r] = [Ended EXCEPT !.stage = "leaving"]]
  /\ UNCHANGED file

Take(r) ==
  /\ Stage(r) = "looking" /\ lease[r].look = {}
  /\ lease' = [lease EXCEPT ![r].stage = "held"]
  /\ UNCHANGED file

(***************************************************************************)
(* Keeping it                                                              *)
(***************************************************************************)

\* One renewal at a time, and none once the lease ran out.
Renew(r) ==
  /\ Stage(r) = "held" /\ HeldBy(r) /\ lease[r].write = Gone
  /\ lease' = [lease EXCEPT ![r].write = Lease]
  /\ UNCHANGED file

\* The deadline after a renewal landed: one that ran out stays out.
Prolonged(r) == IF HeldBy(r) THEN Later(lease[r].left, lease[r].write) ELSE lease[r].left

\* It lands; or its put rejects, whether or not it landed.
RenewalEnds(r) ==
  /\ Stage(r) \in {"held", "leaving"} /\ lease[r].write # Gone
  /\ \/ /\ file' = [file EXCEPT ![r] = lease[r].write]
        /\ lease' = [lease EXCEPT ![r].write = Gone, ![r].left = Prolonged(r)]
     \/ /\ \E f \in {file[r], lease[r].write} : file' = [file EXCEPT ![r] = f]
        /\ lease' = [lease EXCEPT ![r].write = Gone]

\* release(): no more renewals ...
Release(r) ==
  /\ Stage(r) = "held"
  /\ lease' = [lease EXCEPT ![r] = [Ended EXCEPT !.stage = "leaving", !.write = lease[r].write]]
  /\ UNCHANGED file

\* ... and once the one under way ended, the file goes.
Leave(r) ==
  /\ Stage(r) = "leaving" /\ lease[r].write = Gone
  /\ Forgotten(r)
  /\ lease' = [lease EXCEPT ![r].stage = "over"]

\* The process dies: its file stays, and what it sent may still land.
CrashLock(r) ==
  /\ Stage(r) \notin {"new", "over", "crashed"}
  /\ lease' = [lease EXCEPT ![r] = [Ended EXCEPT !.stage = "crashed", !.write = lease[r].write]]
  /\ UNCHANGED file

LandAfterCrash(r) ==
  /\ Stage(r) = "crashed" /\ lease[r].write # Gone
  /\ \E f \in {file[r], lease[r].write} : file' = [file EXCEPT ![r] = f]
  /\ lease' = [lease EXCEPT ![r].write = Gone]

Aged(t) == IF t = Gone THEN Gone ELSE Later(t - 1, Floor)

TickLock ==
  /\ file' = [r \in Runs |-> Aged(file[r])]
  /\ lease' = [r \in Runs |-> [lease[r] EXCEPT !.left = Aged(@), !.write = Aged(@)]]

\* It does not get the lock.
Denied(r) == LandFails(r) \/ Refuse(r)

\* What the lock does meanwhile.
LockStep(r) ==
  \/ Land(r) \/ ListOthers(r) \/ (\E k \in Runs : PassOver(r, k)) \/ Take(r)
  \/ Renew(r) \/ RenewalEnds(r) \/ Leave(r) \/ LandAfterCrash(r)

(***************************************************************************)
(* The lock alone: runs that take it, do something, and release it         *)
(***************************************************************************)

LockNext ==
  \/ \E r \in Runs : WriteLock(r) \/ Denied(r) \/ LockStep(r) \/ Release(r) \/ CrashLock(r)
  \/ TickLock

LockSpec == LockInit /\ [][LockNext]_lockVars

\* Two runs never hold the lock at once, each by its own clock: whoever finds
\* another's file stale does so after that one stopped (lock.ts, stillHeld and
\* renewing).
Exclusion == \A r, s \in Runs :
  Stage(r) = "held" /\ HeldBy(r) /\ Stage(s) = "held" /\ HeldBy(s) => r = s

=============================================================================
