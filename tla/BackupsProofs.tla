--------------------------- MODULE BackupsProofs ----------------------------
(***************************************************************************)
(* What is proved of the lock of a backup definition, of the calls under   *)
(* it and of the repository they leave, for any number of runs and of      *)
(* backups, any lease and any disagreement of the clocks up to a lease.    *)
(***************************************************************************)
EXTENDS Backups, RotationPlanProofs

(***************************************************************************)
(* Two runs never hold the lock at once.                                   *)
(*                                                                         *)
(* The argument is the one of lock.ts.  While a run's deadline is less     *)
(* than a lease behind it, its file says so: it is there, and carries a    *)
(* date no earlier than the deadline (Certified), since a renewal carries  *)
(* a later one (Ahead).  So nobody finds it stale, and of two runs, the    *)
(* one that listed last has seen the other (Mutual).                       *)
(***************************************************************************)

\* A run whose deadline may still matter to another: not past by a lease.
Recent(r) == lease[r].left > Floor

\* Its own file landed.
Shown(r) == Stage(r) \in {"landed", "looking", "held"}

\* s listed the files, and r is not, or no longer, among those it has to check.
Passed(s, r) == Stage(s) \in {"looking", "held"} /\ r \notin lease[s].look

Certified == \A r \in Runs :
  Shown(r) /\ Recent(r) => file[r] # Gone /\ file[r] >= lease[r].left

Ahead == \A r \in Runs :
  /\ Stage(r) = "writing" => lease[r].write # Gone
  /\ Stage(r) \in {"new", "landed", "looking"} => lease[r].write = Gone
  /\ Stage(r) \in {"writing", "held"} /\ lease[r].write # Gone
       => lease[r].write >= lease[r].left

LookedAll == \A r \in Runs : Stage(r) = "held" => lease[r].look = {}

Mutual == \A r, s \in Runs :
  r # s /\ Recent(r) /\ Recent(s) /\ Passed(r, s) => ~Passed(s, r)

LockInv == LockTypeOK /\ Certified /\ Ahead /\ LookedAll /\ Mutual

\* The times are a range of integers around zero, and every stage starts in it.
LEMMA TimesFacts ==
  /\ Floor \in Int /\ Floor < 0 /\ Lease \in Int /\ Lease > 0
  /\ Times \subseteq Int /\ Lease \in Times /\ Floor \in Times
  /\ \A t \in Times : Floor <= t /\ t <= Lease
  /\ \A t \in Int : Floor <= t /\ t <= Lease => t \in Times
  /\ Gone \notin Times
BY LockAssumption DEF Floor, Times

\* A tick takes a time to one of the range, no later, and keeps the order.
LEMMA AgedFacts ==
  /\ Aged(Gone) = Gone
  /\ \A t \in Times : Aged(t) \in Times /\ Aged(t) # Gone /\ Aged(t) <= t
  /\ \A t, u \in Times : t >= u => Aged(t) >= Aged(u)
  /\ \A t \in Times : Aged(t) > Floor => t > Floor
BY LockAssumption, TimesFacts DEF Aged, Later, Floor, Times

\* A file found stale, by some clock, is a lease behind.
LEMMA StaleIsOld ==
  ASSUME NEW k \in Runs, file[k] \in Times \cup {Gone}, Stale(k)
  PROVE  file[k] = Floor
BY LockAssumption, TimesFacts DEF Stale, Floor, Times

\* What the type says of one run.
LEMMA LeaseFacts ==
  ASSUME LockTypeOK, NEW r \in Runs
  PROVE  /\ file[r] \in Times \cup {Gone}
         /\ lease[r].left \in Times /\ lease[r].left \in Int
         /\ lease[r].write \in Times \cup {Gone}
         /\ lease[r].look \subseteq Runs
<1>1. lease[r] \in LeaseType
  BY DEF LockTypeOK
<1> QED
  BY <1>1, TimesFacts DEF LockTypeOK, LeaseType

\* The lock's first state.
LEMMA LockStarts == LockInit => LockInv
<1> SUFFICES ASSUME LockInit PROVE LockInv
  OBVIOUS
<1> USE DEF LockInit, NoLease, Stage
<1>1. LockTypeOK
  BY TimesFacts DEF LockTypeOK, LeaseType, Stages
<1>2. Certified /\ Ahead /\ LookedAll /\ Mutual
  BY TimesFacts DEF Certified, Ahead, LookedAll, Mutual, Shown, Recent, Passed
<1> QED
  BY <1>1, <1>2 DEF LockInv

\* WriteLock keeps the invariant.
LEMMA WriteLockKeeps == ASSUME LockInv, NEW r \in Runs, WriteLock(r) PROVE LockInv'
<1> USE TimesFacts DEF LockInv, WriteLock, Stage, Recent, Shown, Passed
<1>1. LockTypeOK'
  BY DEF LockTypeOK, LeaseType, Stages, Ended, NoLease, Forgotten, Prolonged, Later, HeldBy
<1>2. Certified'
  BY <1>1 DEF Certified, Ahead, LockTypeOK, LeaseType, Ended, NoLease, Forgotten, Prolonged, Later, HeldBy
<1>3. Ahead'
  BY <1>1 DEF Ahead, LockTypeOK, LeaseType, Ended, NoLease, Forgotten, Prolonged, Later, HeldBy
<1>4. LookedAll'
  BY <1>1 DEF LookedAll, LockTypeOK, LeaseType, Ended, NoLease
<1>5. Mutual'
  BY <1>1 DEF Mutual, Certified, LookedAll, LockTypeOK, LeaseType, Ended, NoLease, Prolonged, Later, HeldBy
<1> QED
  BY <1>1, <1>2, <1>3, <1>4, <1>5

\* Land keeps the invariant.
LEMMA LandKeeps == ASSUME LockInv, NEW r \in Runs, Land(r) PROVE LockInv'
<1> USE TimesFacts DEF LockInv, Land, Stage, Recent, Shown, Passed
<1>1. LockTypeOK'
  <2>1. lease[r] \in LeaseType /\ lease[r].write \in Times \cup {Gone}
    BY LeaseFacts DEF LockTypeOK
  <2>2. [lease[r] EXCEPT !.stage = "landed", !.write = Gone] \in LeaseType
    BY <2>1 DEF LeaseType, Stages
  <2>3. lease' = [lease EXCEPT ![r] = [lease[r] EXCEPT !.stage = "landed", !.write = Gone]]
    BY DEF LockTypeOK
  <2> QED BY <2>1, <2>2, <2>3 DEF LockTypeOK
<1>2. Certified'
  BY <1>1 DEF Certified, Ahead, LockTypeOK, LeaseType, Ended, NoLease, Forgotten, Prolonged, Later, HeldBy
<1>3. Ahead'
  BY <1>1 DEF Ahead, LockTypeOK, LeaseType, Ended, NoLease, Forgotten, Prolonged, Later, HeldBy
<1>4. LookedAll'
  BY <1>1 DEF LookedAll, LockTypeOK, LeaseType, Ended, NoLease
<1>5. Mutual'
  BY <1>1 DEF Mutual, Certified, LookedAll, LockTypeOK, LeaseType, Ended, NoLease, Prolonged, Later, HeldBy
<1> QED
  BY <1>1, <1>2, <1>3, <1>4, <1>5

\* LandFails keeps the invariant.
LEMMA LandFailsKeeps == ASSUME LockInv, NEW r \in Runs, LandFails(r) PROVE LockInv'
<1> USE TimesFacts DEF LockInv, LandFails, Stage, Recent, Shown, Passed
<1>1. LockTypeOK'
  BY DEF LockTypeOK, LeaseType, Stages, Ended, NoLease, Forgotten, Prolonged, Later, HeldBy
<1>2. Certified'
  BY <1>1 DEF Certified, Ahead, LockTypeOK, LeaseType, Ended, NoLease, Forgotten, Prolonged, Later, HeldBy
<1>3. Ahead'
  BY <1>1 DEF Ahead, LockTypeOK, LeaseType, Ended, NoLease, Forgotten, Prolonged, Later, HeldBy
<1>4. LookedAll'
  BY <1>1 DEF LookedAll, LockTypeOK, LeaseType, Ended, NoLease
<1>5. Mutual'
  BY <1>1 DEF Mutual, Certified, LookedAll, LockTypeOK, LeaseType, Ended, NoLease, Prolonged, Later, HeldBy
<1> QED
  BY <1>1, <1>2, <1>3, <1>4, <1>5

\* ListOthers keeps the invariant: it sees every run that could pass it over.
LEMMA ListOthersKeeps == ASSUME LockInv, NEW r \in Runs, ListOthers(r) PROVE LockInv'
<1> USE TimesFacts DEF LockInv, ListOthers, Stage, Recent, Shown, Passed
<1>0. /\ Others(r) \subseteq Runs
      /\ \A k \in Runs \ {r} : file[k] # Gone => k \in Others(r)
  BY DEF Others
<1>1. LockTypeOK'
  <2>1. [lease[r] EXCEPT !.stage = "looking", !.look = Others(r)] \in LeaseType
    BY <1>0 DEF LockTypeOK, LeaseType, Stages
  <2>2. lease' = [lease EXCEPT ![r] = [lease[r] EXCEPT !.stage = "looking", !.look = Others(r)]]
    BY DEF LockTypeOK
  <2> QED BY <2>1, <2>2 DEF LockTypeOK
<1>2. Certified'
  BY <1>0, <1>1 DEF Certified, LockTypeOK, LeaseType
<1>3. Ahead'
  BY <1>0, <1>1 DEF Ahead, LockTypeOK, LeaseType
<1>4. LookedAll'
  BY <1>0, <1>1 DEF LookedAll, LockTypeOK, LeaseType
<1>5. Mutual'
  BY <1>0, <1>1 DEF Mutual, Certified, LockTypeOK, LeaseType
<1> QED
  BY <1>1, <1>2, <1>3, <1>4, <1>5

\* Refuse keeps the invariant.
LEMMA RefuseKeeps == ASSUME LockInv, NEW r \in Runs, Refuse(r) PROVE LockInv'
<1> USE TimesFacts DEF LockInv, Refuse, Stage, Recent, Shown, Passed
<1>1. LockTypeOK'
  BY DEF LockTypeOK, LeaseType, Stages, Ended, NoLease, Forgotten, Prolonged, Later, HeldBy
<1>2. Certified'
  BY <1>1 DEF Certified, Ahead, LockTypeOK, LeaseType, Ended, NoLease, Forgotten, Prolonged, Later, HeldBy
<1>3. Ahead'
  BY <1>1 DEF Ahead, LockTypeOK, LeaseType, Ended, NoLease, Forgotten, Prolonged, Later, HeldBy
<1>4. LookedAll'
  BY <1>1 DEF LookedAll, LockTypeOK, LeaseType, Ended, NoLease
<1>5. Mutual'
  BY <1>1 DEF Mutual, Certified, LookedAll, LockTypeOK, LeaseType, Ended, NoLease, Prolonged, Later, HeldBy
<1> QED
  BY <1>1, <1>2, <1>3, <1>4, <1>5

\* Take keeps the invariant.
LEMMA TakeKeeps == ASSUME LockInv, NEW r \in Runs, Take(r) PROVE LockInv'
<1> USE TimesFacts DEF LockInv, Take, Stage, Recent, Shown, Passed
<1>1. LockTypeOK'
  BY DEF LockTypeOK, LeaseType, Stages, Ended, NoLease, Forgotten, Prolonged, Later, HeldBy
<1>2. Certified'
  BY <1>1 DEF Certified, Ahead, LockTypeOK, LeaseType, Ended, NoLease, Forgotten, Prolonged, Later, HeldBy
<1>3. Ahead'
  BY <1>1 DEF Ahead, LockTypeOK, LeaseType, Ended, NoLease, Forgotten, Prolonged, Later, HeldBy
<1>4. LookedAll'
  BY <1>1 DEF LookedAll, LockTypeOK, LeaseType, Ended, NoLease
<1>5. Mutual'
  BY <1>1 DEF Mutual, Certified, LookedAll, LockTypeOK, LeaseType, Ended, NoLease, Prolonged, Later, HeldBy
<1> QED
  BY <1>1, <1>2, <1>3, <1>4, <1>5

\* Renew keeps the invariant.
LEMMA RenewKeeps == ASSUME LockInv, NEW r \in Runs, Renew(r) PROVE LockInv'
<1> USE TimesFacts DEF LockInv, Renew, Stage, Recent, Shown, Passed
<1>1. LockTypeOK'
  BY DEF LockTypeOK, LeaseType, Stages, Ended, NoLease, Forgotten, Prolonged, Later, HeldBy
<1>2. Certified'
  BY <1>1 DEF Certified, Ahead, LockTypeOK, LeaseType, Ended, NoLease, Forgotten, Prolonged, Later, HeldBy
<1>3. Ahead'
  BY <1>1 DEF Ahead, LockTypeOK, LeaseType, Ended, NoLease, Forgotten, Prolonged, Later, HeldBy
<1>4. LookedAll'
  BY <1>1 DEF LookedAll, LockTypeOK, LeaseType, Ended, NoLease
<1>5. Mutual'
  BY <1>1 DEF Mutual, Certified, LookedAll, LockTypeOK, LeaseType, Ended, NoLease, Prolonged, Later, HeldBy
<1> QED
  BY <1>1, <1>2, <1>3, <1>4, <1>5

\* RenewalEnds keeps the invariant.
LEMMA RenewalEndsKeeps == ASSUME LockInv, NEW r \in Runs, RenewalEnds(r) PROVE LockInv'
<1> USE TimesFacts DEF LockInv, RenewalEnds, Stage, Recent, Shown, Passed
<1>1. LockTypeOK'
  <2>1. /\ lease[r] \in LeaseType /\ lease[r].write \in Times \cup {Gone}
        /\ lease[r].left \in Times /\ file[r] \in Times \cup {Gone}
    BY LeaseFacts DEF LockTypeOK
  <2>2. Prolonged(r) \in Times
    BY <2>1 DEF Prolonged, Later
  <2>3. file' \in [Runs -> Times \cup {Gone}]
    BY <2>1 DEF LockTypeOK
  <2>4. \E t \in Times :
          lease' = [lease EXCEPT ![r] = [lease[r] EXCEPT !.write = Gone, !.left = t]]
    <3>1. CASE lease' = [lease EXCEPT ![r].write = Gone, ![r].left = Prolonged(r)]
      BY <2>2, <3>1 DEF LockTypeOK
    <3>2. CASE lease' = [lease EXCEPT ![r].write = Gone]
      <4>1. [lease[r] EXCEPT !.write = Gone] = [lease[r] EXCEPT !.write = Gone, !.left = lease[r].left]
        BY <2>1 DEF LeaseType
      <4> QED BY <2>1, <3>2, <4>1 DEF LockTypeOK
    <3> QED BY <3>1, <3>2
  <2>5. PICK t \in Times :
          lease' = [lease EXCEPT ![r] = [lease[r] EXCEPT !.write = Gone, !.left = t]]
    BY <2>4
  <2> DEFINE c == [lease[r] EXCEPT !.write = Gone, !.left = t]
  <2>6. c \in LeaseType
    BY <2>1 DEF LeaseType
  <2> HIDE DEF c
  <2>7. lease \in [Runs -> LeaseType] /\ lease' = [lease EXCEPT ![r] = c]
    BY <2>5 DEF LockTypeOK, c
  <2>8. lease' \in [Runs -> LeaseType]
    BY <2>6, <2>7
  <2> QED BY <2>3, <2>8 DEF LockTypeOK
<1>2. Certified'
  BY <1>1 DEF Certified, Ahead, LockTypeOK, LeaseType, Ended, NoLease, Forgotten, Prolonged, Later, HeldBy
<1>3. Ahead'
  BY <1>1 DEF Ahead, LockTypeOK, LeaseType, Ended, NoLease, Forgotten, Prolonged, Later, HeldBy
<1>4. LookedAll'
  BY <1>1 DEF LookedAll, LockTypeOK, LeaseType, Ended, NoLease
<1>5. Mutual'
  BY <1>1 DEF Mutual, Certified, LookedAll, LockTypeOK, LeaseType, Ended, NoLease, Prolonged, Later, HeldBy
<1> QED
  BY <1>1, <1>2, <1>3, <1>4, <1>5

\* Release keeps the invariant.
LEMMA ReleaseKeeps == ASSUME LockInv, NEW r \in Runs, Release(r) PROVE LockInv'
<1> USE TimesFacts DEF LockInv, Release, Stage, Recent, Shown, Passed
<1>1. LockTypeOK'
  BY DEF LockTypeOK, LeaseType, Stages, Ended, NoLease, Forgotten, Prolonged, Later, HeldBy
<1>2. Certified'
  BY <1>1 DEF Certified, Ahead, LockTypeOK, LeaseType, Ended, NoLease, Forgotten, Prolonged, Later, HeldBy
<1>3. Ahead'
  BY <1>1 DEF Ahead, LockTypeOK, LeaseType, Ended, NoLease, Forgotten, Prolonged, Later, HeldBy
<1>4. LookedAll'
  BY <1>1 DEF LookedAll, LockTypeOK, LeaseType, Ended, NoLease
<1>5. Mutual'
  BY <1>1 DEF Mutual, Certified, LookedAll, LockTypeOK, LeaseType, Ended, NoLease, Prolonged, Later, HeldBy
<1> QED
  BY <1>1, <1>2, <1>3, <1>4, <1>5

\* Leave keeps the invariant.
LEMMA LeaveKeeps == ASSUME LockInv, NEW r \in Runs, Leave(r) PROVE LockInv'
<1> USE TimesFacts DEF LockInv, Leave, Stage, Recent, Shown, Passed
<1>1. LockTypeOK'
  BY DEF LockTypeOK, LeaseType, Stages, Ended, NoLease, Forgotten, Prolonged, Later, HeldBy
<1>2. Certified'
  BY <1>1 DEF Certified, Ahead, LockTypeOK, LeaseType, Ended, NoLease, Forgotten, Prolonged, Later, HeldBy
<1>3. Ahead'
  BY <1>1 DEF Ahead, LockTypeOK, LeaseType, Ended, NoLease, Forgotten, Prolonged, Later, HeldBy
<1>4. LookedAll'
  BY <1>1 DEF LookedAll, LockTypeOK, LeaseType, Ended, NoLease
<1>5. Mutual'
  BY <1>1 DEF Mutual, Certified, LookedAll, LockTypeOK, LeaseType, Ended, NoLease, Prolonged, Later, HeldBy
<1> QED
  BY <1>1, <1>2, <1>3, <1>4, <1>5

\* CrashLock keeps the invariant.
LEMMA CrashLockKeeps == ASSUME LockInv, NEW r \in Runs, CrashLock(r) PROVE LockInv'
<1> USE TimesFacts DEF LockInv, CrashLock, Stage, Recent, Shown, Passed
<1>1. LockTypeOK'
  BY DEF LockTypeOK, LeaseType, Stages, Ended, NoLease, Forgotten, Prolonged, Later, HeldBy
<1>2. Certified'
  BY <1>1 DEF Certified, Ahead, LockTypeOK, LeaseType, Ended, NoLease, Forgotten, Prolonged, Later, HeldBy
<1>3. Ahead'
  BY <1>1 DEF Ahead, LockTypeOK, LeaseType, Ended, NoLease, Forgotten, Prolonged, Later, HeldBy
<1>4. LookedAll'
  BY <1>1 DEF LookedAll, LockTypeOK, LeaseType, Ended, NoLease
<1>5. Mutual'
  BY <1>1 DEF Mutual, Certified, LookedAll, LockTypeOK, LeaseType, Ended, NoLease, Prolonged, Later, HeldBy
<1> QED
  BY <1>1, <1>2, <1>3, <1>4, <1>5

\* LandAfterCrash keeps the invariant.
LEMMA LandAfterCrashKeeps == ASSUME LockInv, NEW r \in Runs, LandAfterCrash(r) PROVE LockInv'
<1> USE TimesFacts DEF LockInv, LandAfterCrash, Stage, Recent, Shown, Passed
<1>1. LockTypeOK'
  BY DEF LockTypeOK, LeaseType, Stages, Ended, NoLease, Forgotten, Prolonged, Later, HeldBy
<1>2. Certified'
  BY <1>1 DEF Certified, Ahead, LockTypeOK, LeaseType, Ended, NoLease, Forgotten, Prolonged, Later, HeldBy
<1>3. Ahead'
  BY <1>1 DEF Ahead, LockTypeOK, LeaseType, Ended, NoLease, Forgotten, Prolonged, Later, HeldBy
<1>4. LookedAll'
  BY <1>1 DEF LookedAll, LockTypeOK, LeaseType, Ended, NoLease
<1>5. Mutual'
  BY <1>1 DEF Mutual, Certified, LookedAll, LockTypeOK, LeaseType, Ended, NoLease, Prolonged, Later, HeldBy
<1> QED
  BY <1>1, <1>2, <1>3, <1>4, <1>5

\* PassOver keeps the invariant: a file that is gone or stale is of no recent run.
LEMMA PassOverKeeps ==
  ASSUME LockInv, NEW r \in Runs, NEW k \in Runs, PassOver(r, k) PROVE LockInv'
<1> USE TimesFacts DEF LockInv, PassOver, Stage, Recent, Shown, Passed
<1>0. file[k] = Gone \/ file[k] = Floor
  BY StaleIsOld DEF LockTypeOK
<1>1. LockTypeOK'
  BY DEF LockTypeOK, LeaseType, Stages, Forgotten
<1>2. ~(Shown(k) /\ Recent(k))
  BY <1>0 DEF Certified, LockTypeOK, LeaseType
<1>3. Certified'
  BY <1>1, <1>2 DEF Certified, LockTypeOK, LeaseType, Forgotten
<1>4. Ahead' /\ LookedAll'
  BY <1>1 DEF Ahead, LookedAll, LockTypeOK, LeaseType
<1>5. Mutual'
  BY <1>1, <1>2 DEF Mutual, LockTypeOK, LeaseType
<1> QED
  BY <1>1, <1>3, <1>4, <1>5

\* A tick keeps the invariant: the times of a run and of its file age alike.
LEMMA TickLockKeeps == ASSUME LockInv, TickLock PROVE LockInv'
<1> USE DEF LockInv, Stage, Recent, Shown, Passed
<1>1. \A r \in Runs : /\ file'[r] = Aged(file[r])
                       /\ lease'[r].stage = lease[r].stage /\ lease'[r].look = lease[r].look
                       /\ lease'[r].left = Aged(lease[r].left)
                       /\ lease'[r].write = Aged(lease[r].write)
  <2> TAKE r \in Runs
  <2>1. lease[r] \in LeaseType
    BY DEF LockTypeOK
  <2>2. lease'[r] = [lease[r] EXCEPT !.left = Aged(@), !.write = Aged(@)]
    BY DEF TickLock
  <2> QED BY <2>1, <2>2 DEF TickLock, LeaseType
<1>2. LockTypeOK'
  <2>1. \A t \in Times \cup {Gone} : Aged(t) \in Times \cup {Gone}
    BY AgedFacts
  <2>2. file' \in [Runs -> Times \cup {Gone}]
    BY <2>1 DEF TickLock, LockTypeOK
  <2>3. ASSUME NEW r \in Runs
        PROVE  [lease[r] EXCEPT !.left = Aged(@), !.write = Aged(@)] \in LeaseType
    <3>1. lease[r] \in LeaseType
      BY DEF LockTypeOK
    <3>2. lease[r].left \in Times /\ lease[r].write \in Times \cup {Gone}
      BY <3>1 DEF LeaseType
    <3>3. Aged(lease[r].left) \in Times /\ Aged(lease[r].write) \in Times \cup {Gone}
      BY <2>1, <3>2, AgedFacts
    <3> QED
      BY <3>1, <3>3 DEF LeaseType
  <2> QED
    BY <2>2, <2>3 DEF TickLock, LockTypeOK
<1>3. Certified'
  BY <1>1, AgedFacts DEF Certified, LockTypeOK, LeaseType
<1>4. Ahead'
  <2> SUFFICES ASSUME NEW r \in Runs
               PROVE  /\ Stage(r)' = "writing" => lease'[r].write # Gone
                      /\ Stage(r)' \in {"new", "landed", "looking"} => lease'[r].write = Gone
                      /\ Stage(r)' \in {"writing", "held"} /\ lease'[r].write # Gone
                           => lease'[r].write >= lease'[r].left
    BY DEF Ahead
  <2> QED
    BY <1>1, AgedFacts, LeaseFacts DEF Ahead
<1>5. LookedAll'
  BY <1>1 DEF LookedAll
<1>6. Mutual'
  BY <1>1, AgedFacts DEF Mutual, LockTypeOK, LeaseType
<1> QED
  BY <1>2, <1>3, <1>4, <1>5, <1>6

\* Every step of the lock keeps the invariant, and so does one that leaves it alone.
LEMMA LockStepKeeps == ASSUME LockInv, [LockNext]_lockVars PROVE LockInv'
<1>1. CASE LockNext
  <2>1. CASE TickLock
    BY <2>1, TickLockKeeps
  <2>2. ASSUME NEW r \in Runs,
               WriteLock(r) \/ Denied(r) \/ LockStep(r) \/ Release(r) \/ CrashLock(r)
        PROVE  LockInv'
    BY <2>2, WriteLockKeeps, LandKeeps, LandFailsKeeps, ListOthersKeeps, PassOverKeeps,
       RefuseKeeps, TakeKeeps, RenewKeeps, RenewalEndsKeeps, ReleaseKeeps, LeaveKeeps,
       CrashLockKeeps, LandAfterCrashKeeps DEF Denied, LockStep
  <2> QED
    BY <1>1, <2>1, <2>2 DEF LockNext
<1>2. CASE UNCHANGED lockVars
  BY <1>2 DEF lockVars, LockInv, LockTypeOK, Certified, Ahead, LookedAll, Mutual,
              Stage, Recent, Shown, Passed
<1> QED
  BY <1>1, <1>2

\* Where the invariant holds, nobody shares the lock.
LEMMA LockInvExcludes == LockInv => Exclusion
<1> SUFFICES ASSUME LockInv, NEW r \in Runs, NEW s \in Runs,
                    Stage(r) = "held", HeldBy(r), Stage(s) = "held", HeldBy(s)
             PROVE  r = s
  BY DEF Exclusion
<1>1. Recent(r) /\ Recent(s)
  BY TimesFacts, LeaseFacts DEF LockInv, HeldBy, Recent
<1>2. Passed(r, s) /\ Passed(s, r)
  BY DEF LockInv, LookedAll, Passed
<1> QED
  BY <1>1, <1>2 DEF LockInv, Mutual

\* No two runs hold the lock at once, each by its own deadline (lock.ts,
\* acquireLock): the property Exclusion, of the lock alone.
THEOREM LockExcludes == LockSpec => []Exclusion
<1>1. LockInit => LockInv
  BY LockStarts
<1>2. LockInv /\ [LockNext]_lockVars => LockInv'
  BY LockStepKeeps
<1> QED
  BY <1>1, <1>2, LockInvExcludes, PTL DEF LockSpec

(***************************************************************************)
(* What the lock gives the calls of Backups: no two of them hold it at     *)
(* once, and - where a request takes at most what the disagreement of the  *)
(* clocks leaves of a lease - no two of them have requests under way at    *)
(* once, not even one whose process died with a request under way.         *)
(*                                                                         *)
(* A request is sent while the lease holds, so its age bounds how far the  *)
(* deadline may have passed (Timed), and the lock file of its run cannot   *)
(* be found stale before it landed.  Whoever lists the files meanwhile     *)
(* sees that file, so nobody takes the lock over a dead call's request     *)
(* (Alone).                                                                *)
(***************************************************************************)

\* What the clocks leave of the lease one run allows another covers a request.
Covered == PutTime + Skew <= Lease

SentType ==
  /\ DOMAIN sent = Runs
  /\ \A r \in Runs :
       /\ sent[r] = [what |-> sent[r].what, id |-> sent[r].id, age |-> sent[r].age]
       /\ sent[r].age \in 0 .. PutTime

Timed == \A r \in Runs : Busy(r) =>
  /\ Stage(r) \in {"held", "crashed"}
  /\ Stage(r) = "held" => lease[r].left + sent[r].age >= 1
  /\ Stage(r) = "crashed" =>
       /\ file[r] # Gone /\ file[r] + sent[r].age >= 1
       /\ lease[r].write # Gone => lease[r].write + sent[r].age >= 1

DeadBusy(r) == Stage(r) = "crashed" /\ Busy(r)

Alone == \A r, s \in Runs : r # s /\ DeadBusy(r) =>
  /\ ~DeadBusy(s)
  /\ Recent(s) => ~Passed(s, r)

CallInv == LockInv /\ SentType /\ Timed /\ Alone

\* A step of a call is a step of the lock, or leaves the lock alone.
LEMMA CallStepsAreLockSteps == [Next]_vars => [LockNext]_lockVars
<1> SUFFICES ASSUME [Next]_vars PROVE [LockNext]_lockVars
  OBVIOUS
<1>1. CASE UNCHANGED vars
  BY <1>1 DEF vars, lockVars
<1>2. CASE Tick
  BY <1>2 DEF Tick, LockNext
<1>3. ASSUME NEW r \in Runs, Start(r) \/ LockCall(r) \/ Locked(r) \/ Finish(r) \/ Crash(r)
      PROVE  LockNext
  BY <1>3 DEF Start, LockCall, Locked, Finish, Crash, LockNext
<1>4. ASSUME NEW r \in Runs,
             FindBase(r) \/ Scan(r) \/ Decide(r) \/ FindHeld(r) \/ Send(r) \/ Arrive(r)
               \/ Fails(r) \/ ArriveAfterCrash(r)
      PROVE  UNCHANGED lockVars
  BY <1>4 DEF FindBase, Scan, Decide, FindHeld, Send, Arrive, Fails, ArriveAfterCrash, lockVars
<1> QED
  BY <1>1, <1>2, <1>3, <1>4 DEF Next

\* The lock excludes in the whole system as it does alone.
THEOREM CallsExclude == Spec => []Exclusion
<1>1. Init => LockInv
  BY LockStarts DEF Init
<1>2. LockInv /\ [Next]_vars => LockInv'
  BY CallStepsAreLockSteps, LockStepKeeps
<1> QED
  BY <1>1, <1>2, LockInvExcludes, PTL DEF Spec

\* A request under way keeps its run's lock file from being found stale.
LEMMA BusyFacts ==
  ASSUME Covered, CallInv, NEW r \in Runs, Busy(r)
  PROVE  /\ file[r] # Gone /\ file[r] # Floor
         /\ Stage(r) = "held" =>
              Recent(r) /\ file[r] >= lease[r].left
              /\ (lease[r].write # Gone => lease[r].write >= lease[r].left)
<1> USE DEF CallInv, LockInv
<1>1. /\ sent[r].age \in Nat /\ sent[r].age <= PutTime
      /\ PutTime \in Nat /\ Skew \in Nat /\ Lease \in Nat
  BY BackupsAssumption, LockAssumption DEF SentType
<1>2. LockTypeOK
  OBVIOUS
<1>3. /\ file[r] \in Times \cup {Gone} /\ lease[r].left \in Int
      /\ lease[r].write \in Times \cup {Gone}
  BY <1>2, LeaseFacts
<1>4. Stage(r) = "held" => lease[r].left > Floor
  BY <1>1, <1>3 DEF Timed, Floor, Covered
<1>5. CASE Stage(r) = "held"
  <2>1. file[r] # Gone /\ file[r] >= lease[r].left
    BY <1>4, <1>5 DEF Certified, Shown, Recent
  <2>2. lease[r].write # Gone => lease[r].write >= lease[r].left
    BY <1>5 DEF Ahead
  <2>3. file[r] # Floor
    BY <1>3, <1>4, <1>5, <2>1, TimesFacts
  <2> QED
    BY <1>4, <1>5, <2>1, <2>2, <2>3 DEF Recent
<1>6. CASE Stage(r) = "crashed"
  <2>1. file[r] # Gone /\ file[r] + sent[r].age >= 1
    BY <1>6 DEF Timed
  <2>2. file[r] # Floor
    BY <1>1, <1>3, <2>1, TimesFacts DEF Floor, Covered
  <2> QED
    BY <1>6, <2>1, <2>2
<1> QED
  BY <1>5, <1>6 DEF Timed

\* Steps of a run that keep its requests, the lock of the others, and their files
\* unless stale: what Timed says of the others stays true.
Aside(r) ==
  /\ sent' = sent
  /\ \A s \in Runs \ {r} :
       /\ lease'[s] = lease[s]
       /\ file'[s] = file[s] \/ (file[s] \in {Gone, Floor} /\ Stage(r) = "looking")

\* Every step of the lock by one run is one of those.
LEMMA LockStepsAside ==
  ASSUME LockTypeOK, NEW r \in Runs, sent' = sent,
         WriteLock(r) \/ Denied(r) \/ LockStep(r) \/ Release(r) \/ CrashLock(r)
  PROVE  Aside(r)
<1> USE DEF Aside
<1>1. ASSUME NEW k \in Runs, PassOver(r, k) PROVE Aside(r)
  <2>1. file[k] \in {Gone, Floor}
    BY <1>1, StaleIsOld DEF PassOver, LockTypeOK
  <2>2. \A s \in Runs : s # k => file'[s] = file[s]
    BY <1>1 DEF PassOver, Forgotten, LockTypeOK
  <2>3. \A s \in Runs \ {r} : lease'[s] = lease[s]
    BY <1>1 DEF PassOver, LockTypeOK
  <2> QED
    BY <1>1, <2>1, <2>2, <2>3 DEF PassOver
<1>2. CASE WriteLock(r) \/ Land(r) \/ LandFails(r) \/ ListOthers(r)
  BY <1>2 DEF WriteLock, Land, LandFails, ListOthers, LockTypeOK
<1>3. CASE Refuse(r) \/ Take(r) \/ Renew(r) \/ RenewalEnds(r)
  BY <1>3 DEF Refuse, Take, Renew, RenewalEnds, LockTypeOK
<1>4. CASE Release(r) \/ Leave(r) \/ CrashLock(r) \/ LandAfterCrash(r)
  BY <1>4 DEF Release, Leave, CrashLock, LandAfterCrash, Forgotten, LockTypeOK
<1> QED
  BY <1>1, <1>2, <1>3, <1>4 DEF Denied, LockStep

TimedOf(r) == Busy(r) =>
  /\ Stage(r) \in {"held", "crashed"}
  /\ Stage(r) = "held" => lease[r].left + sent[r].age >= 1
  /\ Stage(r) = "crashed" =>
       /\ file[r] # Gone /\ file[r] + sent[r].age >= 1
       /\ lease[r].write # Gone => lease[r].write + sent[r].age >= 1

\* A step aside keeps Timed of the others.
LEMMA TimedOfOthers ==
  ASSUME Covered, CallInv, NEW r \in Runs, Aside(r), NEW s \in Runs, s # r
  PROVE  TimedOf(s)'
<1>1. TimedOf(s)
  BY DEF CallInv, Timed, TimedOf
<1>2. lease'[s] = lease[s] /\ sent'[s] = sent[s]
  BY DEF Aside
<1>3. CASE Busy(s)
  <2>1. file'[s] = file[s]
    BY <1>3, BusyFacts DEF Aside
  <2> QED
    BY <1>1, <1>2, <2>1 DEF TimedOf, Busy, Stage
<1>4. CASE ~Busy(s)
  BY <1>2, <1>4 DEF TimedOf, Busy
<1> QED
  BY <1>3, <1>4

\* A step of the lock by one run keeps Timed.
LEMMA LockStepTimed ==
  ASSUME Covered, CallInv, NEW r \in Runs, sent' = sent,
         \/ WriteLock(r) \/ Denied(r) \/ LockStep(r) \/ CrashLock(r)
         \/ Release(r) /\ ~Busy(r)
  PROVE  Timed' /\ Aside(r)
<1> USE DEF CallInv, LockInv
<1>1. LockTypeOK
  OBVIOUS
<1>2. Aside(r)
  BY <1>1, LockStepsAside
<1>3. /\ file[r] \in Times \cup {Gone} /\ lease[r].left \in Int
      /\ lease[r].write \in Times \cup {Gone}
  BY <1>1, LeaseFacts
<1>4. TimedOf(r)'
  <2>1. CASE ~Busy(r)
    BY <2>1 DEF TimedOf, Busy
  <2>2. CASE Busy(r)
    <3>1. TimedOf(r) /\ Stage(r) \in {"held", "crashed"}
      BY <2>2 DEF Timed, TimedOf
    <3>2. sent[r].age \in Nat
      BY BackupsAssumption DEF SentType
    <3>3. CASE CrashLock(r)
      <4>1. Stage(r) = "held"
        BY <3>1, <3>3 DEF CrashLock
      <4>2. /\ lease'[r].stage = "crashed" /\ lease'[r].write = lease[r].write
            /\ file' = file
        BY <1>1, <3>3 DEF CrashLock, LockTypeOK, Ended, NoLease
      <4>3. /\ file[r] # Gone /\ file[r] >= lease[r].left
            /\ (lease[r].write # Gone => lease[r].write >= lease[r].left)
        BY <2>2, <4>1, BusyFacts
      <4>4. lease[r].left + sent[r].age >= 1
        BY <2>2, <3>1, <4>1 DEF TimedOf
      <4>5. file[r] \in Int /\ (lease[r].write # Gone => lease[r].write \in Int)
        BY <1>3, <4>3, TimesFacts
      <4>6. file[r] + sent[r].age >= 1
        BY <1>3, <3>2, <4>3, <4>4, <4>5
      <4>7. lease[r].write # Gone => lease[r].write + sent[r].age >= 1
        BY <1>3, <3>2, <4>3, <4>4, <4>5
      <4> QED
        BY <4>2, <4>3, <4>6, <4>7 DEF TimedOf, Stage
    <3>4. CASE Renew(r)
      BY <1>1, <2>2, <3>1, <3>4 DEF Renew, TimedOf, Stage, LockTypeOK, LeaseType
    <3>5. CASE RenewalEnds(r)
      <4>1. Stage(r) = "held"
        BY <3>1, <3>5 DEF RenewalEnds
      <4>2. /\ lease'[r].stage = "held"
            /\ lease'[r].left \in {lease[r].left, Prolonged(r)}
        BY <1>1, <3>5, <4>1 DEF RenewalEnds, LockTypeOK, LeaseType, Stage
      <4>3. lease'[r].left \in Int /\ lease'[r].left >= lease[r].left
        BY <1>3, <3>5, <4>2, TimesFacts DEF Prolonged, Later, RenewalEnds
      <4> QED
        BY <1>3, <2>2, <3>1, <3>2, <4>1, <4>2, <4>3 DEF TimedOf, Stage
    <3>6. CASE LandAfterCrash(r)
      <4>1. Stage(r) = "crashed" /\ lease[r].write # Gone
        BY <3>6 DEF LandAfterCrash
      <4>2. /\ lease'[r].stage = "crashed" /\ lease'[r].write = Gone
            /\ file'[r] \in {file[r], lease[r].write}
        BY <1>1, <3>6 DEF LandAfterCrash, LockTypeOK, LeaseType, Stage
      <4>3. /\ file[r] # Gone /\ file[r] + sent[r].age >= 1
            /\ lease[r].write + sent[r].age >= 1
        BY <2>2, <3>1, <4>1 DEF TimedOf
      <4>4. file'[r] # Gone /\ file'[r] + sent'[r].age >= 1
        BY <4>1, <4>2, <4>3
      <4> QED
        BY <4>2, <4>4 DEF TimedOf, Stage
    <3>7. ~PassOver(r, r)
      BY <3>1 DEF PassOver
    <3> QED
      BY <2>2, <3>1, <3>3, <3>4, <3>5, <3>6, <3>7
         DEF WriteLock, Denied, LandFails, Refuse, LockStep, Land, ListOthers, PassOver, Take, Leave
  <2> QED
    BY <2>1, <2>2
<1>5. \A s \in Runs : TimedOf(s)'
  BY <1>2, <1>4, TimedOfOthers
<1> QED
  BY <1>2, <1>5 DEF Timed, TimedOf

\* A call that has a request under way and whose process lives is past the look
\* of everyone who lists the files: it has looked at everyone.
LEMMA HeldPassesAll ==
  ASSUME CallInv, NEW r \in Runs, NEW s \in Runs, Stage(r) = "held"
  PROVE  Passed(r, s)
BY DEF CallInv, LockInv, LookedAll, Passed

\* A step of the lock by one run takes no recent run past another's dead request.
LEMMA LockStepAlone ==
  ASSUME Covered, CallInv, NEW r \in Runs, sent' = sent, Aside(r),
         WriteLock(r) \/ Denied(r) \/ LockStep(r) \/ Release(r) \/ CrashLock(r)
  PROVE  Alone'
<1> USE DEF CallInv, LockInv
<1>1. LockTypeOK
  OBVIOUS
<1> SUFFICES ASSUME NEW d \in Runs, NEW s \in Runs, d # s, DeadBusy(d)'
             PROVE  ~DeadBusy(s)' /\ (Recent(s)' => ~Passed(s, d)')
  BY DEF Alone
<1>2. Busy(d) /\ (Busy(s)' <=> Busy(s))
  BY DEF DeadBusy, Busy
<1>3. \A q \in Runs : q # r => /\ lease'[q] = lease[q]
                               /\ DeadBusy(q)' <=> DeadBusy(q)
                               /\ Recent(q)' <=> Recent(q)
                               /\ \A k \in Runs : Passed(q, k)' <=> Passed(q, k)
  <2> TAKE q \in Runs
  <2> HAVE q # r
  <2>1. lease'[q] = lease[q] /\ sent'[q] = sent[q]
    BY DEF Aside
  <2> QED
    BY <2>1 DEF DeadBusy, Busy, Recent, Passed, Stage
\* A run that crashes with a request under way: it was held, and no other was dead.
<1>4. ASSUME NEW q \in Runs, DeadBusy(q)', ~DeadBusy(q)
      PROVE  q = r /\ Stage(r) = "held" /\ Busy(r)
  <2>1. q = r
    BY <1>3, <1>4
  <2>2. Busy(r) /\ Stage(r) # "crashed"
    BY <1>4, <2>1 DEF DeadBusy, Busy
  <2> QED
    BY <2>1, <2>2 DEF Timed
<1>5. CASE ~DeadBusy(d)
  <2>1. d = r /\ Stage(r) = "held" /\ Busy(r) /\ Recent(r)
    BY <1>4, <1>5, BusyFacts
  <2>2. Passed(r, s)
    BY <2>1, HeldPassesAll
  <2>3. ~DeadBusy(s)
    BY <2>1, <2>2 DEF Alone
  <2>4. Recent(s) => ~Passed(s, r)
    BY <2>1, <2>2 DEF Mutual
  <2> QED
    BY <1>3, <1>4, <2>1, <2>3, <2>4
<1>6. CASE DeadBusy(d)
  <2>1. ~DeadBusy(s) /\ (Recent(s) => ~Passed(s, d))
    BY <1>6 DEF Alone
  <2>2. file[d] # Gone /\ file[d] # Floor
    BY <1>2, BusyFacts
  <2>3. ~DeadBusy(s)'
    <3> SUFFICES ASSUME DeadBusy(s)' PROVE FALSE
      OBVIOUS
    <3>1. s = r /\ Stage(s) = "held" /\ Busy(s)
      BY <1>4, <2>1
    <3>2. Recent(s) /\ Passed(s, d)
      BY <3>1, BusyFacts, HeldPassesAll
    <3> QED
      BY <2>1, <3>2
  <2>4. Recent(s)' => ~Passed(s, d)'
    <3>1. CASE s # r
      BY <1>3, <2>1, <3>1
    <3>2. CASE s = r
      <4> SUFFICES ASSUME Recent(r)', Passed(r, d)' PROVE FALSE
        BY <3>2
      <4>1. CASE ListOthers(r)
        <5>1. d \in Others(r)
          BY <2>2, <3>2 DEF Others
        <5>2. lease'[r].look = Others(r)
          BY <1>1, <4>1 DEF ListOthers, LockTypeOK, LeaseType
        <5> QED
          BY <5>1, <5>2 DEF Passed
      <4>2. ASSUME NEW k \in Runs, PassOver(r, k) PROVE FALSE
        <5>1. file[k] \in {Gone, Floor}
          BY <1>1, <4>2, StaleIsOld DEF PassOver, LockTypeOK
        <5>2. k # d
          BY <2>2, <5>1
        <5>3. /\ Stage(r) = "looking" /\ lease'[r].left = lease[r].left
              /\ lease'[r].look = lease[r].look \ {k}
          BY <1>1, <4>2 DEF PassOver, LockTypeOK, LeaseType
        <5>4. Recent(r) /\ Passed(r, d)
          BY <5>2, <5>3 DEF Recent, Passed
        <5> QED
          BY <2>1, <3>2, <5>4
      <4>3. CASE Take(r) \/ Renew(r)
        <5>1. /\ Stage(r) \in {"looking", "held"} /\ lease'[r].left = lease[r].left
              /\ lease'[r].look = lease[r].look
          BY <1>1, <4>3 DEF Take, Renew, LockTypeOK, LeaseType
        <5>2. Recent(r) /\ Passed(r, d)
          BY <5>1 DEF Recent, Passed
        <5> QED
          BY <2>1, <3>2, <5>2
      <4>4. CASE RenewalEnds(r)
        <5>1. /\ lease'[r].stage = Stage(r) /\ lease'[r].look = lease[r].look
              /\ lease'[r].left \in {lease[r].left, Prolonged(r)}
          BY <1>1, <4>4 DEF RenewalEnds, LockTypeOK, LeaseType, Stage
        <5>2. lease[r].left \in Int
          BY <1>1, LeaseFacts
        <5>3. Recent(r)
          BY <5>1, <5>2, TimesFacts DEF Recent, Prolonged, HeldBy
        <5>4. Passed(r, d)
          BY <5>1 DEF Passed, Stage
        <5> QED
          BY <2>1, <3>2, <5>3, <5>4
      <4>5. CASE WriteLock(r) \/ Land(r) \/ Leave(r) \/ LandAfterCrash(r)
        <5>1. lease'[r].stage \notin {"looking", "held"}
          <6>1. lease \in [Runs -> LeaseType] /\ lease[r] \in LeaseType
            BY <1>1 DEF LockTypeOK
          <6>2. CASE WriteLock(r)
            BY <6>1, <6>2 DEF WriteLock
          <6>3. CASE Land(r)
            BY <6>1, <6>3 DEF Land, LeaseType
          <6>4. CASE Leave(r)
            BY <6>1, <6>4 DEF Leave, LeaseType
          <6>5. CASE LandAfterCrash(r)
            BY <6>1, <6>5 DEF LandAfterCrash, LeaseType, Stage
          <6> QED
            BY <4>5, <6>2, <6>3, <6>4, <6>5
        <5> QED
          BY <5>1 DEF Passed, Stage
      <4>6. CASE LandFails(r) \/ Refuse(r) \/ Release(r) \/ CrashLock(r)
        <5>1. lease'[r].stage \in {"leaving", "crashed"}
          BY <1>1, <4>6 DEF LandFails, Refuse, Release, CrashLock, LockTypeOK, Ended, NoLease
        <5> QED
          BY <5>1 DEF Passed, Stage
      <4> QED
        BY <4>1, <4>2, <4>3, <4>4, <4>5, <4>6 DEF Denied, LockStep
    <3> QED
      BY <3>1, <3>2
  <2> QED
    BY <2>3, <2>4
<1> QED
  BY <1>5, <1>6

\* A request ages as much as a tick takes from any time.
LEMMA TickedTime ==
  ASSUME NEW t \in Times, NEW a \in Nat, t + a >= 1
  PROVE  Aged(t) # Gone /\ Aged(t) + (a + 1) >= 1
<1>1. t \in Int /\ Floor \in Int /\ t # Gone /\ t - 1 # Gone /\ Floor # Gone
  BY LockAssumption, TimesFacts
<1>2. Aged(t) = IF t - 1 > Floor THEN t - 1 ELSE Floor
  BY <1>1 DEF Aged, Later
<1> QED
  BY <1>1, <1>2

\* What a tick does to a run and its request.
LEMMA TickedRun ==
  ASSUME LockTypeOK, SentType, Tick, NEW r \in Runs
  PROVE  /\ file'[r] = Aged(file[r])
         /\ lease'[r].stage = lease[r].stage /\ lease'[r].look = lease[r].look
         /\ lease'[r].left = Aged(lease[r].left)
         /\ lease'[r].write = Aged(lease[r].write)
         /\ Busy(r) => /\ sent'[r] = [what |-> sent[r].what, id |-> sent[r].id,
                                       age |-> sent[r].age + 1]
                       /\ sent[r].age \in Nat /\ sent[r].age + 1 \in 0 .. PutTime
         /\ ~Busy(r) => sent'[r] = sent[r]
<1>1. lease[r] \in LeaseType
  BY DEF LockTypeOK
<1>2. /\ file'[r] = Aged(file[r])
      /\ lease'[r] = [lease[r] EXCEPT !.left = Aged(@), !.write = Aged(@)]
  BY DEF Tick, TickLock
<1>3. /\ sent'[r] = IF Busy(r) THEN [sent[r] EXCEPT !.age = @ + 1] ELSE sent[r]
      /\ Busy(r) => sent[r].age < PutTime
  BY DEF Tick
<1>4. /\ sent[r] = [what |-> sent[r].what, id |-> sent[r].id, age |-> sent[r].age]
      /\ sent[r].age \in 0 .. PutTime
  BY DEF SentType
<1>5. ASSUME Busy(r)
      PROVE  sent'[r] = [what |-> sent[r].what, id |-> sent[r].id, age |-> sent[r].age + 1]
  <2> DEFINE w == sent[r].what
             i == sent[r].id
             a == sent[r].age
  <2>1. sent[r] = [what |-> w, id |-> i, age |-> a]
    BY <1>4
  <2>2. sent'[r] = [sent[r] EXCEPT !.age = a + 1]
    BY <1>3, <1>5
  <2> HIDE DEF w, i, a
  <2>3. sent'[r] = [what |-> w, id |-> i, age |-> a + 1]
    BY <2>1, <2>2
  <2> QED
    BY <2>3 DEF w, i, a
<1>6. Busy(r) => sent[r].age \in Nat /\ sent[r].age + 1 \in 0 .. PutTime
  <2> DEFINE a == sent[r].age
  <2>1. a \in 0 .. PutTime /\ (Busy(r) => a < PutTime) /\ PutTime \in Nat
    BY <1>3, <1>4, BackupsAssumption
  <2> HIDE DEF a
  <2>2. Busy(r) => a \in Nat /\ a + 1 \in 0 .. PutTime
    BY <2>1
  <2> QED
    BY <2>2 DEF a
<1> QED
  BY <1>1, <1>2, <1>3, <1>5, <1>6 DEF LeaseType

\* A tick keeps what is known of requests: they age as the deadlines pass.
LEMMA TickCalls ==
  ASSUME Covered, CallInv, Tick
  PROVE  SentType' /\ Timed' /\ Alone'
<1> USE DEF CallInv, LockInv
<1>1. LockTypeOK /\ SentType
  OBVIOUS
<1>2. SentType'
  <2>1. DOMAIN sent' = Runs
    BY DEF Tick
  <2>2. ASSUME NEW r \in Runs
        PROVE  /\ sent'[r] = [what |-> sent'[r].what, id |-> sent'[r].id, age |-> sent'[r].age]
               /\ sent'[r].age \in 0 .. PutTime
    <3>1. CASE Busy(r)
      <4>1. /\ sent'[r] = [what |-> sent[r].what, id |-> sent[r].id, age |-> sent[r].age + 1]
            /\ sent[r].age + 1 \in 0 .. PutTime
        BY <1>1, <3>1, TickedRun
      <4>2. /\ sent'[r].what = sent[r].what /\ sent'[r].id = sent[r].id
            /\ sent'[r].age = sent[r].age + 1
        BY <4>1
      <4> QED
        BY <4>1, <4>2
    <3>2. CASE ~Busy(r)
      BY <1>1, <3>2, TickedRun DEF SentType
    <3> QED
      BY <3>1, <3>2
  <2> QED
    BY <2>1, <2>2 DEF SentType
<1>3. ASSUME NEW r \in Runs, ~Busy(r) PROVE ~Busy(r)'
  <2>1. sent'[r] = sent[r]
    BY <1>1, <1>3, TickedRun
  <2> QED
    BY <1>3, <2>1 DEF Busy
<1>4. ASSUME NEW r \in Runs, Busy(r)' PROVE TimedOf(r)'
  <2>1. Busy(r) /\ TimedOf(r)
    BY <1>3, <1>4 DEF Timed, TimedOf
  <2>2. sent'[r].age = sent[r].age + 1 /\ sent[r].age \in Nat
    <3>1. /\ sent'[r] = [what |-> sent[r].what, id |-> sent[r].id, age |-> sent[r].age + 1]
          /\ sent[r].age \in Nat
      BY <1>1, <2>1, TickedRun
    <3> QED
      BY <3>1
  <2>3. /\ file[r] \in Times \cup {Gone} /\ lease[r].left \in Times
        /\ lease[r].write \in Times \cup {Gone}
    BY <1>1, LeaseFacts
  <2>4. /\ file'[r] = Aged(file[r]) /\ lease'[r].stage = lease[r].stage
        /\ lease'[r].left = Aged(lease[r].left) /\ lease'[r].write = Aged(lease[r].write)
    BY <1>1, TickedRun
  <2>5. Stage(r)' = Stage(r)
    BY <2>4 DEF Stage
  <2>6. ASSUME Stage(r) = "held" PROVE lease'[r].left + sent'[r].age >= 1
    <3>1. lease[r].left + sent[r].age >= 1
      BY <2>1, <2>6 DEF TimedOf
    <3>2. Aged(lease[r].left) + (sent[r].age + 1) >= 1
      BY <2>2, <2>3, <3>1, TickedTime
    <3> QED
      BY <2>2, <2>4, <3>2
  <2>7. ASSUME Stage(r) = "crashed" PROVE file'[r] # Gone /\ file'[r] + sent'[r].age >= 1
    <3>1. file[r] # Gone /\ file[r] + sent[r].age >= 1
      BY <2>1, <2>7 DEF TimedOf
    <3>2. Aged(file[r]) # Gone /\ Aged(file[r]) + (sent[r].age + 1) >= 1
      BY <2>2, <2>3, <3>1, TickedTime
    <3> QED
      BY <2>2, <2>4, <3>2
  <2>8. ASSUME Stage(r) = "crashed", lease'[r].write # Gone
        PROVE  lease'[r].write + sent'[r].age >= 1
    <3>1. lease[r].write # Gone
      BY <2>4, <2>8, AgedFacts
    <3>2. lease[r].write + sent[r].age >= 1
      BY <2>1, <2>8, <3>1 DEF TimedOf
    <3>3. Aged(lease[r].write) + (sent[r].age + 1) >= 1
      BY <2>2, <2>3, <3>1, <3>2, TickedTime
    <3> QED
      BY <2>2, <2>4, <3>3
  <2>9. Stage(r) \in {"held", "crashed"}
    BY <2>1 DEF TimedOf
  <2> QED
    BY <2>5, <2>6, <2>7, <2>8, <2>9 DEF TimedOf
<1>5. Timed'
  BY <1>4 DEF Timed, TimedOf
<1>6. Alone'
  <2> SUFFICES ASSUME NEW d \in Runs, NEW s \in Runs, d # s, DeadBusy(d)'
               PROVE  ~DeadBusy(s)' /\ (Recent(s)' => ~Passed(s, d)')
    BY DEF Alone
  <2>0. /\ lease'[d].stage = lease[d].stage /\ lease'[s].stage = lease[s].stage
        /\ lease'[s].look = lease[s].look
    BY <1>1, TickedRun
  <2>1. DeadBusy(d) /\ (DeadBusy(s)' => DeadBusy(s)) /\ (Passed(s, d)' => Passed(s, d))
    BY <1>3, <2>0 DEF DeadBusy, Passed, Stage
  <2>2. Recent(s)' => Recent(s)
    <3>1. lease[s].left \in Times
      BY LeaseFacts
    <3>2. lease'[s].left = Aged(lease[s].left)
      BY <1>1, TickedRun
    <3> QED
      BY <3>1, <3>2, AgedFacts DEF Recent
  <2> QED
    BY <2>1, <2>2 DEF Alone
<1> QED
  BY <1>2, <1>5, <1>6

\* A request that ended, whichever way, is no longer in the way.
LEMMA RequestEnds ==
  ASSUME CallInv, NEW r \in Runs, sent' = [sent EXCEPT ![r] = Quiet], UNCHANGED lockVars
  PROVE  SentType' /\ Timed' /\ Alone'
<1> USE DEF CallInv
<1>1. file' = file /\ lease' = lease
  BY DEF lockVars
<1>2. sent'[r] = Quiet /\ \A s \in Runs \ {r} : sent'[s] = sent[s]
  BY DEF SentType
<1>3. SentType'
  <2>1. Quiet = [what |-> Quiet.what, id |-> Quiet.id, age |-> Quiet.age] /\ Quiet.age = 0
    BY DEF Quiet
  <2>2. 0 \in 0 .. PutTime
    BY BackupsAssumption
  <2> QED
    BY <1>2, <2>1, <2>2 DEF SentType
<1>4. \A s \in Runs : Busy(s)' => Busy(s) /\ sent'[s] = sent[s]
  BY <1>2 DEF Busy
<1>5. Timed'
  <2> SUFFICES ASSUME NEW s \in Runs, Busy(s)' PROVE TimedOf(s)'
    BY DEF Timed, TimedOf
  <2>1. TimedOf(s) /\ Busy(s) /\ sent'[s] = sent[s]
    BY <1>4 DEF Timed, TimedOf
  <2> QED
    BY <1>1, <2>1 DEF TimedOf, Stage
<1>6. Alone'
  BY <1>1, <1>4 DEF Alone, DeadBusy, Recent, Passed, Stage
<1> QED
  BY <1>3, <1>5, <1>6

\* A request is sent while the lease holds.
LEMMA SendKeeps ==
  ASSUME CallInv, NEW r \in Runs, Send(r)
  PROVE  SentType' /\ Timed' /\ Alone'
<1> USE DEF CallInv
<1>1. file' = file /\ lease' = lease
  BY DEF Send
<1>2. CASE sent' = sent
  BY <1>1, <1>2 DEF SentType, Timed, Alone, DeadBusy, Busy, Recent, Passed, Stage
<1>3. CASE sent' # sent
  <2>1. /\ MaySend(r)
        /\ sent' = [sent EXCEPT ![r] = [what |-> Asked(call[r])[1], id |-> Asked(call[r])[2], age |-> 0]]
    BY <1>3 DEF Send
  <2>2. /\ sent'[r] = [what |-> Asked(call[r])[1], id |-> Asked(call[r])[2], age |-> 0]
        /\ \A s \in Runs \ {r} : sent'[s] = sent[s]
        /\ DOMAIN sent' = Runs
    BY <2>1 DEF SentType
  <2>3. SentType'
    <3>1. 0 \in 0 .. PutTime
      BY BackupsAssumption
    <3>2. /\ sent'[r] = [what |-> sent'[r].what, id |-> sent'[r].id, age |-> sent'[r].age]
          /\ sent'[r].age = 0
      BY <2>2
    <3> QED
      BY <2>2, <3>1, <3>2 DEF SentType
  <2>4. Stage(r) = "held" /\ lease[r].left \in Int /\ lease[r].left > 0
    BY <2>1, LeaseFacts DEF MaySend, HeldBy, LockInv
  <2>5. ASSUME NEW s \in Runs PROVE TimedOf(s)'
    <3>1. CASE s = r
      <4>1. sent'[r].age = 0
        BY <2>2
      <4> QED
        BY <1>1, <2>4, <3>1, <4>1 DEF TimedOf, Stage
    <3>2. CASE s # r
      <4>1. sent'[s] = sent[s] /\ TimedOf(s)
        BY <2>2, <3>2 DEF Timed, TimedOf
      <4> QED
        BY <1>1, <4>1 DEF TimedOf, Busy, Stage
    <3> QED
      BY <3>1, <3>2
  <2>6. Timed'
    BY <2>5 DEF Timed, TimedOf
  <2>7. \A s \in Runs : DeadBusy(s)' => DeadBusy(s)
    BY <1>1, <2>2, <2>4 DEF DeadBusy, Busy, Stage
  <2>8. Alone'
    BY <1>1, <2>7 DEF Alone, Recent, Passed, Stage
  <2> QED
    BY <2>3, <2>6, <2>8
<1> QED
  BY <1>2, <1>3

\* At first no call has a request under way.
LEMMA CallsStart == Init => CallInv
<1> SUFFICES ASSUME Init PROVE CallInv
  OBVIOUS
<1>1. LockInv /\ sent = [r \in Runs |-> Quiet]
  BY LockStarts DEF Init
<1>2. SentType
  BY <1>1, BackupsAssumption DEF SentType, Quiet
<1>3. Timed /\ Alone
  BY <1>1 DEF Timed, Alone, DeadBusy, Busy
<1> QED
  BY <1>1, <1>2, <1>3 DEF CallInv

\* Every step of a call keeps what is known of the requests.
LEMMA CallStepKeeps == ASSUME Covered, CallInv, [Next]_vars PROVE CallInv'
<1>1. LockInv'
  BY CallStepsAreLockSteps, LockStepKeeps DEF CallInv
<1>2. SentType' /\ Timed' /\ Alone'
  <2>1. CASE UNCHANGED vars
    BY <2>1 DEF vars, CallInv, SentType, Timed, Alone, DeadBusy, Busy, Recent, Passed, Stage
  <2>2. CASE Tick
    BY <2>2, TickCalls
  <2>3. ASSUME NEW r \in Runs, Start(r) \/ LockCall(r) \/ Locked(r) \/ Finish(r) \/ Crash(r)
        PROVE  SentType' /\ Timed' /\ Alone'
    <3>1. /\ sent' = sent
          /\ \/ WriteLock(r) \/ Denied(r) \/ LockStep(r) \/ CrashLock(r)
             \/ Release(r) /\ ~Busy(r)
      BY <2>3 DEF Start, LockCall, Locked, Finish, Crash
    <3>2. Timed' /\ Aside(r)
      BY <3>1, LockStepTimed
    <3>3. Alone'
      BY <3>1, <3>2, LockStepAlone
    <3>4. SentType'
      BY <3>1 DEF CallInv, SentType
    <3> QED
      BY <3>2, <3>3, <3>4
  <2>4. ASSUME NEW r \in Runs, FindBase(r) \/ Scan(r) \/ Decide(r) \/ FindHeld(r)
        PROVE  SentType' /\ Timed' /\ Alone'
    <3>1. sent' = sent /\ file' = file /\ lease' = lease
      BY <2>4 DEF FindBase, Scan, Decide, FindHeld
    <3> QED
      BY <3>1 DEF CallInv, SentType, Timed, Alone, DeadBusy, Busy, Recent, Passed, Stage
  <2>5. ASSUME NEW r \in Runs, Arrive(r) \/ Fails(r) \/ ArriveAfterCrash(r)
        PROVE  SentType' /\ Timed' /\ Alone'
    <3>1. sent' = [sent EXCEPT ![r] = Quiet] /\ UNCHANGED lockVars
      BY <2>5 DEF Arrive, Fails, ArriveAfterCrash, lockVars
    <3> QED
      BY <3>1, RequestEnds
  <2> QED
    BY <2>1, <2>2, <2>3, <2>4, <2>5, SendKeeps DEF Next
<1> QED
  BY <1>1, <1>2 DEF CallInv

\* Where the invariant holds, two calls never have requests under way at once.
LEMMA CallInvAlone == ASSUME Covered, CallInv PROVE NeverAtOnce
<1> SUFFICES ASSUME NEW r \in Runs, NEW s \in Runs, Busy(r), Busy(s), r # s PROVE FALSE
  BY DEF NeverAtOnce
<1>1. Stage(r) \in {"held", "crashed"} /\ Stage(s) \in {"held", "crashed"}
  BY DEF CallInv, Timed
<1>2. ASSUME NEW p \in Runs, NEW q \in Runs, p # q, Busy(p), Busy(q), Stage(p) = "held"
      PROVE  FALSE
  <2>1. Recent(p) /\ Passed(p, q)
    BY <1>2, BusyFacts, HeldPassesAll
  <2>2. ~DeadBusy(q)
    BY <1>2, <2>1 DEF CallInv, Alone
  <2>3. Stage(q) = "held"
    BY <1>2, <2>2 DEF CallInv, Timed, DeadBusy
  <2>4. Recent(q) /\ Passed(q, p)
    BY <1>2, <2>3, BusyFacts, HeldPassesAll
  <2> QED
    BY <1>2, <2>1, <2>4 DEF CallInv, LockInv, Mutual
<1>3. CASE Stage(r) = "crashed" /\ Stage(s) = "crashed"
  BY <1>3 DEF CallInv, Alone, DeadBusy
<1> QED
  BY <1>1, <1>2, <1>3

\* Two calls never have requests under way at once, whatever crashes, as long as
\* a request takes no longer than what the disagreement of the clocks leaves of a
\* lease (docs/guide/locking.md): the property NeverAtOnce.
THEOREM CallsNeverAtOnce == ASSUME Covered PROVE Spec => []NeverAtOnce
<1>1. CallInv /\ [Next]_vars => CallInv'
  BY CallStepKeeps
<1>2. CallInv => NeverAtOnce
  BY CallInvAlone
<1> QED
  BY <1>1, <1>2, CallsStart, PTL DEF Spec

(***************************************************************************)
(* What exists can be restored.  Only the request of one call may land, so *)
(* what that call found out before is still so: each request under way is  *)
(* safe (SafeRequest), and what a call will ask for next will be           *)
(* (Prepared), while its lease holds.                                      *)
(***************************************************************************)

\* The run of the call holds the lock.
Live(r) == Stage(r) = "held" /\ HeldBy(r)

Steps == {"none", "data", "base", "scan", "find", "unhold", "decide", "remove", "hold",
          "manifest", "done"}

CallType ==
  [kind : Creates \cup {"none", "prune", "hold", "unhold"}, step : Steps,
   id : Ids \cup {NoBackup}, base : Ids \cup {NoBackup},
   scan : [complete : SUBSET Ids, data : SUBSET Ids], todo : Seq(Ids)]

\* The backups built on this one.
ChildrenOf(holds, i) == {k \in CompleteIn(holds) : holds.manifest[k].parent = i}

\* What a new backup builds on is there.
HasBase(c, id, holds) ==
  c.kind \in Creates /\ (c.kind = "full" \/ (c.base \in CompleteIn(holds) /\ c.base < id))

\* Landing it leaves the repository restorable.
SafeRequest(c, q, holds) ==
  \/ q.what = "putData" /\ q.id \in Ids
  \/ q.what = "putManifest" /\ q.id \in holds.data /\ HasBase(c, q.id, holds)
  \/ q.what = "deleteManifest" /\ q.id \in Ids \ holds.held /\ ChildrenOf(holds, q.id) = {}
  \/ q.what = "deleteData" /\ q.id \in Ids \ CompleteIn(holds)
  \/ q.what = "hold" /\ q.id \in CompleteIn(holds)
  \/ q.what = "unhold" /\ q.id \in Ids \cup {NoBackup}

\* The removal at this place of the list may come once those before it did.
InTurn(c, holds, m) ==
  LET i == c.todo[m]
  IN  IF i \in c.scan.complete
      THEN i \notin holds.held /\ \A k \in ChildrenOf(holds, i) : \E n \in 1 .. m - 1 : c.todo[n] = k
      ELSE i \notin CompleteIn(holds)

\* What the call found out before its next request still is so.
Prepared(c, holds) ==
  /\ c.step \in {"data", "manifest"} => c.id \in Ids /\ HasBase(c, c.id, holds)
  /\ c.step = "manifest" => c.id \in holds.data
  /\ c.step = "base" => c.id \in Ids /\ c.kind \in Creates
  /\ c.step = "decide" => c.scan.complete = CompleteIn(holds)
  /\ c.step = "remove" => \A m \in 1 .. Len(c.todo) : InTurn(c, holds, m)
  /\ c.step = "hold" => c.id \in CompleteIn(holds)

\* Before it has the lock a call has found nothing out.
Fresh(c) ==
  /\ c.step \in {"data", "base", "scan", "find", "unhold"}
  /\ c.step \in {"data", "base"} => c.id \in Ids /\ c.kind \in Creates
  /\ c.step = "data" => c.kind = "full"

\* The request under way is the one asked for.
InFlight(c, q) ==
  /\ c.step \in Sends /\ q.what = Asked(c)[1] /\ q.id = Asked(c)[2]
  /\ c.step = "remove" => c.todo # <<>>

\* The run asked for the lock and does not have it yet.
Waiting == {"writing", "landed", "looking"}

CallSafe(c, q, holds, stage, live) ==
  /\ c \in CallType
  /\ stage \in Waiting => Fresh(c)
  /\ q # Quiet => SafeRequest(c, q, holds)
  /\ live => Prepared(c, holds)
  /\ live /\ q # Quiet => InFlight(c, q)

RepoSafe == repo \in Holdings /\ RestorableFrom(repo)

SafeOf(r) == CallSafe(call[r], sent[r], repo, Stage(r), Live(r))

RestInv == CallInv /\ RepoSafe /\ DOMAIN call = Runs /\ \A r \in Runs : SafeOf(r)

(***************************************************************************)
(* The repository                                                          *)
(***************************************************************************)

\* The ids are finitely many, and none of them is NoBackup.
LEMMA IdsFacts == /\ Ids \in SUBSET Nat /\ IsFiniteSet(Ids) /\ NoBackup \notin Ids
                  /\ \A S \in SUBSET Ids : IsFiniteSet(S)
<1>1. MaxId \in Nat /\ NoBackup = 0
  BY BackupsAssumption, PlanAssumption
<1>2. IsFiniteSet(Ids)
  BY <1>1, FS_Interval DEF Ids
<1>3. \A S \in SUBSET Ids : IsFiniteSet(S)
  BY <1>2, FS_Subset
<1>4. Ids \in SUBSET Nat /\ NoBackup \notin Ids
  BY <1>1 DEF Ids
<1> QED BY <1>2, <1>3, <1>4

\* The newest of some backups is one of them.
LEMMA NewestOf ==
  ASSUME NEW ids \in SUBSET Ids, ids # {}
  PROVE  Newest(ids) \in ids
<1> DEFINE T == {MaxId - i : i \in ids}
<1>1. MaxId \in Nat /\ \A i \in ids : i \in Nat /\ i <= MaxId
  BY BackupsAssumption DEF Ids
<1>2. T \in SUBSET Nat /\ T # {}
  BY <1>1
<1>3. PICK t \in T : \A u \in T : t <= u
  <2> HIDE DEF T
  <2> QED BY <1>2, LeastNumber
<1>4. PICK i \in ids : t = MaxId - i
  OBVIOUS
<1>5. \A j \in ids : j <= i
  <2> TAKE j \in ids
  <2>1. t <= MaxId - j
    BY <1>3
  <2> QED BY <2>1, <1>1, <1>4
<1> QED BY <1>5 DEF Newest

\* The repository after a request that is safe landed.
LEMMA LandingKeeps ==
  ASSUME NEW r \in Runs, repo \in Holdings, RestorableFrom(repo),
         call[r] \in CallType, SafeRequest(call[r], sent[r], repo)
  PROVE  Applied(r) \in Holdings /\ RestorableFrom(Applied(r))
<1> DEFINE q == sent[r]
           c == call[r]
<1> USE IdsFacts
<1>1. CASE q.what = "putData"
  <2>1. Applied(r) = [repo EXCEPT !.data = @ \cup {q.id}] /\ q.id \in Ids
    BY <1>1 DEF Applied, SafeRequest, CompleteIn, Holdings
  <2> QED BY <2>1 DEF Holdings, RestorableFrom, CompleteIn
<1>2. CASE q.what = "putManifest"
  <2> DEFINE new == ManifestOf(c)
  <2>1. /\ Applied(r) = [repo EXCEPT !.manifest[q.id] = new]
        /\ q.id \in repo.data /\ HasBase(c, q.id, repo)
    BY <1>2 DEF Applied, SafeRequest
  <2>2. q.id \in Ids
    BY <2>1 DEF Holdings
  <2>3. /\ new \in Manifests
        /\ new.parent # NoBackup => new.parent \in CompleteIn(repo) /\ new.parent < q.id
    BY <2>1 DEF ManifestOf, HasBase, Manifests, CompleteIn, CallType
  <2>4. new # Gone
    BY <2>3, BackupsAssumption
  <2> HIDE DEF new
  <2>5. /\ Applied(r).manifest = [repo.manifest EXCEPT ![q.id] = new]
        /\ Applied(r).data = repo.data /\ Applied(r).held = repo.held
        /\ Applied(r) \in Holdings
    BY <2>1, <2>2, <2>3 DEF Holdings
  <2>6. \A i \in Ids : Applied(r).manifest[i] = IF i = q.id THEN new ELSE repo.manifest[i]
    BY <2>5, <2>2 DEF Holdings
  <2>7. CompleteIn(Applied(r)) = CompleteIn(repo) \cup {q.id}
    BY <2>2, <2>4, <2>6 DEF CompleteIn
  <2>8. ASSUME NEW i \in CompleteIn(Applied(r))
        PROVE  /\ i \in Applied(r).data
               /\ Applied(r).manifest[i].parent # NoBackup =>
                    /\ Applied(r).manifest[i].parent \in CompleteIn(Applied(r))
                    /\ Applied(r).manifest[i].parent < i
    <3>1. CASE i = q.id
      BY <2>1, <2>2, <2>3, <2>5, <2>6, <2>7, <3>1
    <3>2. CASE i # q.id
      <4>1. i \in CompleteIn(repo) /\ i \in Ids
        BY <2>7, <3>2 DEF CompleteIn
      <4> QED BY <4>1, <2>5, <2>6, <2>7, <3>2 DEF RestorableFrom
    <3> QED BY <3>1, <3>2
  <2>9. Applied(r).held \subseteq CompleteIn(Applied(r))
    BY <2>5, <2>7 DEF RestorableFrom
  <2> QED BY <2>5, <2>8, <2>9 DEF RestorableFrom
<1>3. CASE q.what = "deleteManifest"
  <2>1. /\ Applied(r) = [repo EXCEPT !.manifest[q.id] = Gone]
        /\ q.id \in Ids \ repo.held /\ ChildrenOf(repo, q.id) = {}
    BY <1>3 DEF Applied, SafeRequest
  <2>2. /\ Applied(r).manifest = [repo.manifest EXCEPT ![q.id] = Gone]
        /\ Applied(r).data = repo.data /\ Applied(r).held = repo.held
        /\ Applied(r) \in Holdings
    BY <2>1 DEF Holdings
  <2>3. \A i \in Ids : Applied(r).manifest[i] = IF i = q.id THEN Gone ELSE repo.manifest[i]
    BY <2>1, <2>2 DEF Holdings
  <2>4. CompleteIn(Applied(r)) = CompleteIn(repo) \ {q.id}
    BY <2>3 DEF CompleteIn
  <2>5. \A i \in CompleteIn(repo) : repo.manifest[i].parent # q.id
    BY <2>1 DEF ChildrenOf
  <2>6. ASSUME NEW i \in CompleteIn(Applied(r))
        PROVE  /\ i \in Applied(r).data
               /\ Applied(r).manifest[i].parent # NoBackup =>
                    /\ Applied(r).manifest[i].parent \in CompleteIn(Applied(r))
                    /\ Applied(r).manifest[i].parent < i
    <3>1. i \in CompleteIn(repo) /\ i # q.id /\ i \in Ids
      BY <2>4 DEF CompleteIn
    <3> QED BY <3>1, <2>2, <2>3, <2>4, <2>5 DEF RestorableFrom
  <2>7. Applied(r).held \subseteq CompleteIn(Applied(r))
    BY <2>1, <2>2, <2>4 DEF RestorableFrom
  <2> QED BY <2>2, <2>6, <2>7 DEF RestorableFrom
<1>4. CASE q.what = "deleteData"
  <2>1. Applied(r) = [repo EXCEPT !.data = @ \ {q.id}] /\ q.id \notin CompleteIn(repo)
    BY <1>4 DEF Applied, SafeRequest
  <2> QED BY <2>1 DEF Holdings, RestorableFrom, CompleteIn
<1>5. CASE q.what = "hold"
  <2>1. Applied(r) = [repo EXCEPT !.held = @ \cup {q.id}] /\ q.id \in CompleteIn(repo)
    BY <1>5 DEF Applied, SafeRequest
  <2> QED BY <2>1 DEF Holdings, RestorableFrom, CompleteIn
<1>6. CASE q.what = "unhold"
  <2>1. Applied(r) = [repo EXCEPT !.held = @ \ {q.id}]
    BY <1>6 DEF Applied
  <2> QED BY <2>1 DEF Holdings, RestorableFrom, CompleteIn
<1> QED BY <1>1, <1>2, <1>3, <1>4, <1>5, <1>6 DEF SafeRequest

(***************************************************************************)
(* Calls                                                                   *)
(***************************************************************************)

\* Nothing that is said of a call reads when backups were born, or how long a
\* request has been under way.
LEMMA SafeAside ==
  ASSUME NEW c, NEW q, NEW q2, NEW holds, NEW holds2, NEW stage, NEW stage2,
         NEW live \in BOOLEAN, NEW live2 \in BOOLEAN,
         CallSafe(c, q, holds, stage, live),
         holds2.manifest = holds.manifest, holds2.data = holds.data, holds2.held = holds.held,
         q2.what = q.what, q2.id = q.id, q2 # Quiet => q # Quiet,
         live2 => live, stage2 \in Waiting => stage \in Waiting
  PROVE  CallSafe(c, q2, holds2, stage2, live2)
<1>1. CompleteIn(holds2) = CompleteIn(holds)
  BY DEF CompleteIn
<1>2. \A i : ChildrenOf(holds2, i) = ChildrenOf(holds, i)
  BY <1>1 DEF ChildrenOf
<1>3. \A id : HasBase(c, id, holds2) <=> HasBase(c, id, holds)
  BY <1>1 DEF HasBase
<1>4. SafeRequest(c, q, holds) => SafeRequest(c, q2, holds2)
  BY <1>1, <1>2, <1>3 DEF SafeRequest
<1>5. Prepared(c, holds) => Prepared(c, holds2)
  BY <1>1, <1>2, <1>3 DEF Prepared, InTurn
<1>6. InFlight(c, q) => InFlight(c, q2)
  BY DEF InFlight
<1> QED BY <1>4, <1>5, <1>6 DEF CallSafe

\* A call that found nothing out yet is prepared, whatever the repository holds.
LEMMA FreshPrepared == ASSUME NEW c, NEW holds, Fresh(c) PROVE Prepared(c, holds)
BY DEF Fresh, Prepared, HasBase, Creates

\* While a request is under way no other call is live.
LEMMA ActiveAlone ==
  ASSUME Covered, CallInv, NEW r \in Runs, Busy(r), NEW s \in Runs, Busy(s) \/ Live(s)
  PROVE  s = r
<1>1. CASE Busy(s)
  BY <1>1, CallInvAlone DEF NeverAtOnce
<1>2. CASE Live(s)
  <2> SUFFICES ASSUME s # r PROVE FALSE
    OBVIOUS
  <2>1. Stage(s) = "held" /\ Recent(s)
    <3>1. lease[s].left \in Int /\ lease[s].left > 0
      BY <1>2, LeaseFacts DEF Live, HeldBy, CallInv, LockInv
    <3>2. Floor < 0 /\ Floor \in Int
      BY LockAssumption DEF Floor
    <3> QED BY <1>2, <3>1, <3>2 DEF Live, Recent
  <2>2. Passed(s, r)
    BY <2>1, HeldPassesAll
  <2>3. ~DeadBusy(r)
    BY <2>1, <2>2 DEF CallInv, Alone
  <2>4. Stage(r) = "held"
    BY <2>3 DEF CallInv, Timed, DeadBusy
  <2>5. Recent(r) /\ Passed(r, s)
    BY <2>4, BusyFacts, HeldPassesAll
  <2> QED BY <2>1, <2>2, <2>5 DEF CallInv, LockInv, Mutual
<1> QED BY <1>1, <1>2

\* What a step of the lock does to the calls: it begins to wait by starting, is
\* live by taking the lock, and else stays what it is or ends.
LEMMA LockStepStages ==
  ASSUME LockTypeOK, NEW r \in Runs,
         Denied(r) \/ LockStep(r) \/ Release(r) \/ CrashLock(r), NEW s \in Runs
  PROVE  /\ Stage(s)' \in Waiting => Stage(s) \in Waiting
         /\ Live(s)' => Live(s) \/ (Take(r) /\ s = r)
<1>1. lease \in [Runs -> LeaseType] /\ lease[r] \in LeaseType
  BY DEF LockTypeOK
<1>2. lease[r].left \in Int
  BY LeaseFacts
<1>3. CASE s # r
  <2>1. lease'[s] = lease[s]
    BY <1>1, <1>3 DEF Denied, LandFails, Refuse, LockStep, Land, ListOthers, PassOver, Take, Renew,
                      RenewalEnds, Leave, LandAfterCrash, Release, CrashLock
  <2> QED BY <2>1 DEF Stage, Live, HeldBy
<1>4. CASE s = r
  <2>1. CASE Denied(r) \/ Release(r) \/ CrashLock(r)
    <3>1. lease'[r].stage \in {"leaving", "crashed"}
      BY <1>1, <2>1 DEF Denied, LandFails, Refuse, Release, CrashLock, Ended, NoLease
    <3> QED BY <1>4, <3>1 DEF Stage, Waiting, Live
  <2>2. CASE Land(r) \/ ListOthers(r) \/ \E k \in Runs : PassOver(r, k)
    <3>1. Stage(r) \in Waiting
      BY <2>2 DEF Land, ListOthers, PassOver, Waiting
    <3>2. lease'[r].stage # "held"
      BY <1>1, <2>2 DEF Land, ListOthers, PassOver, Stage, LeaseType
    <3> QED BY <1>4, <3>1, <3>2 DEF Stage, Live
  <2>3. CASE Take(r)
    <3>1. Stage(r) \in Waiting
      BY <2>3 DEF Take, Waiting
    <3> QED BY <1>4, <2>3, <3>1
  <2>4. CASE Renew(r)
    <3>1. lease'[r].stage = lease[r].stage /\ lease'[r].left = lease[r].left
      BY <1>1, <2>4 DEF Renew, LeaseType
    <3> QED BY <1>4, <3>1 DEF Stage, Live, HeldBy
  <2>5. CASE RenewalEnds(r)
    <3>1. lease'[r].stage = lease[r].stage /\ lease'[r].left \in {lease[r].left, Prolonged(r)}
      BY <1>1, <2>5 DEF RenewalEnds, LeaseType
    <3> QED BY <1>4, <3>1 DEF Stage, Live, HeldBy, Prolonged
  <2>6. CASE Leave(r) \/ LandAfterCrash(r)
    <3>1. lease'[r].stage \in {"over", "crashed"}
      BY <1>1, <2>6 DEF Leave, LandAfterCrash, Stage, LeaseType
    <3> QED BY <1>4, <3>1 DEF Stage, Waiting, Live
  <2> QED BY <2>1, <2>2, <2>3, <2>4, <2>5, <2>6 DEF LockStep
<1> QED BY <1>3, <1>4

\* A step that touches one call, and of the repository the dates at most.
Elsewhere(r) ==
  /\ RepoSafe' /\ DOMAIN call' = Runs
  /\ repo'.manifest = repo.manifest /\ repo'.data = repo.data /\ repo'.held = repo.held
  /\ \A s \in Runs \ {r} : call'[s] = call[s] /\ sent'[s] = sent[s] /\ lease'[s] = lease[s]

\* Such a step leaves every other call as safe as it was.
LEMMA ElsewhereSafe ==
  ASSUME NEW r \in Runs, Elsewhere(r), \A s \in Runs : SafeOf(s), SafeOf(r)'
  PROVE  \A s \in Runs : SafeOf(s)'
<1> SUFFICES ASSUME NEW s \in Runs \ {r} PROVE SafeOf(s)'
  OBVIOUS
<1>1. call'[s] = call[s] /\ sent'[s] = sent[s] /\ lease'[s] = lease[s]
  BY DEF Elsewhere
<1>2. Stage(s)' = Stage(s) /\ (Live(s)' <=> Live(s))
  BY <1>1 DEF Stage, Live, HeldBy
<1>3. CallSafe(call[s], sent[s], repo, Stage(s), Live(s))
  BY DEF SafeOf
<1>4. Live(s) \in BOOLEAN /\ Live(s)' \in BOOLEAN
  BY DEF Live
<1>5. CallSafe(call[s], sent[s], repo', Stage(s)', Live(s)')
  BY <1>2, <1>3, <1>4, SafeAside DEF Elsewhere
<1> QED BY <1>1, <1>5 DEF SafeOf

\* The lock's own steps: whoever takes it was waiting.
LEMMA LockCallSafe ==
  ASSUME RestInv, NEW r \in Runs, LockCall(r)
  PROVE  RepoSafe' /\ DOMAIN call' = Runs /\ \A s \in Runs : SafeOf(s)'
<1>1. repo' = repo /\ call' = call /\ sent' = sent /\ LockStep(r)
  BY DEF LockCall
<1>2. LockTypeOK
  BY DEF RestInv, CallInv, LockInv
<1>3. ASSUME NEW s \in Runs PROVE SafeOf(s)'
  <2>1. CallSafe(call[s], sent[s], repo, Stage(s), Live(s))
    BY DEF RestInv, SafeOf
  <2>2. Stage(s)' \in Waiting => Stage(s) \in Waiting
    BY <1>1, <1>2, LockStepStages
  <2>3. Live(s) \in BOOLEAN /\ Live(s)' \in BOOLEAN
    BY DEF Live
  <2>4. CASE Live(s)' => Live(s)
    <3>1. CallSafe(call[s], sent[s], repo, Stage(s)', Live(s)')
      BY <2>1, <2>2, <2>3, <2>4, SafeAside
    <3> QED BY <1>1, <3>1 DEF SafeOf
  <2>5. CASE Take(r) /\ s = r
    <3>1. Stage(s) = "looking" /\ Stage(s) \in Waiting
      BY <2>5 DEF Take, Waiting
    <3>2. ~Busy(s)
      BY <3>1 DEF RestInv, CallInv, Timed
    <3>3. call[s] \in CallType /\ Fresh(call[s])
      BY <2>1, <3>1 DEF CallSafe
    <3>4. sent[s] = Quiet /\ Prepared(call[s], repo)
      BY <3>2, <3>3, FreshPrepared DEF Busy
    <3>5. CallSafe(call[s], sent[s], repo, Stage(s)', Live(s)')
      BY <3>3, <3>4 DEF CallSafe
    <3> QED BY <1>1, <3>5 DEF SafeOf
  <2> QED BY <1>1, <1>2, <2>4, <2>5, LockStepStages
<1> QED BY <1>1, <1>3 DEF RestInv, RepoSafe, Holdings, RestorableFrom, CompleteIn

\* A call that found nothing out yet, field by field.
LEMMA BegunTyped ==
  ASSUME NEW kind \in Creates \cup {"none", "prune", "hold", "unhold"}, NEW step \in Steps,
         NEW id \in Ids \cup {NoBackup}
  PROVE  /\ Begun(kind, step, id) \in CallType
         /\ Begun(kind, step, id).kind = kind /\ Begun(kind, step, id).step = step
         /\ Begun(kind, step, id).id = id
BY DEF Begun, NoScan, CallType

\* No call, as a call.
LEMMA NoCallTyped == NoCall \in CallType /\ NoScan \in [complete : SUBSET Ids, data : SUBSET Ids]
<1>1. "none" \in Steps
  BY DEF Steps
<1> QED BY <1>1, BegunTyped DEF NoCall, NoScan

\* A call that ended, or did not get the lock.
LEMMA EndedSafe ==
  ASSUME RestInv, NEW r \in Runs, ~Busy(r), UNCHANGED <<repo, sent>>,
         Denied(r) \/ Release(r) \/ CrashLock(r), call' = [call EXCEPT ![r] = NoCall]
  PROVE  Elsewhere(r) /\ SafeOf(r)'
<1>1. LockTypeOK
  BY DEF RestInv, CallInv, LockInv
<1>2. \A s \in Runs \ {r} : lease'[s] = lease[s]
  BY <1>1 DEF LockTypeOK, Denied, LandFails, Refuse, Release, CrashLock
<1>3. Elsewhere(r)
  <2>1. DOMAIN call' = Runs /\ \A s \in Runs \ {r} : call'[s] = call[s]
    BY DEF RestInv
  <2>2. RepoSafe'
    BY DEF RestInv, RepoSafe
  <2> QED BY <1>2, <2>1, <2>2 DEF Elsewhere
<1>4. lease'[r].stage \in {"leaving", "crashed"}
  BY <1>1 DEF Denied, LandFails, Refuse, Release, CrashLock, Ended, NoLease, LockTypeOK
<1>5. Stage(r)' \notin Waiting /\ ~Live(r)'
  BY <1>4 DEF Stage, Live, Waiting
<1>6. call'[r] = NoCall
  BY DEF RestInv
<1>7. sent'[r] = Quiet
  BY DEF Busy
<1> QED BY <1>3, <1>5, <1>6, <1>7, NoCallTyped DEF SafeOf, CallSafe

\* What is left of a call whose process died, field by field.
LEMMA CutShort ==
  ASSUME NEW c \in CallType, NEW none, NEW nothing, NEW unread
  PROVE  [c EXCEPT !.step = none, !.todo = nothing, !.scan = unread]
           = [kind |-> c.kind, step |-> none, id |-> c.id, base |-> c.base,
              scan |-> unread, todo |-> nothing]
<1> DEFINE d == [c EXCEPT !.step = none, !.todo = nothing, !.scan = unread]
<1>1. d \in [kind : {c.kind}, step : {none}, id : {c.id}, base : {c.base},
             scan : {unread}, todo : {nothing}]
  BY DEF CallType
<1> HIDE DEF d
<1>2. d = [kind |-> c.kind, step |-> none, id |-> c.id, base |-> c.base,
           scan |-> unread, todo |-> nothing]
  BY <1>1
<1> QED BY <1>2 DEF d

\* A call of which a request is under way after its process died.
LEMMA CrashSafe ==
  ASSUME RestInv, NEW r \in Runs, Crash(r)
  PROVE  Elsewhere(r) /\ SafeOf(r)'
<1>1. CASE ~Busy(r)
  BY <1>1, EndedSafe DEF Crash
<1>2. CASE Busy(r)
  <2> DEFINE c == call[r]
             new == [c EXCEPT !.step = "none", !.todo = <<>>, !.scan = NoScan]
  <2>1. c \in CallType /\ SafeRequest(c, sent[r], repo)
    BY <1>2 DEF RestInv, SafeOf, CallSafe, Busy
  <2>2. /\ new \in CallType /\ new.kind = c.kind /\ new.base = c.base
    <3>1. new = [kind |-> c.kind, step |-> "none", id |-> c.id, base |-> c.base,
                 scan |-> NoScan, todo |-> <<>>]
      BY <2>1, CutShort
    <3>2. "none" \in Steps /\ <<>> \in Seq(Ids)
      BY DEF Steps
    <3> HIDE DEF new
    <3>3. new.kind = c.kind /\ new.base = c.base
      BY <3>1
    <3>4. new \in CallType
      BY <2>1, <3>1, <3>2, NoCallTyped DEF CallType
    <3> QED BY <3>3, <3>4
  <2>3. call' = [call EXCEPT ![r] = new] /\ repo' = repo /\ sent' = sent /\ CrashLock(r)
    BY <1>2 DEF Crash
  <2>4. LockTypeOK
    BY DEF RestInv, CallInv, LockInv
  <2>5. Elsewhere(r)
    <3>1. DOMAIN call' = Runs /\ \A s \in Runs \ {r} : call'[s] = call[s]
      BY <2>3 DEF RestInv
    <3>2. RepoSafe'
      BY <2>3 DEF RestInv, RepoSafe
    <3>3. \A s \in Runs \ {r} : lease'[s] = lease[s]
      BY <2>3, <2>4 DEF LockTypeOK, CrashLock
    <3> QED BY <2>3, <3>1, <3>2, <3>3 DEF Elsewhere
  <2>6. Stage(r)' \notin Waiting /\ ~Live(r)'
    <3>1. lease'[r].stage = "crashed"
      BY <2>3, <2>4 DEF CrashLock, Ended, NoLease, LockTypeOK
    <3> QED BY <3>1 DEF Stage, Live, Waiting
  <2> HIDE DEF new
  <2>7. SafeRequest(new, sent[r], repo)
    BY <2>1, <2>2 DEF SafeRequest, HasBase
  <2>8. call'[r] = new
    BY <2>3 DEF RestInv
  <2>9. CallSafe(new, sent[r], repo, Stage(r)', Live(r)')
    BY <2>2, <2>6, <2>7 DEF CallSafe
  <2> QED BY <2>3, <2>5, <2>8, <2>9 DEF SafeOf
<1> QED BY <1>1, <1>2

\* A call that starts: what it found out is nothing yet.
LEMMA StartSafe ==
  ASSUME RestInv, NEW r \in Runs, Start(r)
  PROVE  Elsewhere(r) /\ SafeOf(r)'
<1> DEFINE new == call'[r]
<1>1. /\ sent' = sent /\ WriteLock(r) /\ LockTypeOK /\ DOMAIN call = Runs
      /\ repo \in Holdings /\ RestorableFrom(repo)
  BY DEF Start, RestInv, RepoSafe, CallInv, LockInv
<1>2. /\ \A s \in Runs \ {r} : lease'[s] = lease[s]
      /\ Stage(r)' = "writing" /\ ~Live(r)'
  BY <1>1 DEF WriteLock, LockTypeOK, Stage, Live
<1>3. sent'[r] = Quiet
  BY <1>1 DEF RestInv, CallInv, Timed, Busy, WriteLock
<1>4. ASSUME NEW x \in CallType, Fresh(x), call' = [call EXCEPT ![r] = x]
      PROVE  /\ \A s \in Runs \ {r} : call'[s] = call[s]
             /\ DOMAIN call' = Runs /\ SafeOf(r)'
  <2>1. call'[r] = x /\ DOMAIN call' = Runs /\ \A s \in Runs \ {r} : call'[s] = call[s]
    BY <1>1, <1>4
  <2> QED BY <2>1, <1>2, <1>3, <1>4 DEF SafeOf, CallSafe
<1>5. ASSUME NEW kind, StartCreate(r, kind) PROVE Elsewhere(r) /\ SafeOf(r)'
  <2> DEFINE step == IF kind = "full" THEN "data" ELSE "base"
             n == NextId
             x == Begun(kind, step, n)
  <2>1. /\ kind \in Creates /\ n \in Ids /\ repo' = [repo EXCEPT !.born[n] = 0]
        /\ call' = [call EXCEPT ![r] = x]
    BY <1>5 DEF StartCreate
  <2>2. step \in Steps /\ (step = "data" => kind = "full") /\ step \in {"data", "base"}
    BY DEF Steps
  <2> HIDE DEF n, step
  <2>3. x \in CallType /\ Fresh(x)
    BY <2>1, <2>2, BegunTyped DEF Fresh
  <2> HIDE DEF x
  <2>4. /\ repo'.manifest = repo.manifest /\ repo'.data = repo.data /\ repo'.held = repo.held
        /\ repo' \in Holdings
    <3>1. n \in Ids /\ 0 \in 0 .. IncompleteAfter /\ repo' = [repo EXCEPT !.born[n] = 0]
      BY <2>1, BackupsAssumption
    <3>2. repo' = [repo EXCEPT !.born = [repo.born EXCEPT ![n] = 0]]
      BY <3>1, <1>1 DEF Holdings
    <3>3. [repo.born EXCEPT ![n] = 0] \in [Ids -> (0 .. IncompleteAfter) \cup {Gone}]
      BY <3>1, <1>1 DEF Holdings
    <3> DEFINE b == [repo.born EXCEPT ![n] = 0]
    <3>4. b \in [Ids -> (0 .. IncompleteAfter) \cup {Gone}] /\ repo' = [repo EXCEPT !.born = b]
      BY <3>2, <3>3
    <3> HIDE DEF b
    <3> QED BY <3>4, <1>1 DEF Holdings
  <2>5. RestorableFrom(repo')
    BY <1>1, <2>4 DEF RestorableFrom, CompleteIn
  <2> QED BY <1>1, <1>2, <1>4, <2>1, <2>3, <2>4, <2>5 DEF Elsewhere, RepoSafe
<1>6. ASSUME NEW x \in CallType, Fresh(x), call' = [call EXCEPT ![r] = x], repo' = repo
      PROVE  Elsewhere(r) /\ SafeOf(r)'
  BY <1>1, <1>2, <1>4, <1>6 DEF Elsewhere, RepoSafe
<1>7. ASSUME StartPrune(r) PROVE Elsewhere(r) /\ SafeOf(r)'
  <2> DEFINE x == Begun("prune", "scan", NoBackup)
  <2>1. x \in CallType /\ Fresh(x)
    <3>1. "scan" \in Steps
      BY DEF Steps
    <3> QED BY <3>1, BegunTyped DEF Fresh
  <2> QED BY <1>6, <1>7, <2>1 DEF StartPrune
<1>8. ASSUME NEW id \in Ids, StartHold(r, id) PROVE Elsewhere(r) /\ SafeOf(r)'
  <2> DEFINE x == Begun("hold", "find", id)
  <2>1. x \in CallType /\ Fresh(x)
    <3>1. "find" \in Steps
      BY DEF Steps
    <3>2. "hold" \in Creates \cup {"none", "prune", "hold", "unhold"} /\ id \in Ids \cup {NoBackup}
      OBVIOUS
    <3>3. x \in CallType /\ x.step = "find"
      BY <3>1, <3>2, BegunTyped
    <3> HIDE DEF x
    <3> QED BY <3>3 DEF Fresh
  <2> QED BY <1>6, <1>8, <2>1 DEF StartHold
<1>9. ASSUME NEW id \in Ids, StartUnhold(r, id) PROVE Elsewhere(r) /\ SafeOf(r)'
  <2> DEFINE x == Begun("unhold", "unhold", id)
  <2>1. x \in CallType /\ Fresh(x)
    <3>1. "unhold" \in Steps
      BY DEF Steps
    <3>2. "unhold" \in Creates \cup {"none", "prune", "hold", "unhold"} /\ id \in Ids \cup {NoBackup}
      OBVIOUS
    <3>3. x \in CallType /\ x.step = "unhold"
      BY <3>1, <3>2, BegunTyped
    <3> HIDE DEF x
    <3> QED BY <3>3 DEF Fresh
  <2> QED BY <1>6, <1>9, <2>1 DEF StartUnhold
<1>10. Complete \subseteq Ids /\ repo.held \subseteq Ids
  BY <1>1 DEF Complete, CompleteIn, Holdings
<1> QED BY <1>5, <1>7, <1>8, <1>9, <1>10 DEF Start

\* A call at another step.
LEMMA GoneTo ==
  ASSUME NEW c \in CallType, NEW step \in Steps
  PROVE  LET d == [c EXCEPT !.step = step]
         IN  /\ d \in CallType /\ d.step = step /\ d.kind = c.kind /\ d.id = c.id
             /\ d.base = c.base /\ d.scan = c.scan /\ d.todo = c.todo
BY DEF CallType

\* What a call finds out, with nothing under way.
LEMMA WorkSafe ==
  ASSUME RestInv, NEW r \in Runs, Stage(r) = "held", ~Busy(r), UNCHANGED <<file, lease, repo, sent>>,
         NEW c \in CallType, call' = [call EXCEPT ![r] = c], Live(r) => Prepared(c, repo)
  PROVE  Elsewhere(r) /\ SafeOf(r)'
<1>1. call'[r] = c /\ DOMAIN call' = Runs /\ \A s \in Runs \ {r} : call'[s] = call[s]
  BY DEF RestInv
<1>2. RepoSafe'
  BY DEF RestInv, RepoSafe
<1>3. (Live(r)' => Live(r)) /\ Stage(r)' = Stage(r)
  BY DEF Live, Stage, HeldBy
<1>4. Stage(r)' \notin Waiting
  BY <1>3 DEF Waiting
<1>5. sent'[r] = Quiet
  BY DEF Busy
<1> QED BY <1>1, <1>2, <1>3, <1>4, <1>5 DEF Elsewhere, SafeOf, CallSafe

\* What a new backup builds on is there while the lease holds.
LEMMA FindBaseSafe ==
  ASSUME RestInv, NEW r \in Runs, FindBase(r)
  PROVE  Elsewhere(r) /\ SafeOf(r)'
<1> DEFINE c == call[r]
           b == Base(r)
           on == [c EXCEPT !.base = b, !.step = "data"]
           done == [c EXCEPT !.step = "done"]
<1>1. /\ Stage(r) = "held" /\ ~Busy(r) /\ c.step = "base" /\ UNCHANGED <<file, lease, repo, sent>>
      /\ c \in CallType /\ (Live(r) => Prepared(c, repo)) /\ repo \in Holdings
  BY DEF FindBase, At, RestInv, SafeOf, CallSafe, RepoSafe
<1>2. CASE b # NoBackup /\ WholeChain(b)
  <2> DEFINE fit == {i \in Complete : /\ i < c.id
                                      /\ c.kind = "incremental" \/ repo.manifest[i].kind = "full"}
  <2>1. b = IF fit = {} THEN NoBackup ELSE Newest(fit)
    BY DEF Base
  <2>2. fit \in SUBSET Ids
    BY DEF Complete, CompleteIn
  <2>3. b \in fit
    <3> HIDE DEF fit, b
    <3> QED BY <1>2, <2>1, <2>2, NewestOf
  <2>4. b \in CompleteIn(repo) /\ b < c.id /\ b \in Ids
    BY <2>2, <2>3 DEF Complete
  <2>5. call' = [call EXCEPT ![r] = on]
    BY <1>2 DEF FindBase
  <2> HIDE DEF b, c
  <2>6. /\ on \in CallType /\ on.step = "data" /\ on.base = b
        /\ on.kind = c.kind /\ on.id = c.id
    <3>1. "data" \in Steps
      BY DEF Steps
    <3> QED BY <1>1, <2>4, <3>1 DEF CallType
  <2> HIDE DEF on
  <2>7. Live(r) => Prepared(on, repo)
    BY <1>1, <2>4, <2>6 DEF Prepared, HasBase
  <2> QED BY <1>1, <2>5, <2>6, <2>7, WorkSafe
<1>3. CASE ~(b # NoBackup /\ WholeChain(b))
  <2>1. call' = [call EXCEPT ![r] = done]
    BY <1>3 DEF FindBase, Goes
  <2>2. done \in CallType /\ done.step = "done"
    <3>1. "done" \in Steps
      BY DEF Steps
    <3> HIDE DEF c
    <3> QED BY <1>1, <3>1, GoneTo
  <2> HIDE DEF done
  <2>3. Prepared(done, repo)
    BY <2>2 DEF Prepared
  <2> QED BY <1>1, <2>1, <2>2, <2>3, WorkSafe
<1> QED BY <1>2, <1>3

\* What a prune lists is what exists while the lease holds.
LEMMA ScanSafe ==
  ASSUME RestInv, NEW r \in Runs, Scan(r)
  PROVE  Elsewhere(r) /\ SafeOf(r)'
<1> DEFINE c == call[r]
           found == [complete |-> Complete, data |-> repo.data]
           new == [c EXCEPT !.step = "decide", !.scan = found]
<1>1. /\ Stage(r) = "held" /\ ~Busy(r) /\ UNCHANGED <<file, lease, repo, sent>>
      /\ c \in CallType /\ repo \in Holdings
  BY DEF Scan, At, RestInv, SafeOf, CallSafe, RepoSafe
<1>2. found \in [complete : SUBSET Ids, data : SUBSET Ids] /\ found.complete = CompleteIn(repo)
  BY <1>1 DEF Complete, CompleteIn, Holdings
<1>3. call' = [call EXCEPT ![r] = new]
  BY DEF Scan
<1> HIDE DEF c, found
<1>4. new \in CallType /\ new.step = "decide" /\ new.scan = found
  <2>1. "decide" \in Steps
    BY DEF Steps
  <2> QED BY <1>1, <1>2, <2>1 DEF CallType
<1> HIDE DEF new
<1>5. Prepared(new, repo)
  BY <1>2, <1>4 DEF Prepared
<1> QED BY <1>1, <1>3, <1>4, <1>5, WorkSafe

\* A hold is asked for only where the backup was found.
LEMMA FindHeldSafe ==
  ASSUME RestInv, NEW r \in Runs, FindHeld(r)
  PROVE  Elsewhere(r) /\ SafeOf(r)'
<1> DEFINE c == call[r]
           step == IF c.id \in Complete THEN "hold" ELSE "done"
           new == [c EXCEPT !.step = step]
<1>1. /\ Stage(r) = "held" /\ ~Busy(r) /\ UNCHANGED <<file, lease, repo, sent>> /\ c \in CallType
  BY DEF FindHeld, At, RestInv, SafeOf, CallSafe
<1>2. call' = [call EXCEPT ![r] = new]
  BY DEF FindHeld, Goes
<1>3. step \in Steps /\ (step = "hold" => c.id \in CompleteIn(repo)) /\ step \in {"hold", "done"}
  BY DEF Steps, Complete
<1> HIDE DEF c, step
<1>4. new \in CallType /\ new.step = step /\ new.id = c.id
  BY <1>1, <1>3, GoneTo
<1> HIDE DEF new
<1>5. Prepared(new, repo)
  BY <1>3, <1>4 DEF Prepared
<1> QED BY <1>1, <1>2, <1>4, <1>5, WorkSafe

\* One list after another, the second from its end.
LEMMA ListsJoined ==
  ASSUME NEW A \in SUBSET Ids, NEW B \in SUBSET Ids, NEW a \in Nat, NEW b \in Nat,
         NEW s \in [1 .. a -> A], NEW t \in [1 .. b -> B]
  PROVE  LET joined == s \o Reverse(t)
         IN  /\ joined \in Seq(Ids) /\ Len(joined) = a + b
             /\ \A m \in 1 .. a : joined[m] = s[m]
             /\ \A m \in 1 .. a + b : m > a => joined[m] \in B
<1>1. s \in Seq(A) /\ Len(s) = a /\ t \in Seq(B) /\ Len(t) = b
  OBVIOUS
<1>2. Reverse(t) \in [1 .. b -> B]
  BY <1>1 DEF Reverse
<1> DEFINE u == Reverse(t)
<1>3. u \in Seq(B) /\ Len(u) = b /\ \A m \in 1 .. b : u[m] \in B
  BY <1>2
<1> HIDE DEF u
<1>4. s \in Seq(Ids) /\ u \in Seq(Ids)
  BY <1>1, <1>3
<1>5. s \o u \in Seq(Ids) /\ Len(s \o u) = a + b /\ \A m \in 1 .. a : (s \o u)[m] = s[m]
  BY <1>1, <1>3, <1>4
<1>6. ASSUME NEW m \in 1 .. a + b, m > a PROVE (s \o u)[m] \in B
  <2>1. m - a \in 1 .. b /\ (s \o u)[m] = u[m - a]
    BY <1>1, <1>3, <1>4, <1>6
  <2> QED BY <2>1, <1>3
<1> QED BY <1>5, <1>6 DEF u

\* A prune removes nothing held, nothing with something built on it that stays, and
\* what is built on a backup before the backup.
LEMMA DecideSafe ==
  ASSUME RestInv, NEW r \in Runs, Decide(r)
  PROVE  Elsewhere(r) /\ SafeOf(r)'
<1> DEFINE c == call[r]
           ids == c.scan.complete \cap Complete
           cand == Candidates(ids)
           inc == Incomplete(c.scan)
<1>1. /\ Stage(r) = "held" /\ ~Busy(r) /\ UNCHANGED <<file, lease, repo, sent>> /\ c.step = "decide"
      /\ c \in CallType /\ (Live(r) => Prepared(c, repo)) /\ repo \in Holdings /\ RestorableFrom(repo)
  BY DEF Decide, At, RestInv, SafeOf, CallSafe, RepoSafe
<1>2. PICK p \in Policies :
        call' = [call EXCEPT ![r].step = "remove",
                   ![r].todo = PruneOrder(Removed(cand, p)) \o Reverse(NewestFirst(inc))]
  BY DEF Decide
<1> DEFINE out == Removed(cand, p)
           first == NewestFirst(out)
           todo == first \o Reverse(NewestFirst(inc))
           new == [c EXCEPT !.step = "remove", !.todo = todo]
<1>3. call' = [call EXCEPT ![r] = new]
  BY <1>2 DEF PruneOrder
<1>4. /\ ids \in SUBSET Ids /\ inc \in SUBSET Ids /\ inc \cap c.scan.complete = {}
      /\ DOMAIN cand = ids /\ out \in SUBSET ids
  BY <1>1 DEF CallType, Incomplete, Candidates, Removed
<1>5. /\ ids \in SUBSET Nat /\ IsFiniteSet(ids) /\ inc \in SUBSET Nat /\ IsFiniteSet(inc)
      /\ out \in SUBSET Ids /\ out \in SUBSET Nat /\ IsFiniteSet(out)
  <2> HIDE DEF ids, inc, out
  <2> QED BY <1>4, IdsFacts
<1> DEFINE n == Cardinality(out)
<1>6. /\ n \in Nat /\ first \in [1 .. n -> out]
      /\ \A m \in 1 .. n : \A k \in out : k > first[m] => \E l \in 1 .. m - 1 : first[l] = k
  <2> HIDE DEF out
  <2> QED BY <1>5, NewestFirstLists
<1>7. Cardinality(inc) \in Nat /\ NewestFirst(inc) \in [1 .. Cardinality(inc) -> inc]
  <2> HIDE DEF inc
  <2> QED BY <1>5, NewestFirstLists
<1>8. /\ todo \in Seq(Ids)
      /\ \A m \in 1 .. n : todo[m] = first[m]
      /\ \A m \in 1 .. Len(todo) : m > n => todo[m] \in inc
  <2> DEFINE b == Cardinality(inc)
             last == NewestFirst(inc)
  <2>1. /\ out \in SUBSET Ids /\ inc \in SUBSET Ids /\ n \in Nat /\ b \in Nat
        /\ first \in [1 .. n -> out] /\ last \in [1 .. b -> inc]
    BY <1>4, <1>5, <1>6, <1>7
  <2> HIDE DEF out, inc, first, n, b, last
  <2>2. /\ first \o Reverse(last) \in Seq(Ids) /\ Len(first \o Reverse(last)) = n + b
        /\ \A m \in 1 .. n : (first \o Reverse(last))[m] = first[m]
        /\ \A m \in 1 .. n + b : m > n => (first \o Reverse(last))[m] \in inc
    BY <2>1, ListsJoined
  <2>3. todo = first \o Reverse(last)
    BY DEF last
  <2> HIDE DEF todo
  <2> QED BY <2>2, <2>3
<1>9. /\ new \in CallType /\ new.step = "remove" /\ new.todo = todo /\ new.scan = c.scan
  <2>1. "remove" \in Steps
    BY DEF Steps
  <2> HIDE DEF c, todo
  <2> QED BY <1>1, <1>8, <2>1 DEF CallType
<1>10. ASSUME Live(r), NEW m \in 1 .. Len(todo) PROVE InTurn(new, repo, m)
  <2>1. c.scan.complete = CompleteIn(repo) /\ ids = CompleteIn(repo)
    BY <1>1, <1>10 DEF Prepared, Complete
  <2>2. CASE m > n
    <3>1. todo[m] \in inc
      BY <1>8, <2>2
    <3>2. new.todo[m] \notin c.scan.complete
      <4> HIDE DEF new, todo, inc, c
      <4> QED BY <1>4, <1>9, <3>1
    <3> HIDE DEF new, c
    <3> QED BY <1>9, <2>1, <3>2 DEF InTurn
  <2>3. CASE ~(m > n)
    <3> DEFINE i == first[m]
    <3>1. m \in 1 .. n /\ todo[m] = i /\ i \in out
      <4> HIDE DEF todo, first, n, out
      <4> QED BY <1>6, <1>8, <2>3
    <3>2. i \in ids /\ i \notin Kept(cand, p)
      BY <1>4, <3>1 DEF Removed
    <3>3. i \notin repo.held
      <4> SUFFICES ASSUME i \in repo.held PROVE FALSE
        OBVIOUS
      <4>1. cand[i].held
        BY <3>2 DEF Candidates
      <4> HIDE DEF cand, i, ids
      <4> QED BY <1>4, <1>5, <3>2, <4>1, HeldKept
    <3>4. ASSUME NEW k \in ChildrenOf(repo, i) PROVE \E l \in 1 .. m - 1 : todo[l] = k
      <4>1. k \in ids /\ repo.manifest[k].parent = i
        BY <2>1 DEF ChildrenOf
      <4>2. i \in Ids /\ i # NoBackup
        <5> HIDE DEF i, ids
        <5> QED BY <1>4, <3>2, IdsFacts
      <4>3. i < k
        <5> HIDE DEF i, ids
        <5> QED BY <1>1, <2>1, <4>1, <4>2 DEF RestorableFrom
      <4>4. BuildsOn(cand, k) /\ cand[k].parent = i
        BY <1>4, <3>2, <4>1, <4>3 DEF BuildsOn, Candidates
      <4>5. k \notin Kept(cand, p)
        <5> HIDE DEF cand, i, ids
        <5> QED BY <1>4, <1>5, <3>2, <4>4, KeptClosed DEF ClosedIn
      <4>6. k \in out
        <5> HIDE DEF cand, ids
        <5> QED BY <1>4, <4>1, <4>5 DEF Removed
      <4>7. k > first[m]
        <5> HIDE DEF first, ids
        <5>1. k \in Nat /\ i \in Nat
          BY <1>4, <1>5, <3>2, <4>1
        <5> QED BY <4>3, <5>1
      <4>8. PICK l \in 1 .. m - 1 : first[l] = k
        <5> HIDE DEF first, out, n
        <5> QED BY <1>6, <3>1, <4>6, <4>7
      <4>9. l \in 1 .. n
        <5> HIDE DEF n
        <5> QED BY <1>6, <3>1
      <4>10. todo[l] = k
        <5> HIDE DEF todo, first, n
        <5> QED BY <1>8, <4>8, <4>9
      <4> QED BY <4>10
    <3>5. new.todo[m] = i /\ \A k \in ChildrenOf(repo, i) : \E l \in 1 .. m - 1 : new.todo[l] = k
      <4> HIDE DEF new, todo, i
      <4> QED BY <1>9, <3>1, <3>4
    <3>6. i \in new.scan.complete
      <4> HIDE DEF new, i
      <4> QED BY <1>9, <3>2
    <3> HIDE DEF new, i
    <3> QED BY <3>3, <3>5, <3>6 DEF InTurn
  <2> QED BY <2>2, <2>3
<1>11. Live(r) => Prepared(new, repo)
  <2> HIDE DEF new, todo
  <2> QED BY <1>9, <1>10 DEF Prepared
<1> HIDE DEF new
<1> QED BY <1>1, <1>3, <1>9, <1>11, WorkSafe

\* A call asks for what it is prepared for.
LEMMA SendSafe ==
  ASSUME RestInv, NEW r \in Runs, Send(r)
  PROVE  Elsewhere(r) /\ SafeOf(r)'
<1> DEFINE c == call[r]
           q == [what |-> Asked(c)[1], id |-> Asked(c)[2], age |-> 0]
           done == [c EXCEPT !.step = "done"]
<1>1. /\ Stage(r) = "held" /\ ~Busy(r) /\ c.step \in Sends /\ UNCHANGED <<file, lease, repo>>
      /\ c \in CallType /\ (Live(r) => Prepared(c, repo)) /\ repo \in Holdings
      /\ c.step = "remove" => c.todo # <<>>
  BY DEF Send, At, RestInv, SafeOf, CallSafe, RepoSafe
<1>2. CASE MaySend(r)
  <2>1. /\ call' = call /\ sent' = [sent EXCEPT ![r] = q] /\ Prepared(c, repo)
    BY <1>1, <1>2 DEF Send, MaySend, Live
  <2>2. q.what = Asked(c)[1] /\ q.id = Asked(c)[2]
    OBVIOUS
  <2>3. SafeRequest(c, q, repo)
    <3> HIDE DEF c, q
    <3>1. CASE c.step = "data"
      <4>1. q.what = "putData" /\ q.id = c.id
        BY <2>2, <3>1 DEF Asked
      <4> QED BY <4>1, <2>1, <3>1 DEF Prepared, SafeRequest
    <3>2. CASE c.step = "manifest"
      <4>1. q.what = "putManifest" /\ q.id = c.id
        BY <2>2, <3>2 DEF Asked
      <4> QED BY <4>1, <2>1, <3>2 DEF Prepared, SafeRequest
    <3>3. CASE c.step = "remove"
      <4> DEFINE i == Head(c.todo)
      <4>1. c.todo \in Seq(Ids) /\ c.todo # <<>>
        BY <1>1, <3>3 DEF CallType
      <4>2. i = c.todo[1] /\ i \in Ids /\ 1 \in 1 .. Len(c.todo)
        BY <4>1
      <4>3. InTurn(c, repo, 1)
        BY <2>1, <3>3, <4>2 DEF Prepared
      <4>4. /\ q.what = IF i \in c.scan.complete THEN "deleteManifest" ELSE "deleteData"
            /\ q.id = i
        BY <2>2, <3>3 DEF Asked
      <4> HIDE DEF i
      <4>5. CASE i \in c.scan.complete
        <5>1. i \notin repo.held /\ \A k \in ChildrenOf(repo, i) : \E n \in 1 .. 0 : c.todo[n] = k
          BY <4>2, <4>3, <4>5 DEF InTurn
        <5>2. ChildrenOf(repo, i) = {}
          BY <5>1
        <5> QED BY <4>2, <4>4, <4>5, <5>1, <5>2 DEF SafeRequest
      <4>6. CASE i \notin c.scan.complete
        BY <4>2, <4>3, <4>4, <4>6 DEF InTurn, SafeRequest
      <4> QED BY <4>5, <4>6
    <3>4. CASE c.step = "hold"
      <4>1. q.what = "hold" /\ q.id = c.id
        BY <2>2, <3>4 DEF Asked
      <4> QED BY <4>1, <2>1, <3>4 DEF Prepared, SafeRequest
    <3>5. CASE c.step = "unhold"
      <4>1. q.what = "unhold" /\ q.id = c.id
        BY <2>2, <3>5 DEF Asked
      <4> QED BY <4>1, <1>1 DEF SafeRequest, CallType
    <3> QED BY <1>1, <3>1, <3>2, <3>3, <3>4, <3>5 DEF Sends
  <2>4. InFlight(c, q)
    <3> HIDE DEF c, q
    <3> QED BY <1>1, <2>2 DEF InFlight
  <2> HIDE DEF q
  <2>5. sent'[r] = q /\ \A s \in Runs \ {r} : sent'[s] = sent[s]
    BY <2>1 DEF RestInv, CallInv, SentType
  <2>6. Stage(r)' \notin Waiting
    BY <1>1 DEF Stage, Waiting
  <2>7. CallSafe(c, q, repo, Stage(r)', Live(r)')
    BY <1>1, <2>1, <2>3, <2>4, <2>6 DEF CallSafe
  <2>8. SafeOf(r)'
    BY <1>1, <2>1, <2>5, <2>7 DEF SafeOf
  <2>9. Elsewhere(r)
    BY <1>1, <2>1, <2>5 DEF Elsewhere, RestInv, RepoSafe
  <2> QED BY <2>8, <2>9
<1>3. CASE ~MaySend(r)
  <2>1. call' = [call EXCEPT ![r] = done] /\ sent' = sent
    BY <1>3 DEF Send, Goes
  <2>2. done \in CallType /\ done.step = "done"
    <3>1. "done" \in Steps
      BY DEF Steps
    <3> HIDE DEF c
    <3> QED BY <1>1, <3>1, GoneTo
  <2> HIDE DEF done
  <2>3. Prepared(done, repo)
    BY <2>2 DEF Prepared
  <2> QED BY <1>1, <2>1, <2>2, <2>3, WorkSafe
<1> QED BY <1>2, <1>3

\* A request that landed or did not: no other call is in the way.
LEMMA LandedSafe ==
  ASSUME Covered, RestInv, NEW r \in Runs, Busy(r), UNCHANGED <<file, lease>>,
         repo' \in {repo, Applied(r)}, sent' = [sent EXCEPT ![r] = Quiet],
         NEW c \in CallType, call' = [call EXCEPT ![r] = c], Live(r) => Prepared(c, repo')
  PROVE  RepoSafe' /\ DOMAIN call' = Runs /\ \A s \in Runs : SafeOf(s)'
<1>1. call[r] \in CallType /\ SafeRequest(call[r], sent[r], repo) /\ repo \in Holdings /\ RestorableFrom(repo)
  BY DEF RestInv, SafeOf, CallSafe, RepoSafe, Busy
<1>2. repo' \in Holdings /\ RestorableFrom(repo')
  BY <1>1, LandingKeeps
<1>3. /\ call'[r] = c /\ DOMAIN call' = Runs /\ \A s \in Runs \ {r} : call'[s] = call[s]
      /\ sent'[r] = Quiet /\ \A s \in Runs \ {r} : sent'[s] = sent[s]
  BY DEF RestInv, CallInv, SentType
<1>4. \A s \in Runs : Stage(s)' = Stage(s) /\ (Live(s)' <=> Live(s))
  BY DEF Stage, Live, HeldBy
<1>5. SafeOf(r)'
  <2>1. Stage(r)' \notin Waiting
    BY <1>4 DEF RestInv, CallInv, Timed, Waiting
  <2>2. CallSafe(c, Quiet, repo', Stage(r)', Live(r)')
    BY <1>4, <2>1 DEF CallSafe
  <2> QED BY <1>3, <2>2 DEF SafeOf
<1>6. ASSUME NEW s \in Runs \ {r} PROVE SafeOf(s)'
  <2>1. ~Busy(s) /\ ~Live(s)
    BY ActiveAlone DEF RestInv
  <2>2. call[s] \in CallType /\ (Stage(s) \in Waiting => Fresh(call[s]))
    BY DEF RestInv, SafeOf, CallSafe
  <2>3. sent[s] = Quiet
    BY <2>1 DEF Busy
  <2>4. CallSafe(call[s], sent[s], repo', Stage(s)', Live(s)')
    BY <1>4, <2>1, <2>2, <2>3 DEF CallSafe
  <2> QED BY <1>3, <2>4 DEF SafeOf
<1> QED BY <1>2, <1>3, <1>5, <1>6 DEF RepoSafe

\* A removal that landed leaves those that follow in turn.
LEMMA RemovedInTurn ==
  ASSUME NEW c \in CallType, c.todo # <<>>, NEW holds, NEW holds2,
         \A m \in 1 .. Len(c.todo) : InTurn(c, holds, m),
         holds2.held = holds.held, Head(c.todo) \notin CompleteIn(holds2),
         \A i \in CompleteIn(holds2) :
           i \in CompleteIn(holds) /\ holds2.manifest[i] = holds.manifest[i],
         NEW d \in CallType, d.scan.complete \in {c.scan.complete, c.scan.complete \ {Head(c.todo)}},
         d.todo \in {c.todo, Tail(c.todo)},
         NEW m \in 1 .. Len(d.todo)
  PROVE  InTurn(d, holds2, m)
<1> DEFINE i == d.todo[m]
           at == IF d.todo = c.todo THEN m ELSE m + 1
<1>1. c.todo \in Seq(Ids) /\ d.todo \in Seq(Ids)
  BY DEF CallType
<1>2. at \in 1 .. Len(c.todo) /\ c.todo[at] = i /\ at \in {m, m + 1}
  <2>1. CASE d.todo = c.todo
    BY <2>1
  <2>2. CASE d.todo # c.todo
    <3>1. d.todo = Tail(c.todo)
      BY <2>2
    <3> QED BY <1>1, <2>2, <3>1
  <2> QED BY <2>1, <2>2
<1>3. InTurn(c, holds, at)
  BY <1>2
<1>4. CASE i \in d.scan.complete
  <2>1. /\ i \notin holds.held
        /\ \A k \in ChildrenOf(holds, i) : \E n \in 1 .. at - 1 : c.todo[n] = k
    BY <1>2, <1>3, <1>4 DEF InTurn
  <2>2. ASSUME NEW k \in ChildrenOf(holds2, i) PROVE \E n \in 1 .. m - 1 : d.todo[n] = k
    <3>1. k \in ChildrenOf(holds, i) /\ k # Head(c.todo)
      BY <2>2 DEF ChildrenOf
    <3>2. PICK n \in 1 .. at - 1 : c.todo[n] = k
      BY <2>1, <3>1
    <3>3. CASE d.todo = c.todo
      BY <3>2, <3>3
    <3>4. CASE d.todo # c.todo
      <4>1. d.todo = Tail(c.todo) /\ at = m + 1
        BY <3>4
      <4>2. n # 1
        BY <1>1, <3>1, <3>2
      <4>3. n - 1 \in 1 .. m - 1 /\ n \in 1 .. m /\ n - 1 \in 1 .. Len(Tail(c.todo))
        BY <1>1, <3>2, <4>1, <4>2
      <4>4. Tail(c.todo)[n - 1] = c.todo[(n - 1) + 1]
        BY <1>1, <4>3
      <4>5. d.todo[n - 1] = k
        BY <3>2, <4>1, <4>3, <4>4
      <4> QED BY <4>3, <4>5
    <3> QED BY <3>3, <3>4
  <2> QED BY <1>4, <2>1, <2>2 DEF InTurn
<1>5. CASE i \notin d.scan.complete
  <2>1. i \notin CompleteIn(holds2)
    <3>1. CASE i \in c.scan.complete
      <4>1. i = Head(c.todo)
        BY <1>5, <3>1
      <4> QED BY <4>1
    <3>2. CASE i \notin c.scan.complete
      <4>1. i \notin CompleteIn(holds)
        BY <1>2, <1>3, <3>2 DEF InTurn
      <4> QED BY <4>1
    <3> QED BY <3>1, <3>2
  <2> QED BY <1>5, <2>1 DEF InTurn
<1> QED BY <1>4, <1>5

\* A request that landed: what comes next is prepared by it.
LEMMA ArrivePrepared ==
  ASSUME RestInv, NEW r \in Runs, Arrive(r)
  PROVE  Onwards(call[r]) \in CallType /\ (Live(r) => Prepared(Onwards(call[r]), repo'))
<1> DEFINE c == call[r]
           q == sent[r]
           d == Onwards(c)
           head == Head(c.todo)
           struck == c.step = "remove" /\ head \in c.scan.complete \cap c.scan.data
           left == c.scan.complete \ {head}
           step == Following(c.step)
           todo == IF c.todo = <<>> THEN c.todo ELSE Tail(c.todo)
<1>1. /\ c \in CallType /\ repo' = Applied(r) /\ repo \in Holdings
      /\ (Live(r) => Prepared(c, repo) /\ InFlight(c, q))
  BY DEF RestInv, SafeOf, CallSafe, RepoSafe, Arrive, Busy
<1>2. ASSUME Live(r), c.step = "remove"
      PROVE  /\ c.todo # <<>> /\ \A m \in 1 .. Len(c.todo) : InTurn(c, repo, m)
             /\ repo'.held = repo.held /\ head \notin CompleteIn(repo')
             /\ \A i \in CompleteIn(repo') :
                  i \in CompleteIn(repo) /\ repo'.manifest[i] = repo.manifest[i]
  <2>1. /\ c.todo # <<>> /\ \A m \in 1 .. Len(c.todo) : InTurn(c, repo, m)
        /\ q.what = (IF head \in c.scan.complete THEN "deleteManifest" ELSE "deleteData")
        /\ q.id = head
    BY <1>1, <1>2 DEF InFlight, Prepared, Asked
  <2>2. head \in Ids /\ head = c.todo[1] /\ 1 \in 1 .. Len(c.todo)
    <3>1. c.todo \in Seq(Ids)
      BY <1>1 DEF CallType
    <3> QED BY <2>1, <3>1
  <2>3. CASE head \in c.scan.complete
    <3>1. repo' = [repo EXCEPT !.manifest[head] = Gone]
      <4>1. q.what = "deleteManifest" /\ q.id = head
        BY <2>1, <2>3
      <4> QED BY <1>1, <4>1 DEF Applied
    <3> HIDE DEF head
    <3>2. repo'.held = repo.held /\ repo'.manifest = [repo.manifest EXCEPT ![head] = Gone]
      BY <1>1, <3>1 DEF Holdings
    <3>3. \A i \in Ids : repo'.manifest[i] = IF i = head THEN Gone ELSE repo.manifest[i]
      BY <1>1, <2>2, <3>2 DEF Holdings
    <3>4. /\ head \notin CompleteIn(repo')
          /\ \A i \in CompleteIn(repo') :
               i \in CompleteIn(repo) /\ repo'.manifest[i] = repo.manifest[i]
      BY <2>2, <3>3 DEF CompleteIn
    <3> QED BY <2>1, <3>2, <3>4
  <2>4. CASE head \notin c.scan.complete
    <3>1. repo' = [repo EXCEPT !.data = @ \ {head}]
      <4>1. q.what = "deleteData" /\ q.id = head
        BY <2>1, <2>4
      <4> QED BY <1>1, <4>1 DEF Applied
    <3>2. head \notin CompleteIn(repo)
      <4>1. InTurn(c, repo, 1)
        BY <2>1, <2>2
      <4> HIDE DEF c
      <4> QED BY <2>2, <2>4, <4>1 DEF InTurn
    <3> HIDE DEF head
    <3>3. repo'.held = repo.held /\ repo'.manifest = repo.manifest
      BY <1>1, <3>1 DEF Holdings
    <3> QED BY <2>1, <3>2, <3>3 DEF CompleteIn
  <2> QED BY <2>3, <2>4
<1>3. CASE struck
  <2>1. d = [c EXCEPT !.scan.complete = left]
    BY <1>3 DEF Onwards
  <2>2. left \in SUBSET Ids
    BY <1>1 DEF CallType
  <2>3. /\ d \in CallType /\ d.step = "remove" /\ d.todo = c.todo
        /\ d.scan.complete = left
    <3> HIDE DEF c, left
    <3>1. d \in CallType
      BY <1>1, <2>1, <2>2 DEF CallType
    <3>2. d.step = c.step /\ d.todo = c.todo /\ d.scan.complete = left
      BY <1>1, <2>1 DEF CallType
    <3>3. c.step = "remove"
      BY <1>3
    <3> QED BY <3>1, <3>2, <3>3
  <2>4. ASSUME Live(r) PROVE Prepared(d, repo')
    <3>1. c.step = "remove"
      BY <1>3
    <3> HIDE DEF c, d
    <3>2. \A m \in 1 .. Len(d.todo) : InTurn(d, repo', m)
      BY <1>1, <1>2, <2>3, <2>4, <3>1, RemovedInTurn
    <3> QED BY <2>3, <3>2 DEF Prepared
  <2> QED BY <2>3, <2>4
<1>4. CASE ~struck
  <2>1. d = [c EXCEPT !.step = step, !.todo = todo]
    BY <1>4 DEF Onwards
  <2>2. step \in Steps /\ todo \in Seq(Ids)
    BY <1>1 DEF Following, Steps, CallType
  <2>3. /\ d \in CallType /\ d.step = step /\ d.todo = todo /\ d.scan = c.scan
        /\ d.id = c.id /\ d.kind = c.kind /\ d.base = c.base
    <3> HIDE DEF c, step, todo
    <3> QED BY <1>1, <2>1, <2>2 DEF CallType
  <2>4. ASSUME Live(r) PROVE Prepared(d, repo')
    <3>1. CASE c.step = "data"
      <4>1. d.step = "manifest" /\ q.what = "putData" /\ q.id = c.id
        BY <1>1, <2>3, <2>4, <3>1 DEF Following, InFlight, Asked
      <4>2. c.id \in Ids /\ HasBase(c, c.id, repo)
        BY <1>1, <2>4, <3>1 DEF Prepared
      <4>3. repo' = [repo EXCEPT !.data = @ \cup {c.id}]
        BY <1>1, <4>1 DEF Applied
      <4> HIDE DEF c, d
      <4>4. repo'.manifest = repo.manifest /\ c.id \in repo'.data
        BY <1>1, <4>3 DEF Holdings
      <4>5. HasBase(d, d.id, repo')
        BY <2>3, <4>2, <4>4 DEF HasBase, CompleteIn
      <4> QED BY <2>3, <4>1, <4>2, <4>4, <4>5 DEF Prepared
    <3>2. CASE c.step = "remove"
      <4>1. d.step = "remove"
        BY <2>3, <3>2 DEF Following
      <4>2. c.todo # <<>> /\ d.todo = Tail(c.todo)
        BY <1>2, <2>3, <2>4, <3>2
      <4>3. d.scan.complete = c.scan.complete
        BY <2>3
      <4> HIDE DEF c, d
      <4>4. \A m \in 1 .. Len(d.todo) : InTurn(d, repo', m)
        BY <1>1, <1>2, <2>3, <2>4, <3>2, <4>2, <4>3, RemovedInTurn
      <4> QED BY <4>1, <4>4 DEF Prepared
    <3>3. CASE c.step \notin {"data", "remove"}
      <4>1. d.step = "done"
        BY <2>3, <3>3 DEF Following
      <4> HIDE DEF d
      <4> QED BY <4>1 DEF Prepared
    <3> QED BY <3>1, <3>2, <3>3
  <2> QED BY <2>3, <2>4
<1> QED BY <1>3, <1>4

\* The end of a request, however it ends.
LEMMA EndsSafe ==
  ASSUME Covered, RestInv, NEW r \in Runs, Arrive(r) \/ Fails(r) \/ ArriveAfterCrash(r)
  PROVE  RepoSafe' /\ DOMAIN call' = Runs /\ \A s \in Runs : SafeOf(s)'
<1> DEFINE c == call[r]
<1>1. /\ Busy(r) /\ UNCHANGED <<file, lease>> /\ repo' \in {repo, Applied(r)}
      /\ sent' = [sent EXCEPT ![r] = Quiet] /\ c \in CallType
  BY DEF Arrive, Fails, ArriveAfterCrash, RestInv, SafeOf, CallSafe
<1>2. CASE Arrive(r)
  <2> DEFINE d == Onwards(c)
  <2>1. d \in CallType /\ (Live(r) => Prepared(d, repo'))
    BY <1>2, ArrivePrepared
  <2>2. call' = [call EXCEPT ![r] = d]
    BY <1>2 DEF Arrive
  <2> HIDE DEF d
  <2> QED BY <1>1, <2>1, <2>2, LandedSafe
<1>3. CASE Fails(r)
  <2> DEFINE d == [c EXCEPT !.step = "done", !.todo = <<>>]
  <2>1. call' = [call EXCEPT ![r] = d]
    BY <1>3 DEF Fails
  <2>2. d \in CallType /\ d.step = "done"
    <3>1. "done" \in Steps /\ <<>> \in Seq(Ids)
      BY DEF Steps
    <3> HIDE DEF c
    <3> QED BY <1>1, <3>1 DEF CallType
  <2> HIDE DEF d
  <2>3. Prepared(d, repo')
    BY <2>2 DEF Prepared
  <2> QED BY <1>1, <2>1, <2>2, <2>3, LandedSafe
<1>4. CASE ArriveAfterCrash(r)
  <2>1. call' = [call EXCEPT ![r] = NoCall] /\ NoCall \in CallType /\ ~Live(r)
    BY <1>4, NoCallTyped DEF ArriveAfterCrash, Live
  <2> QED BY <1>1, <2>1, LandedSafe
<1> QED BY <1>2, <1>3, <1>4

\* Time: requests and backups age, and a lease that ran out stays so.
LEMMA TickSafe ==
  ASSUME RestInv, Tick
  PROVE  RepoSafe' /\ DOMAIN call' = Runs /\ \A s \in Runs : SafeOf(s)'
<1>1. LockTypeOK /\ SentType /\ repo \in Holdings /\ RestorableFrom(repo) /\ call' = call
  BY DEF RestInv, CallInv, LockInv, RepoSafe, Tick
<1> DEFINE born == [i \in Ids |->
              IF repo.born[i] = Gone \/ repo.born[i] = IncompleteAfter THEN repo.born[i] ELSE repo.born[i] + 1]
<1>2. /\ repo'.manifest = repo.manifest /\ repo'.data = repo.data /\ repo'.held = repo.held
      /\ repo' \in Holdings
  <2>1. repo' = [repo EXCEPT !.born = born]
    BY <1>1 DEF Tick, Holdings
  <2>2. born \in [Ids -> (0 .. IncompleteAfter) \cup {Gone}]
    <3>1. \A i \in Ids : repo.born[i] \in (0 .. IncompleteAfter) \cup {Gone} /\ IncompleteAfter \in Nat
      BY <1>1, BackupsAssumption DEF Holdings
    <3>2. ASSUME NEW i \in Ids PROVE born[i] \in (0 .. IncompleteAfter) \cup {Gone}
      <4> DEFINE b == repo.born[i]
      <4>1. b \in (0 .. IncompleteAfter) \cup {Gone} /\ IncompleteAfter \in Nat
        BY <3>1
      <4>2. born[i] = IF b = Gone \/ b = IncompleteAfter THEN b ELSE b + 1
        OBVIOUS
      <4> HIDE DEF b, born
      <4>3. CASE b = Gone \/ b = IncompleteAfter
        BY <4>1, <4>2, <4>3
      <4>4. CASE ~(b = Gone \/ b = IncompleteAfter)
        <5>1. b + 1 \in 0 .. IncompleteAfter
          BY <4>1, <4>4
        <5> QED BY <4>2, <4>4, <5>1
      <4> QED BY <4>3, <4>4
    <3> QED BY <3>2
  <2> HIDE DEF born
  <2> QED BY <1>1, <2>1, <2>2 DEF Holdings
<1>3. RepoSafe'
  BY <1>1, <1>2 DEF RepoSafe, RestorableFrom, CompleteIn
<1>4. ASSUME NEW s \in Runs PROVE SafeOf(s)'
  <2>1. CallSafe(call[s], sent[s], repo, Stage(s), Live(s))
    BY DEF RestInv, SafeOf
  <2>2. Stage(s)' = Stage(s) /\ lease'[s].left = Aged(lease[s].left) /\ lease[s].left \in Times
    BY <1>1, TickedRun, LeaseFacts DEF Stage
  <2>3. Live(s)' => Live(s)
    <3>1. lease[s].left \in Int /\ Floor \in Int /\ Floor < 0 /\ lease[s].left # Gone
      BY <2>2, TimesFacts, LockAssumption DEF Floor
    <3>2. Aged(lease[s].left) > 0 => lease[s].left > 0
      BY <3>1 DEF Aged, Later
    <3> QED BY <2>2, <3>2 DEF Live, HeldBy
  <2>4. sent'[s].what = sent[s].what /\ sent'[s].id = sent[s].id /\ (sent'[s] # Quiet => sent[s] # Quiet)
    <3>1. CASE Busy(s)
      <4>1. sent'[s] = [what |-> sent[s].what, id |-> sent[s].id, age |-> sent[s].age + 1]
        BY <1>1, <3>1, TickedRun
      <4> QED BY <3>1, <4>1 DEF Busy
    <3>2. CASE ~Busy(s)
      BY <1>1, <3>2, TickedRun DEF Busy
    <3> QED BY <3>1, <3>2
  <2>5. Live(s) \in BOOLEAN /\ Live(s)' \in BOOLEAN
    BY DEF Live
  <2>6. CallSafe(call[s], sent'[s], repo', Stage(s)', Live(s)')
    BY <1>2, <2>1, <2>2, <2>3, <2>4, <2>5, SafeAside
  <2> QED BY <1>1, <2>6 DEF SafeOf
<1> QED BY <1>1, <1>3, <1>4 DEF RestInv

\* The invariant holds at the start.
LEMMA RestStarts == Init => RestInv
<1> SUFFICES ASSUME Init PROVE RestInv
  OBVIOUS
<1>1. CallInv
  BY CallsStart
<1>2. RepoSafe
  BY BackupsAssumption DEF Init, RepoSafe
<1>3. ASSUME NEW r \in Runs PROVE SafeOf(r)
  <2>1. call[r] = NoCall /\ sent[r] = Quiet /\ Stage(r) = "new"
    BY DEF Init, LockInit, Stage, NoLease
  <2> QED BY <2>1, NoCallTyped DEF SafeOf, CallSafe, Waiting, Live
<1> QED BY <1>1, <1>2, <1>3 DEF RestInv, Init

\* Every step keeps the invariant.
LEMMA RestKeeps == ASSUME Covered, RestInv, [Next]_vars PROVE RestInv'
<1>1. CallInv'
  BY CallStepKeeps DEF RestInv
<1>2. RepoSafe' /\ DOMAIN call' = Runs /\ \A s \in Runs : SafeOf(s)'
  <2>1. CASE UNCHANGED vars
    BY <2>1 DEF vars, RestInv, RepoSafe, SafeOf, CallSafe, Stage, Live, HeldBy
  <2>2. CASE Tick
    BY <2>2, TickSafe
  <2>3. ASSUME NEW r \in Runs, Elsewhere(r) /\ SafeOf(r)'
        PROVE  RepoSafe' /\ DOMAIN call' = Runs /\ \A s \in Runs : SafeOf(s)'
    BY <2>3, ElsewhereSafe DEF RestInv, Elsewhere
  <2>4. ASSUME NEW r \in Runs, LockCall(r)
        PROVE  RepoSafe' /\ DOMAIN call' = Runs /\ \A s \in Runs : SafeOf(s)'
    BY <2>4, LockCallSafe
  <2>5. ASSUME NEW r \in Runs, Arrive(r) \/ Fails(r) \/ ArriveAfterCrash(r)
        PROVE  RepoSafe' /\ DOMAIN call' = Runs /\ \A s \in Runs : SafeOf(s)'
    BY <2>5, EndsSafe
  <2>6. ASSUME NEW r \in Runs, Locked(r) \/ Finish(r)
        PROVE  Elsewhere(r) /\ SafeOf(r)'
    <3>1. ~Busy(r)
      BY <2>6 DEF Locked, Finish, Denied, LandFails, Refuse, RestInv, CallInv, Timed
    <3> QED BY <2>6, <3>1, EndedSafe DEF Locked, Finish
  <2>7. ASSUME NEW r \in Runs,
               Start(r) \/ FindBase(r) \/ Scan(r) \/ Decide(r) \/ FindHeld(r) \/ Send(r) \/ Crash(r)
        PROVE  Elsewhere(r) /\ SafeOf(r)'
    BY <2>7, StartSafe, FindBaseSafe, ScanSafe, DecideSafe, FindHeldSafe, SendSafe, CrashSafe
  <2> QED BY <2>1, <2>2, <2>3, <2>4, <2>5, <2>6, <2>7 DEF Next
<1> QED BY <1>1, <1>2 DEF RestInv

\* Every backup that exists can be restored, and every hold is on one that exists,
\* between any two steps of creates, prunes, holds and unholds, whichever crash or
\* fail, as long as a request takes no longer than what the disagreement of the
\* clocks leaves of a lease (docs/guide/locking.md): the property Restorable.
THEOREM RestorableHolds == ASSUME Covered PROVE Spec => []Restorable
<1>1. RestInv /\ [Next]_vars => RestInv'
  BY RestKeeps
<1>2. RestInv => Restorable
  BY DEF RestInv, RepoSafe, Restorable
<1> QED BY <1>1, <1>2, RestStarts, PTL DEF Spec
=============================================================================
