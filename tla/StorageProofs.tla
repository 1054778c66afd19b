---------------------------- MODULE StorageProofs ----------------------------
(***************************************************************************)
(* What is proved of the parts of Storage, each by itself: the rotation of *)
(* backups, a transaction run again, deploys that migrate one database,    *)
(* the documents of a collection, an index rebuilt and swapped in, the     *)
(* files of a bucket, and lists read page by page.                         *)
(***************************************************************************)
EXTENDS Rotation, RotationPlanProofs, Transactions, Migrations, Documents, IndexRebuild, GridFS, Pages

(***************************************************************************)
(* Rotation                                                                *)
(***************************************************************************)

RotationInv ==
  /\ IsCandidates(candidates) /\ IsPolicy(policy)
  /\ kept \in {Undecided, Kept(candidates, policy)}

\* The rotation keeps what no rule may take and what that builds on, for every
\* repository and policy (policy.ts planRotation).
THEOREM KeepsPromisedHolds == Spec => []KeepsPromised
<1>1. Init => RotationInv
  BY RotationAssumption DEF Init, RotationInv
<1>2. RotationInv /\ [Decide]_vars => RotationInv'
  BY DEF RotationInv, Decide, vars
<1>3. RotationInv => KeepsPromised
  <2> SUFFICES ASSUME RotationInv, Decided PROVE KeepsPromised
    BY DEF KeepsPromised
  <2> DEFINE real == Past(candidates)
             n == IF policy.last # Off THEN policy.last
                  ELSE IF policy.maxTotalSize # Off THEN 1 ELSE 0
  <2>1. kept = Kept(candidates, policy) /\ IsCandidates(candidates) /\ IsPolicy(policy)
    BY DEF RotationInv, Decided
  <2>2. /\ kept \subseteq DOMAIN candidates /\ ClosedIn(candidates, kept)
        /\ \A i \in DOMAIN candidates \ kept :
             i \in real /\ ~candidates[i].held /\ Cardinality(NewerOf(real, i)) >= n
    BY <2>1, KeptKeeps
  <2>3. real = {i \in DOMAIN candidates : candidates[i].age >= 0 /\ ~candidates[i].standIn}
    BY DEF Past
  <2>4. ASSUME NEW i \in kept, candidates[i].parent \in DOMAIN candidates
        PROVE  candidates[i].parent \in kept
    <3>1. i \in DOMAIN candidates
      BY <2>2
    <3> QED BY <2>1, <2>2, <2>4, <3>1 DEF ClosedIn, BuildsOn, IsCandidates
  <2> QED BY <2>2, <2>3, <2>4 DEF KeepsPromised, NewerOf
<1> QED BY <1>1, <1>2, <1>3, PTL DEF Spec

(***************************************************************************)
(* A transaction                                                           *)
(***************************************************************************)

\* Work is applied once the server committed, which it does under a call that
\* is committing or was not told to try again.
CommittedOnce ==
  /\ server.state # "committed" => \A p \in Parts : applied[p] = 0
  /\ server.state = "committed" =>
       /\ \A p \in Parts : applied[p] \in 0 .. 1
       /\ call.phase = "committing" \/ (call.phase = "over" /\ call.answer # "transient")

TransactionsInv == TransactionsTypeOK /\ CommittedOnce

\* However often the callback is run and the commit is sent, the work is applied
\* once at most (with-transaction.ts commitRetryingUnknownResult).
THEOREM AppliedOnceHolds == TransactionsSpec => []AppliedOnce
<1> USE DEF Parts, Errors
<1>1. TransactionsInit => TransactionsInv
  BY TransactionsAssumption
     DEF TransactionsInit, TransactionsInv, TransactionsTypeOK, CommittedOnce, TransactionCall, Server, Nothing
<1>2. TransactionsInv /\ [TransactionsNext]_transactionVars => TransactionsInv'
  <2> SUFFICES ASSUME TransactionsInv, [TransactionsNext]_transactionVars PROVE TransactionsInv'
    OBVIOUS
  <2>1. /\ call \in TransactionCall /\ server \in Server /\ applied \in [Parts -> 0 .. MaxRuns]
        /\ CommittedOnce
    BY DEF TransactionsInv, TransactionsTypeOK
  <2> SUFFICES /\ call' \in TransactionCall /\ server' \in Server
               /\ applied' \in [Parts -> 0 .. MaxRuns] /\ CommittedOnce'
    BY DEF TransactionsInv, TransactionsTypeOK
  <2> DEFINE Reran == /\ call.runs < MaxRuns
                      /\ call'.runs = call.runs + 1 /\ call'.phase = "running"
                      /\ server'.state = "open"
             Ended(answer) == call'.phase = "over" /\ call'.answer = answer
  <2>2. ASSUME Rerun PROVE call' \in TransactionCall /\ server' \in Server /\ Reran
    <3>1. call.runs + 1 \in 0 .. MaxRuns
      BY <2>1, <2>2, TransactionsAssumption DEF Rerun, TransactionCall
    <3> HIDE DEF Errors
    <3> QED BY <2>1, <2>2, <3>1 DEF Rerun, TransactionCall, Server
  <2>3. ASSUME NEW answer \in Errors \cup {"ok"}, Over(answer)
        PROVE  call' \in TransactionCall /\ Ended(answer)
    BY <2>1, <2>3 DEF Over, TransactionCall
  <2>4. ASSUME NEW state \in {"committed", "aborted"}, server' = [server EXCEPT !.state = state]
        PROVE  server' \in Server /\ server'.state = state
    BY <2>1, <2>4 DEF Server
  <2>5. CASE UNCHANGED transactionVars
    BY <2>1, <2>5 DEF transactionVars, CommittedOnce
  <2>6. CASE Begin
    <3>1. call' \in TransactionCall /\ server' \in Server /\ server'.state = "open"
      <4>1. call.runs + 1 \in 0 .. MaxRuns
        BY <2>1, <2>6, TransactionsAssumption DEF Begin, TransactionCall
      <4> HIDE DEF Errors
      <4> QED BY <2>1, <2>6, <4>1 DEF Begin, TransactionCall, Server
    <3> QED BY <2>1, <2>6, <3>1 DEF Begin, CommittedOnce
  <2>7. CASE OuterWrites \/ InnerWrites
    <3>1. server' \in Server /\ server'.state = "open" /\ server.state = "open"
      BY <2>1, <2>7 DEF OuterWrites, InnerWrites, Write, Server
    <3> QED BY <2>1, <2>7, <3>1 DEF OuterWrites, InnerWrites, Write, CommittedOnce
  <2>8. ASSUME Transient, UNCHANGED applied, server.state # "committed"
        PROVE  call' \in TransactionCall /\ server' \in Server /\ server'.state # "committed"
    <3>1. CASE Rerun
      BY <2>2, <3>1
    <3>2. CASE Over("transient") /\ server' = [server EXCEPT !.state = "aborted"]
      BY <2>3, <2>4, <3>2
    <3> QED BY <2>8, <3>1, <3>2 DEF Transient
  <2>9. CASE CallbackThrows
    <3>1. server.state # "committed" /\ UNCHANGED applied
      BY <2>1, <2>9 DEF CallbackThrows, Running, CommittedOnce
    <3>2. call' \in TransactionCall /\ server' \in Server /\ server'.state # "committed"
      <4>1. CASE Transient
        BY <2>8, <3>1, <4>1
      <4>2. CASE Over("other") /\ server' = [server EXCEPT !.state = "aborted"]
        BY <2>3, <2>4, <4>2
      <4> QED BY <2>9, <4>1, <4>2 DEF CallbackThrows
    <3> QED BY <2>1, <3>1, <3>2 DEF CommittedOnce
  <2>10. CASE CallbackAborts
    <3>1. call' \in TransactionCall
      BY <2>3, <2>10 DEF CallbackAborts
    <3>2. server' \in Server /\ server'.state = "aborted" /\ server.state = "open" /\ UNCHANGED applied
      BY <2>10 DEF CallbackAborts, Server
    <3> QED BY <2>1, <3>1, <3>2 DEF CommittedOnce
  <2>11. CASE CallbackResolves
    BY <2>1, <2>11 DEF CallbackResolves, Running, TransactionCall, CommittedOnce
  <2>12. CASE Commit \/ CommitUnseen
    <3>1. call' \in TransactionCall /\ (call'.phase = "committing" \/ Ended("ok"))
      BY <2>1, <2>3, <2>12 DEF Commit, CommitUnseen
    <3>2. server' \in Server /\ server'.state = "committed"
      BY <2>4, <2>12 DEF Commit, CommitUnseen
    <3>3. CASE server.state = "committed"
      BY <2>1, <2>12, <3>1, <3>2, <3>3 DEF Commit, CommitUnseen, CommittedOnce
    <3>4. CASE server.state # "committed"
      <4>1. applied' = [p \in Parts |-> applied[p] + (IF p \in server.written THEN 1 ELSE 0)]
        BY <2>12, <3>4 DEF Commit, CommitUnseen
      <4>2. \A p \in Parts : applied[p] = 0
        BY <2>1, <3>4 DEF CommittedOnce
      <4>3. applied' \in [Parts -> 0 .. 1]
        BY <4>1, <4>2
      <4> QED BY <3>1, <3>2, <4>3, TransactionsAssumption DEF CommittedOnce
    <3> QED BY <3>3, <3>4
  <2>13. CASE CommitUnknown
    <3>1. UNCHANGED <<server, applied>> /\ call' \in TransactionCall
      BY <2>1, <2>3, <2>13 DEF CommitUnknown, Unknown
    <3>2. call'.phase = "committing" \/ Ended("unknown")
      BY <2>1, <2>3, <2>13 DEF CommitUnknown, Unknown
    <3> QED BY <2>1, <3>1, <3>2 DEF CommittedOnce
  <2>14. CASE CommitRefused
    <3>1. call' \in TransactionCall /\ server' \in Server /\ server'.state # "committed"
      BY <2>8, <2>14 DEF CommitRefused
    <3> QED BY <2>1, <2>14, <3>1 DEF CommitRefused, CommittedOnce
  <2>15. CASE ServerAborts
    BY <2>1, <2>4, <2>15 DEF ServerAborts, CommittedOnce
  <2>16. CASE WindowCloses
    BY <2>1, <2>16 DEF WindowCloses, TransactionCall, CommittedOnce
  <2> QED BY <2>5, <2>6, <2>7, <2>9, <2>10, <2>11, <2>12, <2>13, <2>14, <2>15, <2>16
          DEF TransactionsNext
<1>3. TransactionsInv => AppliedOnce
  BY DEF TransactionsInv, TransactionsTypeOK, CommittedOnce, AppliedOnce
<1> QED BY <1>1, <1>2, <1>3, PTL DEF TransactionsSpec

(***************************************************************************)
(* Deploys that migrate                                                    *)
(***************************************************************************)

Going == {"next", "stepping", "halfway", "recording"}

\* A run, its plan of any length.
DeployRecord == [phase : RunPhases, plan : Seq(Ids), lost : BOOLEAN, beat : BOOLEAN,
                 taken : BOOLEAN, kind : {"migrate", "rollback"}, list : Seq(Ids),
                 to : Ids \cup {NoId}]

Injective(list) == \A i, j \in DOMAIN list : list[i] = list[j] => i = j

\* The first n of a list, and the steps that follow them.
Prefix(list, n) == {list[i] : i \in 1 .. n}

Follows(kind, list, n, plan) ==
  IF kind = "migrate"
  THEN /\ n + Len(plan) <= Len(list)
       /\ \A k \in 1 .. Len(plan) : plan[k] = list[n + k]
  ELSE /\ Len(plan) <= n
       /\ \A k \in 1 .. Len(plan) : plan[k] = list[n + 1 - k]

\* The first n of a list that repeats nothing are n.
LEMMA PrefixCounts ==
  ASSUME NEW list \in Seq(Ids), Injective(list), NEW n \in 0 .. Len(list)
  PROVE  IsFiniteSet(Prefix(list, n)) /\ Cardinality(Prefix(list, n)) = n
<1> DEFINE f == [i \in 1 .. n |-> list[i]]
<1>1. Len(list) \in Nat /\ DOMAIN list = 1 .. Len(list) /\ 1 .. n \subseteq DOMAIN list
  OBVIOUS
<1>2. f \in Surjection(1 .. n, Prefix(list, n))
  BY DEF Surjection, Prefix
<1>3. f \in Injection(1 .. n, Prefix(list, n))
  BY <1>1 DEF Injection, IsInjective, Injective, Prefix
<1>4. IsFiniteSet(1 .. n) /\ Cardinality(1 .. n) = n
  BY FS_Interval
<1> QED BY <1>2, <1>3, <1>4, FS_Surjection

\* A list with none twice over, of which the records are the first.
LEMMA RecordsArePrefix ==
  ASSUME NEW list \in Seq(Ids), NEW recs, ~ListedTwice(list), ~Diverged(list, recs)
  PROVE  /\ Injective(list) /\ IsFiniteSet(recs)
         /\ CountApplied(list, recs) = Cardinality(recs)
         /\ Cardinality(recs) \in 0 .. Len(list)
         /\ recs = Prefix(list, Cardinality(recs))
<1> DEFINE D == 1 .. Len(list)
           n == Cardinality(recs)
<1>1. /\ Len(list) \in Nat /\ D = DOMAIN list /\ IsFiniteSet(D) /\ Cardinality(D) = Len(list)
  <2>1. Len(list) \in Nat /\ D = DOMAIN list
    OBVIOUS
  <2>2. IsFiniteSet(D) /\ Cardinality(D) = IF 1 > Len(list) THEN 0 ELSE Len(list) - 1 + 1
    BY <2>1, FS_Interval
  <2> HIDE DEF D
  <2> QED BY <2>1, <2>2
<1>2. list \in Surjection(D, Listed(list))
  <2>1. list \in [D -> Listed(list)]
    BY <1>1 DEF Listed
  <2> QED BY <1>1, <2>1 DEF Surjection, Listed
<1>3. IsFiniteSet(Listed(list)) /\ Cardinality(Listed(list)) <= Len(list)
  BY <1>1, <1>2, FS_Surjection
<1>4. Injective(list)
  <2>1. Cardinality(Listed(list)) \in Nat
    BY <1>3, FS_CardinalityType
  <2>2. Cardinality(Listed(list)) = Cardinality(D)
    BY <1>1, <1>3, <2>1 DEF ListedTwice
  <2>3. list \in Injection(D, Listed(list))
    BY <1>1, <1>2, <2>2, FS_Surjection
  <2> QED BY <2>3, <1>1 DEF Injection, IsInjective, Injective
<1>5. recs \subseteq Listed(list) /\ recs \cap Listed(list) = recs
  BY DEF Diverged
<1>6. IsFiniteSet(recs) /\ n \in Nat /\ n <= Cardinality(Listed(list)) /\ CountApplied(list, recs) = n
  BY <1>3, <1>5, FS_Subset, FS_CardinalityType DEF CountApplied
<1>7. n \in 0 .. Len(list)
  <2>1. Cardinality(Listed(list)) \in Nat
    BY <1>3, FS_CardinalityType
  <2> QED BY <1>1, <1>3, <1>6, <2>1
<1>8. Prefix(list, n) \in SUBSET recs
  BY <1>6 DEF Diverged, Prefix
<1>9. Cardinality(Prefix(list, n)) = n
  BY <1>1, <1>4, <1>7, PrefixCounts
<1>10. recs = Prefix(list, n)
  BY <1>6, <1>8, <1>9, FS_Subset
<1> QED BY <1>4, <1>6, <1>7, <1>10

\* What a plan says, of the records it was made from: the steps that follow.
LEMMA PlanFollows ==
  ASSUME NEW run \in DeployRecord, NEW recs, ~ListedTwice(run.list), ~Refused(run, recs)
  PROVE  /\ PlanOf(run, recs) \in Seq(Ids)
         /\ Follows(run.kind, run.list, Cardinality(recs), PlanOf(run, recs))
<1> DEFINE list == run.list
           to == run.to
           n == CountApplied(list, recs)
<1>1. list \in Seq(Ids) /\ ~Diverged(list, recs) /\ (to # NoId => to \in Listed(list))
  BY DEF DeployRecord, Refused
<1>2. n = Cardinality(recs) /\ n \in 0 .. Len(list) /\ Len(list) \in Nat
  BY <1>1, RecordsArePrefix
<1>3. to # NoId => IndexOf(list, to) \in 1 .. Len(list)
  BY <1>1 DEF Listed, IndexOf
<1>4. \A i \in 1 .. Len(list) : list[i] \in Ids
  BY <1>1
<1> HIDE DEF n
<1>5. CASE run.kind = "migrate"
  <2> DEFINE end == IF to = NoId THEN Len(list) ELSE IndexOf(list, to)
             m == Larger(n, end)
             plan == SubSeq(list, n + 1, m)
  <2>1. end \in 0 .. Len(list)
    BY <1>2, <1>3
  <2> HIDE DEF end
  <2>2. m \in n .. Len(list)
    BY <1>2, <2>1 DEF Larger
  <2>3. PlanOf(run, recs) = plan
    BY <1>5 DEF PlanOf, ToApply, n, end
  <2> HIDE DEF m
  <2>4. plan \in Seq(Ids) /\ Len(plan) = m - n
    BY <1>1, <1>2, <2>2
  <2>5. \A k \in 1 .. m - n : plan[k] = list[n + k]
    BY <1>1, <1>2, <2>2
  <2> HIDE DEF plan
  <2> QED BY <1>2, <1>5, <2>2, <2>3, <2>4, <2>5 DEF Follows
<1>6. CASE run.kind # "migrate"
  <2> DEFINE start == IF to = NoId THEN Larger(1, n) - 1 ELSE IndexOf(list, to)
             count == Larger(start, n) - start
             plan == [i \in 1 .. count |-> list[start + count + 1 - i]]
  <2>1. start \in 0 .. Len(list) /\ (start <= n \/ start > n)
    BY <1>2, <1>3 DEF Larger
  <2>2. PlanOf(run, recs) = plan
    BY <1>6 DEF PlanOf, ToRevert, n
  <2> HIDE DEF start
  <2>3. count \in Nat /\ count <= n /\ (count # 0 => start + count = n)
    BY <1>2, <2>1 DEF Larger
  <2> HIDE DEF count
  <2>4. \A i \in 1 .. count : start + count + 1 - i = n + 1 - i /\ n + 1 - i \in 1 .. Len(list)
    BY <1>2, <2>1, <2>3
  <2>5. plan \in [1 .. count -> Ids]
    BY <1>4, <2>4
  <2>6. \A i \in 1 .. count : plan[i] = list[n + 1 - i]
    BY <2>4
  <2> HIDE DEF plan
  <2>7. plan \in Seq(Ids) /\ Len(plan) = count
    BY <2>3, <2>5
  <2> QED BY <1>2, <1>6, <2>2, <2>3, <2>6, <2>7 DEF Follows
<1> QED BY <1>5, <1>6

MigrationsTyped ==
  /\ deploy \in [Deploys -> DeployRecord] /\ records \subseteq Ids
  /\ lockDoc \in [by : Deploys \cup {"nobody"}, left : Nat]
  /\ effect \in [Ids -> Effects]

\* At work, and not taken over: the lock is still its own.
HoldsIt(run, r, lock) == run.phase \in AtWork /\ ~run.taken => lock.by = r

\* It got past the check of its list, is at a step its plan has, and writes
\* in two parts only what a transaction cannot hold.
Checked(run) ==
  /\ run.phase \in AtWork \cup {"inserting", "overtaking"} => ~ListedTwice(run.list)
  /\ run.phase \in {"stepping", "halfway", "recording"} => run.plan # <<>>
  /\ run.phase \in {"halfway", "recording"} => Head(run.plan) \notin Transactional

\* What is recorded is the first of its list, and its plan is what follows.
InOrder(run, recs, eff) ==
  run.phase \in Going =>
    /\ Injective(run.list) /\ Cardinality(recs) \in 0 .. Len(run.list)
    /\ recs = Prefix(run.list, Cardinality(recs))
    /\ Follows(run.kind, run.list, Cardinality(recs), run.plan)
    /\ run.phase = "recording" /\ run.kind = "migrate" => eff[Head(run.plan)] = "all"

TransactionsTell == \A id \in Transactional : effect[id] = IF id \in records THEN "all" ELSE "none"

NobodyTaken == \A r \in Deploys : ~deploy[r].taken

DoneToTheEnd == \A id \in records : effect[id] = "all" \/ (id \notin Transactional /\ Reverted(id))

MigrationsInv ==
  /\ MigrationsTyped
  /\ \A r \in Deploys : HoldsIt(deploy[r], r, lockDoc) /\ Checked(deploy[r])
  /\ TransactionsTell
  /\ NobodyTaken => DoneToTheEnd /\ \A r \in Deploys : InOrder(deploy[r], records, effect)

\* The invariant of the migrations holds at the start.
LEMMA MigrationsStart == MigrationsInit => MigrationsInv
<1> SUFFICES ASSUME MigrationsInit PROVE MigrationsInv
  OBVIOUS
<1>1. records \subseteq Ids /\ effect = [i \in Ids |-> IF i \in records THEN "all" ELSE "none"]
  BY MigrationsAssumption DEF MigrationsInit
<1>2. PICK orders \in Orders : deploy = [r \in Deploys |->
         [phase |-> "new", plan |-> <<>>, lost |-> FALSE, beat |-> FALSE, taken |-> FALSE,
          kind |-> orders[r].kind, list |-> orders[r].list, to |-> orders[r].to]]
  BY DEF MigrationsInit
<1>3. ASSUME NEW r \in Deploys PROVE deploy[r] \in DeployRecord /\ deploy[r].phase = "new"
  BY <1>2, MigrationsAssumption DEF DeployRecord, RunPhases
<1>4. MigrationsTyped
  <2>1. deploy \in [Deploys -> DeployRecord]
    BY <1>2, <1>3
  <2>2. lockDoc \in [by : Deploys \cup {"nobody"}, left : Nat]
    BY DEF MigrationsInit, NoLock
  <2> QED BY <1>1, <2>1, <2>2 DEF MigrationsTyped, Effects
<1>5. TransactionsTell /\ DoneToTheEnd
  BY <1>1, MigrationsAssumption DEF TransactionsTell, DoneToTheEnd
<1>6. \A r \in Deploys : /\ HoldsIt(deploy[r], r, lockDoc) /\ Checked(deploy[r])
                         /\ InOrder(deploy[r], records, effect)
  BY <1>3 DEF HoldsIt, Checked, InOrder, AtWork, Going
<1> QED BY <1>4, <1>5, <1>6 DEF MigrationsInv

\* What two runs say of each other, while no lock was taken over.
LEMMA WorksAlone ==
  ASSUME MigrationsInv, NobodyTaken, NEW r \in Deploys, NEW s \in Deploys,
         deploy[r].phase \in AtWork, deploy[s].phase \in AtWork
  PROVE  r = s
BY DEF MigrationsInv, NobodyTaken, HoldsIt

\* A run as it may become: its call and what happened to its lock are the same.
Becoming(r, new) ==
  /\ new \in DeployRecord
  /\ new.kind = deploy[r].kind /\ new.list = deploy[r].list /\ new.taken = deploy[r].taken
  /\ Checked(new)

\* A step of one run that writes no record and no data.
LEMMA RunMoves ==
  ASSUME MigrationsInv, NEW r \in Deploys, NEW new, Becoming(r, new),
         deploy' = [deploy EXCEPT ![r] = new], UNCHANGED <<records, effect>>,
         lockDoc' \in [by : Deploys \cup {"nobody"}, left : Nat],
         \A s \in Deploys : HoldsIt(deploy'[s], s, lockDoc'),
         NobodyTaken => InOrder(new, records, effect)
  PROVE  MigrationsInv'
<1>1. deploy' \in [Deploys -> DeployRecord] /\ MigrationsTyped'
  BY DEF MigrationsInv, MigrationsTyped, Becoming
<1>2. deploy'[r] = new /\ \A s \in Deploys : s # r => deploy'[s] = deploy[s]
  BY DEF MigrationsInv, MigrationsTyped
<1>3. \A s \in Deploys : Checked(deploy'[s])
  BY <1>2 DEF MigrationsInv, Becoming
<1>4. TransactionsTell'
  BY DEF MigrationsInv, TransactionsTell
<1>5. NobodyTaken' => NobodyTaken
  BY <1>2 DEF NobodyTaken, Becoming
<1>6. \A s \in Deploys : deploy'[s].kind = deploy[s].kind /\ deploy'[s].list = deploy[s].list
  BY <1>2 DEF Becoming
<1>7. DoneToTheEnd => DoneToTheEnd'
  BY <1>6 DEF DoneToTheEnd, Reverted, Up
<1>8. ASSUME NobodyTaken' PROVE \A s \in Deploys : InOrder(deploy'[s], records', effect')
  <2> TAKE s \in Deploys
  <2>1. NobodyTaken
    BY <1>5, <1>8
  <2>2. CASE s = r
    BY <1>2, <2>1, <2>2
  <2>3. CASE s # r
    BY <1>2, <2>1, <2>3 DEF MigrationsInv
  <2> QED BY <2>2, <2>3
<1> QED BY <1>1, <1>3, <1>4, <1>5, <1>7, <1>8 DEF MigrationsInv

\* A run that goes to a phase, its plan and its lock as they are.
LEMMA PhaseMoves ==
  ASSUME MigrationsInv, NEW r \in Deploys, NEW phase \in RunPhases, Phase(r, phase),
         UNCHANGED <<records, effect, lockDoc>>,
         phase \in AtWork => deploy[r].phase \in AtWork,
         phase \in AtWork \cup {"inserting", "overtaking"} => ~ListedTwice(deploy[r].list),
         phase \in {"stepping", "halfway", "recording"} => phase = "stepping" /\ deploy[r].plan # <<>>,
         phase \in Going => deploy[r].phase \in Going
  PROVE  MigrationsInv'
<1> DEFINE new == [deploy[r] EXCEPT !.phase = phase]
<1>1. deploy[r] \in DeployRecord
  BY DEF MigrationsInv, MigrationsTyped
<1>2. /\ new \in DeployRecord /\ new.phase = phase /\ new.plan = deploy[r].plan
      /\ new.kind = deploy[r].kind /\ new.list = deploy[r].list /\ new.taken = deploy[r].taken
  BY <1>1 DEF DeployRecord
<1>3. deploy' = [deploy EXCEPT ![r] = new]
  BY DEF Phase
<1> HIDE DEF new
<1>4. Becoming(r, new)
  BY <1>2 DEF Becoming, Checked, AtWork
<1>5. deploy'[r] = new /\ \A s \in Deploys : s # r => deploy'[s] = deploy[s]
  BY <1>3 DEF MigrationsInv, MigrationsTyped
<1>6. \A s \in Deploys : HoldsIt(deploy'[s], s, lockDoc')
  BY <1>2, <1>5 DEF MigrationsInv, HoldsIt
<1>7. NobodyTaken => InOrder(new, records, effect)
  BY <1>2 DEF MigrationsInv, InOrder
<1> QED BY <1>3, <1>4, <1>6, <1>7, RunMoves DEF MigrationsInv, MigrationsTyped

\* A run that ends, the lock left to the others as they hold it.
LEMMA EndMoves ==
  ASSUME MigrationsInv, NEW r \in Deploys, NEW phase \in {"over", "crashed"},
         MigrationEnds(r, phase), UNCHANGED <<records, effect>>,
         lockDoc' \in [by : Deploys \cup {"nobody"}, left : Nat],
         \A s \in Deploys : s # r /\ lockDoc.by = s => lockDoc'.by = s
  PROVE  MigrationsInv'
<1> DEFINE new == [deploy[r] EXCEPT !.phase = phase, !.plan = <<>>, !.lost = FALSE]
<1>1. deploy[r] \in DeployRecord
  BY DEF MigrationsInv, MigrationsTyped
<1>2. /\ new \in DeployRecord /\ new.phase = phase
      /\ new.kind = deploy[r].kind /\ new.list = deploy[r].list /\ new.taken = deploy[r].taken
  <2>1. phase \in RunPhases /\ <<>> \in Seq(Ids)
    BY DEF RunPhases
  <2> QED BY <1>1, <2>1 DEF DeployRecord
<1>3. deploy' = [deploy EXCEPT ![r] = new]
  BY DEF MigrationEnds
<1> HIDE DEF new
<1>4. Becoming(r, new)
  BY <1>2 DEF Becoming, Checked, AtWork
<1>5. deploy'[r] = new /\ \A s \in Deploys : s # r => deploy'[s] = deploy[s]
  BY <1>3 DEF MigrationsInv, MigrationsTyped
<1>6. \A s \in Deploys : HoldsIt(deploy'[s], s, lockDoc')
  BY <1>2, <1>5 DEF MigrationsInv, HoldsIt, AtWork
<1>7. NobodyTaken => InOrder(new, records, effect)
  BY <1>2 DEF InOrder, Going
<1> QED BY <1>3, <1>4, <1>6, <1>7, RunMoves

\* Taking the lock.
LEMMA TakingKeeps ==
  ASSUME MigrationsInv, NEW r \in Deploys, Deploy(r) \/ InsertLock(r) \/ LockedOut(r)
  PROVE  MigrationsInv'
<1>1. MigrationsTyped
  BY DEF MigrationsInv
<1>2. CASE Deploy(r)
  <2>1. CASE ~ListedTwice(deploy[r].list) /\ Phase(r, "inserting")
    <3>1. deploy[r].phase = "new" /\ UNCHANGED <<lockDoc, records, effect>>
      BY <1>2 DEF Deploy
    <3> QED BY <2>1, <3>1, PhaseMoves DEF AtWork, Going, RunPhases
  <2>2. CASE MigrationEnds(r, "over")
    BY <1>1, <1>2, <2>2, EndMoves DEF Deploy, MigrationsTyped
  <2> QED BY <1>2, <2>1, <2>2 DEF Deploy
<1>3. CASE InsertLock(r)
  <2>1. deploy[r].phase = "inserting" /\ ~ListedTwice(deploy[r].list) /\ UNCHANGED <<records, effect>>
    BY <1>3 DEF InsertLock, MigrationsInv, Checked
  <2>2. CASE lockDoc # NoLock
    <3>1. Phase(r, "overtaking") /\ UNCHANGED lockDoc
      BY <1>3, <2>2 DEF InsertLock
    <3> QED BY <2>1, <3>1, PhaseMoves DEF AtWork, Going, RunPhases
  <2>3. CASE lockDoc = NoLock
    <3>1. lockDoc' = [by |-> r, left |-> LockTtl] /\ lockDoc.by = "nobody"
      BY <1>3, <2>3 DEF InsertLock, NoLock
    <3>2. lockDoc' \in [by : Deploys \cup {"nobody"}, left : Nat]
      BY <3>1, MigrationsAssumption
    <3>3. CASE MigrationEnds(r, "over")
      <4>1. \A s \in Deploys : s # r /\ lockDoc.by = s => lockDoc'.by = s
        BY <3>1, MigrationsAssumption
      <4> QED BY <2>1, <3>2, <3>3, <4>1, EndMoves
    <3>4. CASE Phase(r, "reading")
      <4> DEFINE new == [deploy[r] EXCEPT !.phase = "reading"]
      <4>1. deploy[r] \in DeployRecord
        BY <1>1 DEF MigrationsTyped
      <4>2. /\ new \in DeployRecord /\ new.phase = "reading"
            /\ new.kind = deploy[r].kind /\ new.list = deploy[r].list /\ new.taken = deploy[r].taken
        BY <4>1 DEF DeployRecord, RunPhases, AtWork
      <4>3. deploy' = [deploy EXCEPT ![r] = new]
        BY <3>4 DEF Phase
      <4> HIDE DEF new
      <4>4. Becoming(r, new)
        BY <2>1, <4>2 DEF Becoming, Checked
      <4>5. deploy'[r] = new /\ \A s \in Deploys : s # r => deploy'[s] = deploy[s]
        BY <1>1, <4>3 DEF MigrationsTyped
      <4>6. \A s \in Deploys : HoldsIt(deploy'[s], s, lockDoc')
        BY <3>1, <4>5, MigrationsAssumption DEF MigrationsInv, HoldsIt
      <4>7. NobodyTaken => InOrder(new, records, effect)
        BY <4>2 DEF InOrder, Going
      <4> QED BY <2>1, <3>2, <4>3, <4>4, <4>6, <4>7, RunMoves
    <3> QED BY <1>3, <2>3, <3>3, <3>4 DEF InsertLock
  <2> QED BY <2>2, <2>3
<1>4. CASE LockedOut(r)
  BY <1>1, <1>4, EndMoves DEF LockedOut, MigrationsTyped
<1> QED BY <1>2, <1>3, <1>4

\* Whoever held it knows nothing of it, and is told by its next renewal.
LEMMA OvertakeKeeps ==
  ASSUME MigrationsInv, NEW r \in Deploys, Overtake(r)
  PROVE  MigrationsInv'
<1>1. MigrationsTyped /\ UNCHANGED <<records, effect>> /\ lockDoc' = [by |-> r, left |-> LockTtl]
  BY DEF MigrationsInv, Overtake
<1>2. PICK phase \in {"reading", "over"} :
       deploy' = [s \in Deploys |->
         IF s = r THEN [deploy[r] EXCEPT !.phase = phase]
         ELSE [deploy[s] EXCEPT !.taken = @ \/ (Locked(s) /\ lockDoc.left = 0)]]
  BY DEF Overtake
<1>3. deploy[r].phase = "overtaking" /\ lockDoc.left = 0
  BY DEF Overtake, Lapsed
<1>4. /\ deploy'[r] \in DeployRecord /\ deploy'[r].phase = phase
      /\ deploy'[r].kind = deploy[r].kind /\ deploy'[r].list = deploy[r].list
      /\ deploy'[r].taken = deploy[r].taken
  BY <1>1, <1>2 DEF MigrationsTyped, DeployRecord, RunPhases, AtWork
<1>5. ASSUME NEW s \in Deploys, s # r
      PROVE  /\ deploy'[s] \in DeployRecord /\ deploy'[s].phase = deploy[s].phase
             /\ deploy'[s].kind = deploy[s].kind /\ deploy'[s].list = deploy[s].list
             /\ deploy'[s].plan = deploy[s].plan
             /\ (~deploy'[s].taken => ~deploy[s].taken /\ lockDoc.by # s)
  <2> DEFINE b == deploy[s].taken \/ (Locked(s) /\ lockDoc.left = 0)
  <2>1. deploy'[s] = [deploy[s] EXCEPT !.taken = b] /\ deploy[s] \in DeployRecord
    BY <1>1, <1>2, <1>5 DEF MigrationsTyped
  <2>2. b \in BOOLEAN /\ (~b => ~deploy[s].taken /\ lockDoc.by # s)
    BY <1>3, <2>1 DEF DeployRecord, Locked
  <2> HIDE DEF b
  <2> QED BY <2>1, <2>2 DEF DeployRecord
<1>6. MigrationsTyped'
  <2>1. deploy' \in [Deploys -> DeployRecord]
    BY <1>2, <1>4, <1>5
  <2>2. lockDoc' \in [by : Deploys \cup {"nobody"}, left : Nat]
    BY <1>1, MigrationsAssumption
  <2> QED BY <1>1, <2>1, <2>2 DEF MigrationsTyped
<1>7. ASSUME NEW s \in Deploys PROVE HoldsIt(deploy'[s], s, lockDoc') /\ Checked(deploy'[s])
  <2>1. CASE s = r
    BY <1>1, <1>3, <1>4, <2>1 DEF MigrationsInv, HoldsIt, Checked
  <2>2. CASE s # r
    <3>1. HoldsIt(deploy[s], s, lockDoc) /\ Checked(deploy[s])
      BY DEF MigrationsInv
    <3> QED BY <1>5, <2>2, <3>1 DEF HoldsIt, Checked
  <2> QED BY <2>1, <2>2
<1>8. TransactionsTell'
  BY <1>1 DEF MigrationsInv, TransactionsTell
<1>9. NobodyTaken' => NobodyTaken
  BY <1>4, <1>5 DEF NobodyTaken
<1>10. DoneToTheEnd => DoneToTheEnd'
  BY <1>1, <1>4, <1>5 DEF DoneToTheEnd, Reverted, Up
<1>11. ASSUME NobodyTaken' PROVE \A s \in Deploys : InOrder(deploy'[s], records', effect')
  <2> TAKE s \in Deploys
  <2>1. CASE s = r
    BY <1>4, <2>1 DEF InOrder, Going
  <2>2. CASE s # r
    <3>1. InOrder(deploy[s], records, effect)
      BY <1>9, <1>11 DEF MigrationsInv
    <3> QED BY <1>1, <1>5, <2>2, <3>1 DEF InOrder
  <2> QED BY <2>1, <2>2
<1> QED BY <1>6, <1>7, <1>8, <1>9, <1>10, <1>11 DEF MigrationsInv

\* Keeping it, and letting it go.
LEMMA KeepingKeeps ==
  ASSUME MigrationsInv, NEW r \in Deploys,
         SendBeat(r) \/ Renewal(r) \/ ReleaseLock(r) \/ DeployCrashes(r)
  PROVE  MigrationsInv'
<1>1. MigrationsTyped /\ deploy[r] \in DeployRecord
  BY DEF MigrationsInv, MigrationsTyped
<1>2. ASSUME NEW lost \in BOOLEAN, NEW beat \in BOOLEAN,
             deploy' = [deploy EXCEPT ![r] = [deploy[r] EXCEPT !.lost = lost, !.beat = beat]],
             lockDoc' \in [by : Deploys \cup {"nobody"}, left : Nat], lockDoc'.by = lockDoc.by,
             UNCHANGED <<records, effect>>
      PROVE  MigrationsInv'
  <2> DEFINE new == [deploy[r] EXCEPT !.lost = lost, !.beat = beat]
  <2>1. /\ new \in DeployRecord /\ new.phase = deploy[r].phase /\ new.plan = deploy[r].plan
        /\ new.kind = deploy[r].kind /\ new.list = deploy[r].list /\ new.taken = deploy[r].taken
    BY <1>1 DEF DeployRecord
  <2>2. deploy' = [deploy EXCEPT ![r] = new]
    BY <1>2
  <2> HIDE DEF new
  <2>3. Becoming(r, new)
    BY <2>1 DEF Becoming, Checked, MigrationsInv
  <2>4. deploy'[r] = new /\ \A s \in Deploys : s # r => deploy'[s] = deploy[s]
    BY <1>1, <2>2 DEF MigrationsTyped
  <2>5. \A s \in Deploys : HoldsIt(deploy'[s], s, lockDoc')
    BY <1>2, <2>1, <2>4 DEF MigrationsInv, HoldsIt
  <2>6. NobodyTaken => InOrder(new, records, effect)
    BY <2>1 DEF MigrationsInv, InOrder
  <2> QED BY <1>2, <2>2, <2>3, <2>5, <2>6, RunMoves
<1>3. CASE SendBeat(r)
  <2>1. deploy' = [deploy EXCEPT ![r] = [deploy[r] EXCEPT !.lost = deploy[r].lost, !.beat = TRUE]]
    BY <1>1, <1>3 DEF SendBeat, MigrationsTyped, DeployRecord
  <2> QED BY <1>1, <1>2, <1>3, <2>1 DEF SendBeat, MigrationsTyped, DeployRecord
<1>4. CASE Renewal(r)
  <2>1. UNCHANGED <<records, effect>>
    BY <1>4 DEF Renewal
  <2>2. CASE /\ lockDoc' = IF Locked(r) THEN [lockDoc EXCEPT !.left = LockTtl] ELSE lockDoc
             /\ deploy' = [deploy EXCEPT ![r].beat = FALSE,
                                    ![r].lost = @ \/ (~Locked(r) /\ deploy[r].phase \in AtWork)]
    <3> DEFINE b == deploy[r].lost \/ (~Locked(r) /\ deploy[r].phase \in AtWork)
    <3>1. b \in BOOLEAN
      BY <1>1 DEF DeployRecord
    <3>2. deploy' = [deploy EXCEPT ![r] = [deploy[r] EXCEPT !.lost = b, !.beat = FALSE]]
      BY <1>1, <2>2 DEF MigrationsTyped, DeployRecord
    <3>3. lockDoc' \in [by : Deploys \cup {"nobody"}, left : Nat] /\ lockDoc'.by = lockDoc.by
      BY <1>1, <2>2, MigrationsAssumption DEF MigrationsTyped
    <3> HIDE DEF b
    <3> QED BY <1>2, <2>1, <3>1, <3>2, <3>3
  <2>3. CASE UNCHANGED lockDoc /\ deploy' = [deploy EXCEPT ![r].beat = FALSE]
    <3>1. deploy' = [deploy EXCEPT ![r] = [deploy[r] EXCEPT !.lost = deploy[r].lost, !.beat = FALSE]]
      BY <1>1, <2>3 DEF MigrationsTyped, DeployRecord
    <3> QED BY <1>1, <1>2, <2>1, <2>3, <3>1 DEF MigrationsTyped, DeployRecord
  <2> QED BY <1>4, <2>2, <2>3 DEF Renewal
<1>5. CASE ReleaseLock(r)
  <2>1. lockDoc' \in [by : Deploys \cup {"nobody"}, left : Nat]
    BY <1>1, <1>5 DEF ReleaseLock, LockReleased, NoLock, MigrationsTyped
  <2>2. \A s \in Deploys : s # r /\ lockDoc.by = s => lockDoc'.by = s
    BY <1>5 DEF ReleaseLock, LockReleased, Locked
  <2> QED BY <1>5, <2>1, <2>2, EndMoves DEF ReleaseLock
<1>6. CASE DeployCrashes(r)
  BY <1>1, <1>6, EndMoves DEF DeployCrashes, MigrationsTyped
<1> QED BY <1>3, <1>4, <1>5, <1>6

\* Going through the plan: after its first step, the rest follows.
LEMMA StepFollows ==
  ASSUME NEW list \in Seq(Ids), Injective(list), NEW recs, NEW kind \in {"migrate", "rollback"},
         Cardinality(recs) \in 0 .. Len(list), recs = Prefix(list, Cardinality(recs)),
         NEW plan \in Seq(Ids), plan # <<>>, Follows(kind, list, Cardinality(recs), plan),
         NEW new, new = IF kind = "migrate" THEN recs \cup {Head(plan)} ELSE recs \ {Head(plan)}
  PROVE  /\ Cardinality(new) \in 0 .. Len(list) /\ new = Prefix(list, Cardinality(new))
         /\ Follows(kind, list, Cardinality(new), Tail(plan))
         /\ Head(plan) \in Listed(list)
<1> DEFINE n == Cardinality(recs)
<1>1. /\ Len(plan) \in Nat \ {0} /\ Head(plan) = plan[1] /\ Tail(plan) \in Seq(Ids)
      /\ Len(Tail(plan)) = Len(plan) - 1 /\ \A k \in 1 .. Len(plan) - 1 : Tail(plan)[k] = plan[k + 1]
  OBVIOUS
<1>2. /\ Len(list) \in Nat /\ DOMAIN list = 1 .. Len(list) /\ n \in Nat /\ n <= Len(list)
      /\ recs = {list[i] : i \in 1 .. n}
  BY DEF Prefix
<1> HIDE DEF n
<1>3. CASE kind = "migrate"
  <2>1. /\ n + Len(plan) <= Len(list)
        /\ \A k \in 1 .. Len(plan) : plan[k] = list[n + k]
    BY <1>3 DEF Follows, n
  <2>2. Head(plan) = list[n + 1] /\ n + 1 \in 1 .. Len(list) /\ n + 1 \in 0 .. Len(list)
    BY <1>1, <1>2, <2>1
  <2>3. new = Prefix(list, n + 1)
    <3>1. 1 .. n + 1 = (1 .. n) \cup {n + 1}
      BY <1>2
    <3> QED BY <1>2, <1>3, <2>2, <3>1 DEF Prefix
  <2>4. Cardinality(new) = n + 1
    BY <1>2, <2>2, <2>3, PrefixCounts
  <2>5. \A k \in 1 .. Len(Tail(plan)) : Tail(plan)[k] = list[n + 1 + k]
    <3> TAKE k \in 1 .. Len(Tail(plan))
    <3>1. k \in 1 .. Len(plan) - 1 /\ k + 1 \in 1 .. Len(plan)
      BY <1>1
    <3>2. plan[k + 1] = list[n + (k + 1)]
      BY <2>1, <3>1
    <3>3. n + (k + 1) = n + 1 + k
      BY <1>2, <3>1
    <3> QED BY <1>1, <3>1, <3>2, <3>3
  <2>6. Follows(kind, list, n + 1, Tail(plan))
    BY <1>1, <1>2, <1>3, <2>1, <2>5 DEF Follows
  <2>7. Head(plan) \in Listed(list)
    BY <1>2, <2>2 DEF Listed
  <2> QED BY <1>3, <2>2, <2>3, <2>4, <2>6, <2>7
<1>4. CASE kind # "migrate"
  <2>1. /\ Len(plan) <= n
        /\ \A k \in 1 .. Len(plan) : plan[k] = list[n + 1 - k]
    BY <1>4 DEF Follows, n
  <2>2. Head(plan) = list[n] /\ n \in 1 .. Len(list) /\ n - 1 \in 0 .. Len(list)
    BY <1>1, <1>2, <2>1
  <2>3. new = Prefix(list, n - 1)
    <3>1. 1 .. n = (1 .. n - 1) \cup {n} /\ n \notin 1 .. n - 1
      BY <1>2, <2>2
    <3>2. \A i \in 1 .. n - 1 : list[i] # list[n]
      BY <1>2, <2>2 DEF Injective
    <3> QED BY <1>2, <1>4, <2>2, <3>1, <3>2 DEF Prefix
  <2>4. Cardinality(new) = n - 1
    BY <2>2, <2>3, PrefixCounts
  <2>5. \A k \in 1 .. Len(Tail(plan)) : Tail(plan)[k] = list[n - 1 + 1 - k]
    <3> TAKE k \in 1 .. Len(Tail(plan))
    <3>1. k \in 1 .. Len(plan) - 1 /\ k + 1 \in 1 .. Len(plan)
      BY <1>1
    <3>2. plan[k + 1] = list[n + 1 - (k + 1)]
      BY <2>1, <3>1
    <3>3. n + 1 - (k + 1) = n - 1 + 1 - k
      BY <1>2, <3>1
    <3> QED BY <1>1, <3>1, <3>2, <3>3
  <2>6. Follows(kind, list, n - 1, Tail(plan))
    BY <1>1, <1>2, <1>4, <2>1, <2>5 DEF Follows
  <2>7. Head(plan) \in Listed(list)
    BY <1>2, <2>2 DEF Listed
  <2> QED BY <1>4, <2>2, <2>3, <2>4, <2>6, <2>7
<1> QED BY <1>3, <1>4

\* A step that writes: no other run is at work, unless a lock was taken over.
LEMMA DataMoves ==
  ASSUME MigrationsInv, NEW r \in Deploys, deploy[r].phase \in AtWork,
         NEW new, Becoming(r, new), deploy' = [deploy EXCEPT ![r] = new], UNCHANGED lockDoc,
         records' \subseteq Ids, effect' \in [Ids -> Effects], TransactionsTell',
         NobodyTaken => /\ InOrder(new, records', effect')
                        /\ \A id \in records' : effect'[id] = "all" \/ (id \notin Transactional /\ Reverted(id))
  PROVE  MigrationsInv'
<1>1. deploy' \in [Deploys -> DeployRecord] /\ MigrationsTyped'
  BY DEF MigrationsInv, MigrationsTyped, Becoming
<1>2. deploy'[r] = new /\ \A s \in Deploys : s # r => deploy'[s] = deploy[s]
  BY DEF MigrationsInv, MigrationsTyped
<1>3. \A s \in Deploys : HoldsIt(deploy'[s], s, lockDoc') /\ Checked(deploy'[s])
  BY <1>2 DEF MigrationsInv, Becoming, HoldsIt
<1>4. NobodyTaken' => NobodyTaken
  BY <1>2 DEF NobodyTaken, Becoming
<1>5. \A s \in Deploys : deploy'[s].kind = deploy[s].kind /\ deploy'[s].list = deploy[s].list
  BY <1>2 DEF Becoming
<1>6. NobodyTaken => DoneToTheEnd'
  BY <1>5 DEF DoneToTheEnd, Reverted, Up
<1>7. ASSUME NobodyTaken' PROVE \A s \in Deploys : InOrder(deploy'[s], records', effect')
  <2> TAKE s \in Deploys
  <2>1. NobodyTaken
    BY <1>4, <1>7
  <2>2. CASE s = r
    BY <1>2, <2>1, <2>2
  <2>3. CASE s # r
    <3>1. deploy[s].phase \notin AtWork
      BY <2>1, <2>3, WorksAlone
    <3> QED BY <1>2, <2>3, <3>1 DEF InOrder, Going, AtWork
  <2> QED BY <2>2, <2>3
<1> QED BY <1>1, <1>3, <1>4, <1>6, <1>7 DEF MigrationsInv

\* Reading the records, going on to the next step and failing move no record.
LEMMA PlanningKeeps ==
  ASSUME MigrationsInv, NEW r \in Deploys, ReadRecords(r) \/ NextStep(r) \/ StepFails(r)
  PROVE  MigrationsInv'
<1>1. MigrationsTyped /\ deploy[r] \in DeployRecord
  BY DEF MigrationsInv, MigrationsTyped
<1>2. CASE Phase(r, "releasing")
  BY <1>2, PhaseMoves DEF ReadRecords, NextStep, StepFails, AtWork, Going, RunPhases
<1>3. CASE NextStep(r) /\ ~Phase(r, "releasing")
  <2>1. /\ deploy[r].phase = "next" /\ deploy[r].plan # <<>> /\ Phase(r, "stepping")
        /\ UNCHANGED <<lockDoc, records, effect>>
    BY <1>3 DEF NextStep
  <2>2. ~ListedTwice(deploy[r].list)
    BY <2>1 DEF MigrationsInv, Checked, AtWork
  <2> QED BY <2>1, <2>2, PhaseMoves DEF AtWork, Going, RunPhases
<1>4. CASE ReadRecords(r) /\ ~Phase(r, "releasing")
  <2> DEFINE plan == PlanOf(deploy[r], records)
             new == [deploy[r] EXCEPT !.phase = "next", !.plan = plan]
             n == Cardinality(records)
  <2>1. /\ deploy[r].phase = "reading" /\ ~Refused(deploy[r], records)
        /\ deploy' = [deploy EXCEPT ![r].phase = "next", ![r].plan = PlanOf(deploy[r], records)]
        /\ UNCHANGED <<lockDoc, records, effect>>
    BY <1>4 DEF ReadRecords
  <2>2. ~ListedTwice(deploy[r].list)
    BY <2>1 DEF MigrationsInv, Checked, AtWork
  <2>3. plan \in Seq(Ids) /\ Follows(deploy[r].kind, deploy[r].list, n, plan)
    BY <1>1, <2>1, <2>2, PlanFollows
  <2>4. /\ Injective(deploy[r].list) /\ n \in 0 .. Len(deploy[r].list)
        /\ records = Prefix(deploy[r].list, n)
    BY <1>1, <2>1, <2>2, RecordsArePrefix DEF DeployRecord, Refused
  <2>5. deploy' = [deploy EXCEPT ![r] = new]
    BY <1>1, <2>1 DEF MigrationsTyped, DeployRecord
  <2> HIDE DEF plan
  <2>6. /\ new \in DeployRecord /\ new.phase = "next" /\ new.plan = plan
        /\ new.kind = deploy[r].kind /\ new.list = deploy[r].list /\ new.taken = deploy[r].taken
    BY <1>1, <2>3 DEF DeployRecord, RunPhases, AtWork
  <2> HIDE DEF new, n
  <2>7. Becoming(r, new)
    BY <2>2, <2>6 DEF Becoming, Checked
  <2>8. deploy'[r] = new /\ \A s \in Deploys : s # r => deploy'[s] = deploy[s]
    BY <1>1, <2>5 DEF MigrationsTyped
  <2>9. \A s \in Deploys : HoldsIt(deploy'[s], s, lockDoc')
    BY <2>1, <2>6, <2>8 DEF MigrationsInv, HoldsIt, AtWork
  <2>10. InOrder(new, records, effect)
    BY <2>3, <2>4, <2>6 DEF InOrder, n
  <2> QED BY <1>1, <2>1, <2>5, <2>7, <2>9, <2>10, RunMoves DEF MigrationsTyped
<1> QED BY <1>2, <1>3, <1>4 DEF StepFails

\* A step that goes as far as its record, with it or without.
LEMMA RecordingKeeps ==
  ASSUME MigrationsInv, NEW r \in Deploys, deploy[r].phase \in {"stepping", "recording"},
         deploy[r].phase = "stepping" <=> Current(r) \in Transactional,
         Recordable(r), records' = Recorded(r), Done(r) \/ Phase(r, "releasing"), UNCHANGED lockDoc,
         effect' = IF Current(r) \notin Transactional THEN effect
                   ELSE [effect EXCEPT ![Current(r)] =
                           IF ~Up(r) THEN "none" ELSE IF @ = "none" THEN "all" ELSE "twice"]
  PROVE  MigrationsInv'
<1> DEFINE run == deploy[r]
           list == run.list
           n == Cardinality(records)
           n2 == Cardinality(records')
<1>1. MigrationsTyped /\ run \in DeployRecord /\ Checked(run) /\ TransactionsTell
  BY DEF MigrationsInv, MigrationsTyped
<1>2. run.plan \in Seq(Ids) /\ run.plan # <<>> /\ list \in Seq(Ids) /\ run.kind \in {"migrate", "rollback"}
  BY <1>1 DEF DeployRecord, Checked
<1>3. Current(r) \in Ids /\ Current(r) = Head(run.plan) /\ Tail(run.plan) \in Seq(Ids)
  BY <1>2 DEF Current
<1>4. records' \subseteq Ids /\ effect' \in [Ids -> Effects] /\ effect \in [Ids -> Effects]
  BY <1>1, <1>3 DEF Recorded, MigrationsTyped, Effects
<1>5. TransactionsTell'
  <2> SUFFICES ASSUME NEW id \in Transactional
               PROVE  effect'[id] = IF id \in records' THEN "all" ELSE "none"
    BY DEF TransactionsTell
  <2>1. id \in Ids /\ effect[id] = IF id \in records THEN "all" ELSE "none"
    BY <1>1, MigrationsAssumption DEF TransactionsTell
  <2>2. CASE id = Current(r)
    <3>1. effect'[id] = IF ~Up(r) THEN "none" ELSE IF effect[id] = "none" THEN "all" ELSE "twice"
      BY <1>4, <2>1, <2>2
    <3>2. Up(r) => id \notin records
      BY <2>2 DEF Recordable
    <3> QED BY <2>1, <2>2, <3>1, <3>2 DEF Recorded
  <2>3. CASE id # Current(r)
    BY <1>4, <2>1, <2>3 DEF Recorded
  <2> QED BY <2>2, <2>3
<1>6. \E new : /\ Becoming(r, new) /\ deploy' = [deploy EXCEPT ![r] = new]
               /\ \/ new.phase = "releasing"
                  \/ new.phase = "next" /\ new.plan = Tail(run.plan)
  <2>1. CASE Done(r)
    <3> DEFINE new == [run EXCEPT !.phase = "next", !.plan = Tail(run.plan)]
    <3>1. deploy' = [deploy EXCEPT ![r] = new]
      BY <1>1, <2>1 DEF Done, MigrationsTyped, DeployRecord
    <3>2. /\ new \in DeployRecord /\ new.phase = "next" /\ new.plan = Tail(run.plan)
          /\ new.kind = run.kind /\ new.list = run.list /\ new.taken = run.taken
      BY <1>1, <1>3 DEF DeployRecord, RunPhases, AtWork
    <3>3. ~ListedTwice(run.list)
      BY <1>1 DEF Checked, AtWork
    <3> HIDE DEF new
    <3>4. Becoming(r, new)
      BY <3>2, <3>3 DEF Becoming, Checked
    <3> QED BY <3>1, <3>2, <3>4
  <2>2. CASE Phase(r, "releasing")
    <3> DEFINE new == [run EXCEPT !.phase = "releasing"]
    <3>1. deploy' = [deploy EXCEPT ![r] = new]
      BY <2>2 DEF Phase
    <3>2. /\ new \in DeployRecord /\ new.phase = "releasing"
          /\ new.kind = run.kind /\ new.list = run.list /\ new.taken = run.taken
      BY <1>1 DEF DeployRecord, RunPhases
    <3> HIDE DEF new
    <3>3. Becoming(r, new)
      BY <3>2 DEF Becoming, Checked, AtWork
    <3> QED BY <3>1, <3>2, <3>3
  <2> QED BY <2>1, <2>2
<1>7. PICK new : /\ Becoming(r, new) /\ deploy' = [deploy EXCEPT ![r] = new]
                 /\ \/ new.phase = "releasing"
                    \/ new.phase = "next" /\ new.plan = Tail(run.plan)
  BY <1>6
<1>8. ASSUME NobodyTaken
      PROVE  /\ InOrder(new, records', effect')
             /\ \A id \in records' : effect'[id] = "all" \/ (id \notin Transactional /\ Reverted(id))
  <2>1. InOrder(run, records, effect) /\ DoneToTheEnd
    BY <1>8 DEF MigrationsInv
  <2>2. /\ Injective(list) /\ n \in 0 .. Len(list) /\ records = Prefix(list, n)
        /\ Follows(run.kind, list, n, run.plan)
        /\ run.phase = "recording" /\ run.kind = "migrate" => effect[Current(r)] = "all"
    BY <1>3, <2>1 DEF InOrder, Going
  <2>3. records' = IF run.kind = "migrate" THEN records \cup {Head(run.plan)} ELSE records \ {Head(run.plan)}
    BY <1>3 DEF Recorded, Up
  <2>4. /\ n2 \in 0 .. Len(list) /\ records' = Prefix(list, n2)
        /\ Follows(run.kind, list, n2, Tail(run.plan))
        /\ Head(run.plan) \in Listed(list)
    BY <1>2, <2>2, <2>3, StepFollows
  <2>5. InOrder(new, records', effect')
    BY <1>7, <2>2, <2>4 DEF InOrder, Going, Becoming
  <2>6. ASSUME NEW id \in records'
        PROVE  effect'[id] = "all" \/ (id \notin Transactional /\ Reverted(id))
    <3>1. CASE id = Current(r)
      <4>1. Up(r)
        BY <1>3, <2>3, <2>6, <3>1 DEF Up
      <4>2. CASE run.phase = "recording"
        BY <2>2, <4>1, <4>2, <3>1 DEF Up
      <4>3. CASE run.phase = "stepping"
        BY <1>5, <3>1, <4>3 DEF TransactionsTell
      <4> QED BY <4>2, <4>3
    <3>2. CASE id # Current(r)
      <4>1. id \in records /\ effect'[id] = effect[id]
        BY <1>1, <1>4, <2>6, <3>2 DEF Recorded, MigrationsTyped
      <4> QED BY <2>1, <4>1 DEF DoneToTheEnd
    <3> QED BY <3>1, <3>2
  <2> QED BY <2>5, <2>6
<1>9. run.phase \in AtWork
  BY DEF AtWork
<1> HIDE DEF run
<1> QED BY <1>4, <1>5, <1>7, <1>8, <1>9, DataMoves DEF run

\* What is written outside a transaction is of no other migration.
LEMMA WritingKeeps ==
  ASSUME MigrationsInv, NEW r \in Deploys, WriteSome(r) \/ WriteRest(r)
  PROVE  MigrationsInv'
<1> DEFINE run == deploy[r]
           phase == IF run.phase = "stepping" THEN "halfway" ELSE "recording"
           value == IF run.phase = "stepping" THEN "half" ELSE IF Up(r) THEN "all" ELSE "none"
           new == [run EXCEPT !.phase = phase]
<1>1. MigrationsTyped /\ run \in DeployRecord /\ Checked(run) /\ TransactionsTell
  BY DEF MigrationsInv, MigrationsTyped
<1>2. /\ run.phase \in {"stepping", "halfway"} /\ UNCHANGED <<lockDoc, records>>
      /\ effect' = [effect EXCEPT ![Current(r)] = value] /\ deploy' = [deploy EXCEPT ![r] = new]
  BY DEF WriteSome, WriteRest, Phase
<1>3. run.plan \in Seq(Ids) /\ run.plan # <<>> /\ ~ListedTwice(run.list)
  BY <1>1, <1>2 DEF DeployRecord, Checked, AtWork
<1>4. Current(r) \in Ids \ Transactional /\ Current(r) = Head(run.plan)
  BY <1>1, <1>2, <1>3 DEF Current, Checked, WriteSome, WriteRest
<1>5. /\ new \in DeployRecord /\ new.phase = phase /\ new.plan = run.plan
      /\ new.kind = run.kind /\ new.list = run.list /\ new.taken = run.taken
  BY <1>1 DEF DeployRecord, RunPhases, AtWork
<1> HIDE DEF new
<1>6. Becoming(r, new)
  BY <1>3, <1>4, <1>5 DEF Becoming, Checked
<1>7. effect' \in [Ids -> Effects] /\ records' \subseteq Ids /\ effect \in [Ids -> Effects]
  BY <1>1, <1>2 DEF MigrationsTyped, Effects
<1>8. TransactionsTell'
  BY <1>1, <1>2, <1>4, <1>7, MigrationsAssumption DEF TransactionsTell
<1>9. ASSUME NobodyTaken
      PROVE  /\ InOrder(new, records', effect')
             /\ \A id \in records' : effect'[id] = "all" \/ (id \notin Transactional /\ Reverted(id))
  <2>1. InOrder(run, records, effect) /\ DoneToTheEnd
    BY <1>9 DEF MigrationsInv
  <2>2. /\ Injective(run.list) /\ Cardinality(records) \in 0 .. Len(run.list)
        /\ records = Prefix(run.list, Cardinality(records))
        /\ Follows(run.kind, run.list, Cardinality(records), run.plan)
    BY <1>2, <2>1 DEF InOrder, Going
  <2>3. run.kind \in {"migrate", "rollback"} /\ run.list \in Seq(Ids)
    BY <1>1 DEF DeployRecord
  <2>4. Current(r) \in Listed(run.list) /\ (Current(r) \in records <=> run.kind # "migrate")
    <3> DEFINE list == run.list
               n == Cardinality(records)
    <3>1. /\ Len(run.plan) \in Nat \ {0} /\ Head(run.plan) = run.plan[1] /\ Len(list) \in Nat
          /\ DOMAIN list = 1 .. Len(list)
      BY <1>3, <2>3
    <3> HIDE DEF n, run
    <3>2. n \in 0 .. Len(list) /\ records = {list[i] : i \in 1 .. n} /\ Follows(run.kind, list, n, run.plan)
      BY <2>2 DEF n, Prefix
    <3>3. CASE run.kind = "migrate"
      <4>1. Head(run.plan) = list[n + 1] /\ n + 1 \in 1 .. Len(list)
        BY <3>1, <3>2, <3>3 DEF Follows
      <4> QED BY <1>4, <2>2, <3>1, <3>2, <3>3, <4>1 DEF Injective, Listed
    <3>4. CASE run.kind # "migrate"
      <4>1. Head(run.plan) = list[n] /\ n \in 1 .. Len(list)
        BY <3>1, <3>2, <3>4 DEF Follows
      <4> QED BY <1>4, <3>1, <3>2, <3>4, <4>1 DEF Listed
    <3> QED BY <3>3, <3>4
  <2>5. InOrder(new, records', effect')
    <3>1. effect'[Current(r)] = value
      BY <1>2, <1>4, <1>7
    <3>2. new.phase = "recording" /\ new.kind = "migrate" => effect'[Head(new.plan)] = "all"
      BY <1>2, <1>4, <1>5, <3>1 DEF Up
    <3> QED BY <1>2, <1>5, <2>2, <3>2 DEF InOrder
  <2>6. ASSUME NEW id \in records'
        PROVE  effect'[id] = "all" \/ (id \notin Transactional /\ Reverted(id))
    <3>1. CASE id = Current(r)
      BY <1>2, <1>4, <2>4, <2>6, <3>1 DEF Reverted, Up
    <3>2. CASE id # Current(r)
      <4>1. id \in records /\ id \in Ids /\ effect'[id] = effect[id]
        BY <1>1, <1>2, <1>7, <2>6, <3>2 DEF MigrationsTyped
      <4> QED BY <2>1, <4>1 DEF DoneToTheEnd
    <3> QED BY <3>1, <3>2
  <2> QED BY <2>5, <2>6
<1>10. run.phase \in AtWork
  BY <1>2 DEF AtWork
<1> HIDE DEF run
<1> QED BY <1>2, <1>6, <1>7, <1>8, <1>9, <1>10, DataMoves DEF run

\* Every step of the migrations keeps their invariant.
LEMMA MigrationsKeep == MigrationsInv /\ [MigrationsNext]_migrationVars => MigrationsInv'
<1> SUFFICES ASSUME MigrationsInv, [MigrationsNext]_migrationVars PROVE MigrationsInv'
  OBVIOUS
<1>1. MigrationsTyped
  BY DEF MigrationsInv
<1>2. CASE UNCHANGED migrationVars
  BY <1>2 DEF migrationVars, MigrationsInv, MigrationsTyped, TransactionsTell, NobodyTaken, DoneToTheEnd,
              Reverted, Up
<1>3. CASE LockAges
  <2>1. lockDoc' \in [by : Deploys \cup {"nobody"}, left : Nat] /\ lockDoc'.by = lockDoc.by
    BY <1>1, <1>3 DEF LockAges, MigrationsTyped
  <2>2. UNCHANGED <<records, effect, deploy>>
    BY <1>3 DEF LockAges
  <2> QED BY <2>1, <2>2 DEF MigrationsInv, MigrationsTyped, TransactionsTell, NobodyTaken, DoneToTheEnd,
                            Reverted, Up, HoldsIt
<1>4. ASSUME NEW r \in Deploys, CommitStep(r) PROVE MigrationsInv'
  BY <1>4, RecordingKeeps DEF CommitStep
<1>5. ASSUME NEW r \in Deploys, WriteRecord(r) PROVE MigrationsInv'
  <2>1. Current(r) \notin Transactional /\ deploy[r].phase = "recording"
    BY <1>5 DEF WriteRecord, MigrationsInv, Checked, Current
  <2> QED BY <1>5, <2>1, RecordingKeeps DEF WriteRecord
<1> QED BY <1>2, <1>3, <1>4, <1>5, TakingKeeps, OvertakeKeeps, KeepingKeeps, PlanningKeeps, WritingKeeps
        DEF MigrationsNext

\* Two runs migrate at once only where one did not renew its lock for a whole
\* TTL and another took it over (lock.ts).
THEOREM OneMigratesHolds == MigrationsSpec => []OneMigrates
<1>1. MigrationsInv => OneMigrates
  BY DEF MigrationsInv, HoldsIt, OneMigrates
<1> QED BY <1>1, MigrationsStart, MigrationsKeep, PTL DEF MigrationsSpec

\* The records tell what was done, and in which order, whatever failed before
\* (plan.ts checkApplied, run.ts runStep).
THEOREM RecordsTellAllHolds == MigrationsSpec => []RecordsTellAll
<1>1. ASSUME MigrationsInv PROVE RecordsTellAll
  <2>1. TransactionsTell
    BY <1>1 DEF MigrationsInv
  <2>2. ASSUME NobodyTaken, NEW r \in Deploys, deploy[r].phase \in AtWork \ {"reading"}
        PROVE  LET list == deploy[r].list
                   n    == Cardinality(records)
               IN  /\ records = { list[i] : i \in 1 .. n }
                   /\ deploy[r].plan # <<>> => Current(r) = IF Up(r) THEN list[n + 1] ELSE list[n]
    <3> DEFINE n == Cardinality(records)
               list == deploy[r].list
    <3>1. deploy[r] \in DeployRecord /\ InOrder(deploy[r], records, effect) /\ deploy[r].phase \in Going
      BY <1>1, <2>2 DEF MigrationsInv, MigrationsTyped, AtWork, Going
    <3>2. /\ records = Prefix(list, n) /\ n \in 0 .. Len(list)
          /\ Follows(deploy[r].kind, list, n, deploy[r].plan)
      BY <3>1 DEF InOrder
    <3>3. deploy[r].plan \in Seq(Ids) /\ list \in Seq(Ids)
      BY <3>1 DEF DeployRecord
    <3>4. n \in Nat
      BY <3>2, <3>3
    <3> HIDE DEF n
    <3>5. ASSUME deploy[r].plan # <<>> PROVE Current(r) = IF Up(r) THEN list[n + 1] ELSE list[n]
      <4>1. 1 \in 1 .. Len(deploy[r].plan) /\ Current(r) = deploy[r].plan[1]
        BY <3>3, <3>5 DEF Current
      <4>2. n + 1 - 1 = n
        BY <3>4
      <4> QED BY <3>2, <4>1, <4>2 DEF Follows, Up
    <3> QED BY <3>2, <3>5 DEF Prefix, n
  <2>3. NobodyTaken => DoneToTheEnd
    BY <1>1 DEF MigrationsInv
  <2> QED BY <2>1, <2>2, <2>3 DEF RecordsTellAll, TransactionsTell, NobodyTaken, DoneToTheEnd
<1> QED BY <1>1, MigrationsStart, MigrationsKeep, PTL DEF MigrationsSpec

(***************************************************************************)
(* The documents of a collection                                           *)
(***************************************************************************)

\* A document, its counters of any size.  One that is not there has none, and
\* its version counts its audited writes.
DocumentRow == [born : Nat, there : BOOLEAN, deleted : BOOLEAN, version : Nat, writes : Nat]

Counted(row) == row \in DocumentRow /\ row.version = row.writes /\ (~row.there => row.version = 0)

\* A document is as it was read, or has moved on since.
Since(seen, row) ==
  \/ row.born > seen.born
  \/ row.born = seen.born /\ ~row.there
  \/ row.born = seen.born /\ row.there /\ row.version > seen.version
  \/ row.born = seen.born /\ row.there /\ row.version = seen.version /\ row.deleted = seen.deleted

\* And so that no update at the version that was read finds it again.
Lost(seen, row) ==
  \/ row.born > seen.born
  \/ row.born = seen.born /\ ~row.there
  \/ row.born = seen.born /\ row.there /\ row.version > seen.version
  \/ row.born = seen.born /\ row.there /\ row.version = seen.version /\ row.deleted /\ seen.deleted

\* What a write makes of a document.
Successors(row) ==
  IF row.there THEN {row, Touched(row), SoftDeleted(row), Restored(row), Gone(row)} ELSE {Created(row)}

\* A write leaves a later version of the row, and what was read before is behind it.
LEMMA SuccessorsMoveOn ==
  ASSUME NEW row, Counted(row), NEW next \in Successors(row)
  PROVE  /\ Counted(next)
         /\ \A seen \in DocumentRow : Since(seen, row) => Since(seen, next)
         /\ \A seen \in DocumentRow : Lost(seen, row) => Lost(seen, next)
<1> DEFINE Stays == next.born = row.born /\ next.there = row.there
           Counts(n) == next.version = n /\ next.writes = n
<1>1. row \in DocumentRow /\ row.version = row.writes
  BY DEF Counted
<1>2. ASSUME NEW was \in DocumentRow
      PROVE  /\ Touched(was) \in DocumentRow /\ Touched(was).there = was.there
             /\ Touched(was).born = was.born /\ Touched(was).deleted = was.deleted
             /\ Touched(was).version = was.version + 1 /\ Touched(was).writes = was.writes + 1
  <2>1. was.version + 1 \in Nat /\ was.writes + 1 \in Nat
    BY DEF DocumentRow
  <2> QED BY <2>1 DEF DocumentRow, Touched
<1>3. ASSUME next = Touched(row) \/ next = SoftDeleted(row) \/ next = Restored(row)
      PROVE  next \in DocumentRow /\ Stays /\ Counts(row.version + 1)
  <2> DEFINE was == Touched(row)
  <2>1. was \in DocumentRow /\ was.born = row.born /\ was.there = row.there
        /\ was.version = row.version + 1 /\ was.writes = row.version + 1
    BY <1>1, <1>2
  <2>2. next = was \/ next = [was EXCEPT !.deleted = TRUE] \/ next = [was EXCEPT !.deleted = FALSE]
    BY <1>3 DEF SoftDeleted, Restored
  <2> HIDE DEF was
  <2> QED BY <2>1, <2>2 DEF DocumentRow
<1>4. ASSUME next = Gone(row)
      PROVE  next \in DocumentRow /\ next.born = row.born /\ ~next.there /\ Counts(0)
  BY <1>1, <1>4 DEF Gone, DocumentRow
<1>5. ASSUME next = Created(row), ~row.there
      PROVE  next \in DocumentRow /\ next.born = row.born + 1 /\ Counts(0)
  <2>1. row.born + 1 \in Nat /\ row.version = 0 /\ row.writes = 0
    BY <1>1, <1>5 DEF DocumentRow, Counted
  <2> QED BY <1>1, <1>5, <2>1 DEF Created, DocumentRow
<1>6. \/ next = row
      \/ row.there /\ next \in DocumentRow /\ Stays /\ Counts(row.version + 1)
      \/ row.there /\ next \in DocumentRow /\ next.born = row.born /\ ~next.there /\ Counts(0)
      \/ ~row.there /\ next \in DocumentRow /\ next.born = row.born + 1 /\ Counts(0)
  <2> HIDE DEF Stays, Counts
  <2> QED BY <1>3, <1>4, <1>5 DEF Successors
<1>7. Counted(next)
  BY <1>1, <1>6 DEF Counted
<1>8. ASSUME NEW seen \in DocumentRow, Since(seen, row) PROVE Since(seen, next)
  BY <1>1, <1>6, <1>8 DEF Since, DocumentRow
<1>9. ASSUME NEW seen \in DocumentRow, Lost(seen, row) PROVE Lost(seen, next)
  BY <1>1, <1>6, <1>9 DEF Lost, DocumentRow
<1> QED BY <1>7, <1>8, <1>9

\* What an accepted call makes of a row is one of its successors.
LEMMA BecomesSuccessor ==
  ASSUME NEW row, NEW r \in Asks,
         r.op \in {"create", "createMany"} => ~row.there,
         r.op \notin {"create", "createMany", "upsert"} => row.there
  PROVE  Becomes(r, row) \in Successors(row)
<1>1. \A q : Patched(q, row) \in {row, Touched(row)}
  BY DEF Patched
<1> QED BY <1>1 DEF Becomes, Successors

(***************************************************************************)
(* The calls                                                               *)
(***************************************************************************)

Answers == {"none", "written", "missing", "moved", "conflict", "refused", "hookFailed"}

DocumentCall ==
  [at : {"idle", "statement", "reread", "after", "ended"},
   does : Asks \cup {NoRow}, seen : DocumentRow \cup {NoRow}, met : DocumentRow \cup {NoRow},
   left : SUBSET Keys, answer : Answers]

\* What a call knows of the documents, up to its answer.
Knows(a, docs) ==
  /\ a.at = "idle" /\ a.seen # NoRow => \E i \in Keys : a.left = {i} /\ Since(a.seen, docs[i])
  /\ a.at = "statement" => a.does \in Asks /\ a.met = NoRow /\ a.answer = "none"
  /\ a.at = "statement" /\ a.does.expects =>
       /\ a.does.op = "update" /\ a.seen # NoRow
       /\ \E i \in Keys : a.left = {i} /\ Since(a.seen, docs[i])
  /\ a.at = "reread" =>
       /\ a.does \in Asks /\ a.does.expects /\ a.seen # NoRow
       /\ \E i \in Keys : a.left = {i} /\ Lost(a.seen, docs[i])

\* And what it was told.
WasTold(a, by) ==
  /\ a.seen # NoRow => Counted(a.seen)
  /\ a.at \in {"idle", "reread"} => a.answer = "none" /\ a.met = NoRow
  /\ a.met # NoRow => Counted(a.met)
  /\ a.does # NoRow /\ a.met # NoRow /\ a.answer = "written" /\ a.does.expects =>
       a.seen # NoRow /\ a.met.version = a.seen.version
  /\ a.does # NoRow /\ a.met # NoRow /\ a.answer = "moved" =>
       \/ <<a.met.born, a.met.version>> # <<a.seen.born, a.seen.version>>
       \/ by = "mongo" /\ a.met.deleted /\ a.seen.deleted

DocumentsInv ==
  /\ keeping.by \in {"mongo", "pg"}
  /\ DOMAIN stored = Keys /\ stored = [i \in Keys |-> stored[i]] /\ \A i \in Keys : Counted(stored[i])
  /\ asking \in [Writers -> DocumentCall]
  /\ \A c \in Writers : Knows(asking[c], stored) /\ WasTold(asking[c], keeping.by)

\* The invariant of the documents holds at the start.
LEMMA DocumentsStart == DocumentsInit => DocumentsInv
<1> SUFFICES ASSUME DocumentsInit PROVE DocumentsInv
  OBVIOUS
<1>1. keeping.by \in {"mongo", "pg"}
  BY DEF DocumentsInit
<1>2. PICK present \in SUBSET Keys :
       stored = [i \in Keys |-> [born |-> 0, there |-> i \in present, deleted |-> FALSE, version |-> 0,
                                 writes |-> 0]]
  BY DEF DocumentsInit
<1>3. \A i \in Keys : Counted(stored[i])
  BY <1>2 DEF Counted, DocumentRow
<1>4. asking = [c \in Writers |-> NoCall] /\ NoCall \in DocumentCall
  BY DEF DocumentsInit, NoCall, DocumentCall, Answers
<1>5. \A c \in Writers : Knows(asking[c], stored) /\ WasTold(asking[c], keeping.by)
  BY <1>4 DEF Knows, WasTold, NoCall
<1> QED BY <1>1, <1>2, <1>3, <1>4, <1>5 DEF DocumentsInv

\* A call that goes on, the documents as they were.
LEMMA CallMoves ==
  ASSUME DocumentsInv, NEW c \in Writers, NEW new \in DocumentCall,
         asking' = [asking EXCEPT ![c] = new], UNCHANGED <<keeping, stored>>,
         Knows(new, stored), WasTold(new, keeping.by)
  PROVE  DocumentsInv'
<1>1. asking' \in [Writers -> DocumentCall]
  BY DEF DocumentsInv
<1>2. ASSUME NEW d \in Writers PROVE Knows(asking'[d], stored') /\ WasTold(asking'[d], keeping.by)
  <2>1. asking'[d] = IF d = c THEN new ELSE asking[d]
    BY DEF DocumentsInv
  <2> QED BY <2>1 DEF DocumentsInv, Knows, WasTold
<1> QED BY <1>1, <1>2 DEF DocumentsInv

\* An answer that says nothing of the version.
LEMMA EndsMoves ==
  ASSUME DocumentsInv, NEW c \in Writers, NEW answer \in Answers, Ends(c, answer),
         UNCHANGED <<keeping, stored>>
  PROVE  DocumentsInv'
<1> DEFINE new == [NoCall EXCEPT !.at = "ended", !.answer = answer]
<1>1. /\ new \in DocumentCall /\ new.at = "ended" /\ new.does = NoRow /\ new.seen = NoRow
      /\ new.met = NoRow
  BY DEF NoCall, DocumentCall, Answers
<1>2. asking' = [asking EXCEPT ![c] = new]
  BY DEF Ends
<1> HIDE DEF new
<1>3. Knows(new, stored) /\ WasTold(new, keeping.by)
  BY <1>1 DEF Knows, WasTold
<1> QED BY <1>1, <1>2, <1>3, CallMoves

\* Reading a row, calling the store and the hooks after it move no row.
LEMMA ReadsAndCallsKeep ==
  ASSUME DocumentsInv, NEW c \in Writers, ReadDocument(c) \/ CallsWrite(c) \/ HooksAfter(c)
  PROVE  DocumentsInv'
<1> DEFINE a == asking[c]
<1>1. a \in DocumentCall /\ Knows(a, stored) /\ WasTold(a, keeping.by)
  BY DEF DocumentsInv
<1>2. UNCHANGED <<keeping, stored>>
  BY DEF ReadDocument, CallsWrite, HooksAfter
<1>3. CASE ReadDocument(c)
  <2>1. PICK i \in Keys : asking' = [asking EXCEPT ![c].seen = stored[i], ![c].left = {i}]
    BY <1>3 DEF ReadDocument
  <2> DEFINE new == [a EXCEPT !.seen = stored[i], !.left = {i}]
  <2>2. Counted(stored[i]) /\ stored[i] \in DocumentRow
    BY DEF DocumentsInv, Counted
  <2>3. /\ new \in DocumentCall /\ new.at = "idle" /\ new.seen = stored[i] /\ new.left = {i}
        /\ new.met = a.met /\ new.answer = a.answer
    BY <1>1, <1>3, <2>2 DEF DocumentCall, ReadDocument
  <2>4. asking' = [asking EXCEPT ![c] = new]
    BY <1>1, <2>1 DEF DocumentsInv, DocumentCall
  <2> HIDE DEF new
  <2>5. Since(new.seen, stored[i])
    BY <2>2, <2>3 DEF Since, DocumentRow
  <2>6. Knows(new, stored) /\ WasTold(new, keeping.by)
    BY <1>1, <1>3, <2>2, <2>3, <2>5 DEF Knows, WasTold, ReadDocument
  <2> QED BY <1>2, <2>3, <2>4, <2>6, CallMoves
<1>4. CASE CallsWrite(c)
  <2>1. PICK r \in Asks :
       /\ r.expects => asking[c].seen # NoRow /\ asking[c].left = r.ids
       /\ \/ keeping.by = "mongo" /\ Ends(c, "hookFailed")
          \/ MayNot(r) /\ Ends(c, "refused")
          \/ ~MayNot(r) /\ asking' = [asking EXCEPT ![c].does = r, ![c].left = r.ids, ![c].at = "statement"]
    BY <1>4 DEF CallsWrite
  <2>2. CASE Ends(c, "hookFailed") \/ Ends(c, "refused")
    BY <1>2, <2>2, EndsMoves DEF Answers
  <2>3. CASE ~MayNot(r) /\ asking' = [asking EXCEPT ![c].does = r, ![c].left = r.ids, ![c].at = "statement"]
    <3> DEFINE new == [a EXCEPT !.does = r, !.left = r.ids, !.at = "statement"]
    <3>1. a.at = "idle" /\ a.answer = "none" /\ a.met = NoRow
      BY <1>1, <1>4 DEF CallsWrite, WasTold
    <3>2. r.ids \in SUBSET Keys /\ (r.expects => r.op = "update")
      BY <2>3, DocumentsAssumption DEF Asked, MayNot
    <3>3. /\ new \in DocumentCall /\ new.at = "statement" /\ new.does = r /\ new.left = r.ids
          /\ new.seen = a.seen /\ new.met = NoRow /\ new.answer = "none"
      BY <1>1, <3>1, <3>2 DEF DocumentCall
    <3>4. asking' = [asking EXCEPT ![c] = new]
      BY <1>1, <2>3 DEF DocumentsInv, DocumentCall
    <3> HIDE DEF new
    <3>5. Knows(new, stored) /\ WasTold(new, keeping.by)
      BY <1>1, <2>1, <3>1, <3>2, <3>3 DEF Knows, WasTold
    <3> QED BY <1>2, <3>3, <3>4, <3>5, CallMoves
  <2> QED BY <2>1, <2>2, <2>3
<1>5. CASE HooksAfter(c)
  <2>1. CASE Ends(c, "hookFailed")
    BY <1>2, <2>1, EndsMoves DEF Answers
  <2>2. CASE asking' = [asking EXCEPT ![c].at = "ended"]
    <3> DEFINE new == [a EXCEPT !.at = "ended"]
    <3>1. /\ new \in DocumentCall /\ new.at = "ended" /\ new.does = a.does /\ new.seen = a.seen
          /\ new.met = a.met /\ new.answer = a.answer
      BY <1>1 DEF DocumentCall
    <3>2. asking' = [asking EXCEPT ![c] = new]
      BY <2>2
    <3> HIDE DEF new
    <3>3. Knows(new, stored) /\ WasTold(new, keeping.by)
      BY <1>1, <3>1 DEF Knows, WasTold
    <3> QED BY <1>2, <3>1, <3>2, <3>3, CallMoves
  <2> QED BY <1>5, <2>1, <2>2 DEF HooksAfter
<1> QED BY <1>3, <1>4, <1>5

\* A call that is told of the document it met.
LEMMA ToldMoves ==
  ASSUME DocumentsInv, NEW c \in Writers, NEW i \in Keys,
         NEW answer \in {"written", "missing", "moved"}, Told(c, stored[i], answer),
         answer = "written" /\ asking[c].does.expects =>
           asking[c].seen # NoRow /\ stored[i].version = asking[c].seen.version,
         answer = "moved" =>
           \/ <<stored[i].born, stored[i].version>> # <<asking[c].seen.born, asking[c].seen.version>>
           \/ keeping.by = "mongo" /\ stored[i].deleted /\ asking[c].seen.deleted,
         UNCHANGED <<keeping, stored>>
  PROVE  DocumentsInv'
<1> DEFINE a == asking[c]
           new == [a EXCEPT !.at = "ended", !.left = {}, !.met = stored[i], !.answer = answer]
<1>1. a \in DocumentCall /\ WasTold(a, keeping.by)
  BY DEF DocumentsInv
<1>2. Counted(stored[i]) /\ stored[i] \in DocumentRow
  BY DEF DocumentsInv, Counted
<1>3. /\ new \in DocumentCall /\ new.at = "ended" /\ new.does = a.does /\ new.seen = a.seen
      /\ new.met = stored[i] /\ new.answer = answer
  BY <1>1, <1>2 DEF DocumentCall, Answers
<1>4. asking' = [asking EXCEPT ![c] = new]
  BY <1>1 DEF Told, DocumentsInv, DocumentCall
<1> HIDE DEF new
<1>5. Knows(new, stored)
  BY <1>3 DEF Knows
<1>6. WasTold(new, keeping.by)
  BY <1>1, <1>2, <1>3 DEF WasTold
<1> QED BY <1>3, <1>4, <1>5, <1>6, CallMoves

\* A call that finds no row, or reads again, moves no row.
LEMMA FindingNothingKeeps ==
  ASSUME DocumentsInv, NEW c \in Writers, FindsNothing(c) \/ ReadAgain(c) \/ ReadsOnly(c)
  PROVE  DocumentsInv'
<1> DEFINE a == asking[c]
<1>1. a \in DocumentCall /\ Knows(a, stored) /\ WasTold(a, keeping.by) /\ keeping.by \in {"mongo", "pg"}
  BY DEF DocumentsInv
<1>2. UNCHANGED <<keeping, stored>>
  BY DEF FindsNothing, ReadAgain, ReadsOnly
<1>3. CASE FindsNothing(c)
  <2>1. CASE Ends(c, "conflict") \/ Ends(c, "missing")
    BY <1>2, <2>1, EndsMoves DEF Answers
  <2>2. CASE a.does.expects /\ asking' = [asking EXCEPT ![c].at = "reread"]
    <3> DEFINE new == [a EXCEPT !.at = "reread"]
    <3>1. a.at = "statement" /\ a.does \in Asks /\ a.does.op = "update" /\ a.seen # NoRow
      BY <1>1, <1>3, <2>2 DEF FindsNothing, Knows
    <3>2. PICK i \in Keys : a.left = {i} /\ Since(a.seen, stored[i])
      BY <1>1, <2>2, <3>1 DEF Knows
    <3>3. ~(Live(stored[i]) /\ stored[i].version = a.seen.version)
      <4>1. ~Finds(c, stored[i])
        BY <1>3, <3>2 DEF FindsNothing
      <4> QED BY <2>2, <3>1, <4>1 DEF Finds, AtExpected
    <3>4. Counted(a.seen) /\ a.seen \in DocumentRow /\ Counted(stored[i]) /\ stored[i] \in DocumentRow
      BY <1>1, <3>1 DEF WasTold, Counted, DocumentsInv
    <3>5. Lost(a.seen, stored[i])
      BY <3>2, <3>3, <3>4 DEF Since, Lost, Live, DocumentRow
    <3>6. /\ new \in DocumentCall /\ new.at = "reread" /\ new.does = a.does /\ new.seen = a.seen
          /\ new.met = NoRow /\ new.answer = "none" /\ new.left = a.left
      BY <1>1, <3>1 DEF DocumentCall, Knows
    <3>7. asking' = [asking EXCEPT ![c] = new]
      BY <2>2
    <3> HIDE DEF new
    <3>8. Knows(new, stored) /\ WasTold(new, keeping.by)
      BY <1>1, <2>2, <3>1, <3>2, <3>5, <3>6 DEF Knows, WasTold
    <3> QED BY <1>2, <3>6, <3>7, <3>8, CallMoves
  <2> QED BY <1>3, <2>1, <2>2 DEF FindsNothing
<1>4. CASE ReadAgain(c)
  <2>1. a.at = "reread" /\ a.does \in Asks /\ a.does.expects /\ a.seen # NoRow
    BY <1>1, <1>4 DEF ReadAgain, Knows
  <2>2. PICK i \in Keys : a.left = {i} /\ Lost(a.seen, stored[i])
    BY <1>1, <2>1 DEF Knows
  <2>3. Told(c, stored[i], IF SaysMoved(c, stored[i]) THEN "moved" ELSE "missing")
    BY <1>4, <2>2 DEF ReadAgain
  <2>4. Counted(a.seen) /\ a.seen \in DocumentRow /\ stored[i] \in DocumentRow
    BY <1>1, <2>1 DEF WasTold, Counted, DocumentsInv
  <2>5. ASSUME SaysMoved(c, stored[i])
        PROVE  \/ <<stored[i].born, stored[i].version>> # <<a.seen.born, a.seen.version>>
               \/ keeping.by = "mongo" /\ stored[i].deleted /\ a.seen.deleted
    <3>1. CASE keeping.by = "pg"
      BY <2>5, <3>1 DEF SaysMoved, AtExpected
    <3>2. CASE keeping.by = "mongo"
      BY <2>2, <2>4, <2>5, <3>2 DEF SaysMoved, Lost, DocumentRow
    <3> QED BY <1>1, <3>1, <3>2
  <2>6. CASE SaysMoved(c, stored[i])
    BY <1>2, <2>3, <2>5, <2>6, ToldMoves
  <2>7. CASE ~SaysMoved(c, stored[i])
    BY <1>2, <2>3, <2>7, ToldMoves
  <2> QED BY <2>6, <2>7
<1>5. CASE ReadsOnly(c)
  <2>1. PICK i \in a.left :
       Told(c, stored[i], CASE ~Live(stored[i]) -> "missing"
                            [] Live(stored[i]) /\ ~AtExpected(c, stored[i]) -> "moved"
                            [] OTHER -> "written")
    BY <1>5 DEF ReadsOnly
  <2>2. i \in Keys
    BY <1>1, <2>1 DEF DocumentCall
  <2>3. a.at = "statement" /\ (a.does.expects => a.seen # NoRow)
    BY <1>1, <1>5 DEF ReadsOnly, Knows
  <2>4. CASE ~Live(stored[i])
    BY <1>2, <2>1, <2>2, <2>4, ToldMoves
  <2>5. CASE Live(stored[i]) /\ ~AtExpected(c, stored[i])
    BY <1>2, <2>1, <2>2, <2>5, ToldMoves DEF AtExpected
  <2>6. CASE Live(stored[i]) /\ AtExpected(c, stored[i])
    BY <1>2, <2>1, <2>2, <2>3, <2>6, ToldMoves DEF AtExpected
  <2> QED BY <2>4, <2>5, <2>6
<1> QED BY <1>3, <1>4, <1>5

\* A statement that writes: its documents move on under the other calls.
LEMMA WritingStatementKeeps ==
  ASSUME DocumentsInv, NEW c \in Writers, WriteStatement(c)
  PROVE  DocumentsInv'
<1> DEFINE a == asking[c]
           r == a.does
<1>1. a \in DocumentCall /\ Knows(a, stored) /\ WasTold(a, keeping.by)
  BY DEF DocumentsInv
<1>2. /\ a.at = "statement" /\ r \in Asks /\ UNCHANGED keeping
      /\ r.expects => r.op = "update" /\ a.seen # NoRow
  BY <1>1 DEF WriteStatement, Knows
<1>3. PICK some \in AtOnce(a.left) :
       LET found == {i \in some : Finds(c, stored[i])}
           left == a.left \ some
       IN  /\ found = some \/ Many(r)
           /\ stored' = [i \in Keys |-> IF i \in found THEN Becomes(r, stored[i]) ELSE stored[i]]
           /\ asking' = [asking EXCEPT
                ![c].left = left,
                ![c].met = IF r.expects THEN stored[CHOOSE i \in some : TRUE] ELSE NoRow,
                ![c].at = IF left = {} THEN AfterIt(r) ELSE "statement",
                ![c].answer = IF left = {} THEN "written" ELSE "none"]
  BY DEF WriteStatement
<1> DEFINE found == {i \in some : Finds(c, stored[i])}
           left == a.left \ some
           met == IF r.expects THEN stored[CHOOSE i \in some : TRUE] ELSE NoRow
           at == IF left = {} THEN AfterIt(r) ELSE "statement"
           answer == IF left = {} THEN "written" ELSE "none"
           new == [a EXCEPT !.left = left, !.met = met, !.at = at, !.answer = answer]
<1>4. \A i \in Keys : Counted(stored[i])
  BY DEF DocumentsInv
<1>5. \A i \in Keys : stored'[i] = stored[i] \/ stored'[i] \in Successors(stored[i])
  <2> SUFFICES ASSUME NEW i \in Keys, i \in found
               PROVE  stored'[i] \in Successors(stored[i])
    BY <1>3
  <2>1. stored'[i] = Becomes(r, stored[i])
    BY <1>3
  <2>2. /\ r.op \in {"create", "createMany"} => ~stored[i].there
        /\ r.op \notin {"create", "createMany", "upsert"} => stored[i].there
    <3>1. Finds(c, stored[i])
      OBVIOUS
    <3> QED BY <3>1 DEF Finds, Live
  <2> QED BY <1>2, <2>1, <2>2, BecomesSuccessor
<1>6. ASSUME NEW i \in Keys
      PROVE  /\ Counted(stored'[i])
             /\ \A seen \in DocumentRow : Since(seen, stored[i]) => Since(seen, stored'[i])
             /\ \A seen \in DocumentRow : Lost(seen, stored[i]) => Lost(seen, stored'[i])
  <2>1. CASE stored'[i] = stored[i]
    BY <1>4, <2>1
  <2>2. CASE stored'[i] \in Successors(stored[i])
    BY <1>4, <2>2, SuccessorsMoveOn
  <2> QED BY <1>5, <2>1, <2>2
<1>7. ASSUME r.expects
      PROVE  /\ left = {} /\ met \in DocumentRow /\ Counted(met) /\ met.version = a.seen.version
  <2>1. PICK i \in Keys : a.left = {i}
    BY <1>1, <1>2, <1>7 DEF Knows
  <2>2. some = {i}
    BY <2>1 DEF AtOnce
  <2>3. met = stored[i]
    BY <1>7, <2>2
  <2>4. Finds(c, stored[i])
    <3>1. ~Many(r)
      BY <1>2, <1>7 DEF Many
    <3> QED BY <1>3, <2>2, <3>1
  <2>5. stored[i].version = a.seen.version
    BY <1>2, <1>7, <2>4 DEF Finds, AtExpected
  <2> QED BY <1>4, <2>1, <2>2, <2>3, <2>5 DEF Counted
<1>8. asking' = [asking EXCEPT ![c] = new]
  <2>1. asking' = [asking EXCEPT ![c].left = left, ![c].met = met, ![c].at = at, ![c].answer = answer]
    BY <1>3
  <2>2. c \in DOMAIN asking
    BY DEF DocumentsInv
  <2> HIDE DEF left, met, at, answer
  <2> QED BY <1>1, <2>1, <2>2 DEF DocumentCall
<1>9. /\ left \in SUBSET Keys /\ met \in DocumentRow \cup {NoRow} /\ answer \in Answers
      /\ at \in {"statement", "after", "ended"} /\ (at = "statement" => left # {} /\ answer = "none")
  BY <1>1, <1>7 DEF DocumentCall, Answers, AfterIt
<1>10. /\ ~r.expects => met = NoRow
       /\ answer # "moved"
  OBVIOUS
<1> HIDE DEF left, met, at, answer
<1>11. /\ new \in DocumentCall /\ new.at = at /\ new.does = r /\ new.seen = a.seen
       /\ new.met = met /\ new.answer = answer /\ new.left = left
  BY <1>1, <1>9 DEF DocumentCall
<1> HIDE DEF new
<1>12. Knows(new, stored')
  BY <1>2, <1>7, <1>9, <1>10, <1>11 DEF Knows
<1>13. WasTold(new, keeping.by)
  BY <1>1, <1>2, <1>7, <1>9, <1>10, <1>11 DEF WasTold
<1>14. ASSUME NEW d \in Writers PROVE Knows(asking'[d], stored') /\ WasTold(asking'[d], keeping'.by)
  <2>1. CASE d = c
    <3>1. asking'[d] = new
      BY <1>8, <2>1 DEF DocumentsInv
    <3> QED BY <1>2, <1>12, <1>13, <3>1
  <2>2. CASE d # c
    <3>1. asking'[d] = asking[d] /\ asking[d] \in DocumentCall
      BY <1>8, <2>2 DEF DocumentsInv
    <3>2. Knows(asking[d], stored) /\ WasTold(asking[d], keeping.by)
      BY DEF DocumentsInv
    <3>3. asking[d].seen # NoRow => asking[d].seen \in DocumentRow
      BY <3>1 DEF DocumentCall
    <3>4. Knows(asking[d], stored')
      BY <1>6, <3>2, <3>3 DEF Knows
    <3> QED BY <1>2, <3>1, <3>2, <3>4
  <2> QED BY <2>1, <2>2
<1>15. asking' \in [Writers -> DocumentCall]
  BY <1>8, <1>11 DEF DocumentsInv
<1>16. DOMAIN stored' = Keys /\ stored' = [i \in Keys |-> stored'[i]]
  BY <1>3
<1> QED BY <1>2, <1>6, <1>14, <1>15, <1>16 DEF DocumentsInv

\* An update at a version overwrites no audited write, and is told that the
\* document moved only where it did (update.ts, upsert.ts, repository.ts).
THEOREM LockTellsHolds == DocumentsSpec => []LockTells
<1>1. DocumentsInv /\ [DocumentsNext]_documentVars => DocumentsInv'
  <2> SUFFICES ASSUME DocumentsInv, [DocumentsNext]_documentVars PROVE DocumentsInv'
    OBVIOUS
  <2>1. CASE UNCHANGED documentVars
    BY <2>1 DEF documentVars, DocumentsInv
  <2> QED BY <2>1, ReadsAndCallsKeep, FindingNothingKeeps, WritingStatementKeeps DEF DocumentsNext
<1>2. DocumentsInv => LockTells
  BY DEF DocumentsInv, WasTold, Counted, LockTells
<1> QED BY <1>1, <1>2, DocumentsStart, PTL DEF DocumentsSpec

(*****************************************************************************)
(* Index rebuilds                                                            *)
(*****************************************************************************)

RebuildPhases ==
  {"over", "looking", "leftover", "leftover's deletion", "creating", "creation", "setting",
   "settings", "filling", "settling", "live", "swap", "sending", "swapping", "swapped",
   "previous' deletion", "discarding", "discard"}

Tolds == {"nothing", "the failure", "unknown", "as it was", "deleted", "done"}

IndexType == [has : SUBSET ((0 .. MaxRebuilds) \X Batches), set : BOOLEAN]

TaskType ==
  [kind : {"create", "delete", "settings", "add", "swap", "rename"}, uid : Uids,
   of : SUBSET ((1 .. MaxRebuilds) \X Batches),
   status : {"enqueued", "succeeded", "failed", "exists", "missing"}]

RunType ==
  [run : 0 .. MaxRebuilds, at : RebuildPhases, task : Nat, since : Nat,
   created : BOOLEAN, stop : {"raw", "creating", "filling", "unknown"}]

\* Types.
RebuildTyped ==
  /\ indexes \in [Uids -> IndexType \cup {NoIndex}]
  /\ tasks \in Seq(TaskType) /\ served \in 0 .. Len(tasks)
  /\ rebuild \in RunType /\ rebuild.task \in 0 .. Len(tasks) /\ rebuild.since \in 0 .. Len(tasks)
  /\ told \in [1 .. MaxRebuilds -> Tolds] /\ plain \in BOOLEAN
  /\ filled \in [0 .. MaxRebuilds -> SUBSET Batches] /\ late \in SUBSET (1 .. MaxRebuilds)
  /\ \A i \in 1 .. Len(tasks) : tasks[i].status = "enqueued" <=> i > served

IsSwap(t) == t.kind \in {"swap", "rename"}

\* Tasks are about the next index, but for swaps; an addition is of one run.
TasksShaped == \A i \in 1 .. Len(tasks) :
  /\ tasks[i].uid = "live" <=> IsSwap(tasks[i])
  /\ tasks[i].kind # "add" => tasks[i].of = {}

\* Where a stop is told from.
StopRight ==
  /\ rebuild.at \in {"looking", "leftover", "leftover's deletion", "swapped", "previous' deletion"}
       => rebuild.stop = "raw"
  /\ rebuild.at \in {"sending", "swapping"} => rebuild.stop = "unknown"
  /\ rebuild.at \in {"creating", "creation", "setting", "settings"} => rebuild.stop = "creating"
  /\ rebuild.at \in {"filling", "settling", "live", "swap"} => rebuild.stop = "filling"

\* The run at work, and those to come, were told nothing; they filled nothing yet.
RunsAhead ==
  /\ \A r \in 1 .. MaxRebuilds : r > rebuild.run \/ (r = rebuild.run /\ rebuild.at # "over") => told[r] = "nothing"
  /\ \A r \in 1 .. MaxRebuilds : r > rebuild.run => filled[r] = {}
  /\ rebuild.at \in {"looking", "leftover", "leftover's deletion", "creating", "creation", "setting", "settings"}
       => filled[rebuild.run] = {}
  /\ rebuild.run = 0 => rebuild.at = "over"
  /\ \A r \in late : r <= rebuild.run

\* Documents are of runs that began, and tasks add what their run filled.
DocsOfRuns ==
  /\ \A uid \in Uids : indexes[uid] # NoIndex => \A d \in indexes[uid].has : d[1] <= rebuild.run /\ d[2] \in filled[d[1]]
  /\ \A i \in 1 .. Len(tasks) : \A d \in tasks[i].of : d[1] <= rebuild.run /\ d[2] \in filled[d[1]]

Answered == rebuild.task \in 1 .. served

\* The next index of the run at work is the live one.
InPlace ==
  \/ rebuild.at \in {"swapped", "previous' deletion"}
  \/ rebuild.at = "swapping" /\ Answered /\ Awaited = "succeeded"

\* What the run at work added is live, or never will be, or comes with a swap that
\* nobody waits for.
Landed == rebuild.at = "over" \/ InPlace

\* What is live was swapped in whole.
LiveSound ==
  /\ indexes["live"] # NoIndex =>
      /\ \E r \in 0 .. rebuild.run :
           /\ Rebuilt(r, indexes["live"]) /\ ~AsItWas(r)
           /\ r = rebuild.run => Landed
           /\ InPlace => r = rebuild.run
           /\ \A q \in 1 .. MaxRebuilds : told[q] = "done" => q <= r
      /\ ~Landed => \A d \in indexes["live"].has : d[1] < rebuild.run
  /\ indexes["live"] = NoIndex => ~InPlace /\ \A q \in 1 .. MaxRebuilds : told[q] # "done"

\* A swap in the queue comes next, and what it swaps in is whole; nobody touches
\* the next index before.
SwapsIn(i) ==
  /\ i = served + 1
  /\ \A j \in i + 1 .. Len(tasks) : ~IsSwap(tasks[j])
  /\ rebuild.at \in {"swapping", "over", "looking", "leftover", "leftover's deletion", "creating",
                     "creation", "discarding", "discard"}
  /\ rebuild.at = "swapping" => rebuild.task = i
  /\ rebuild.at \in {"leftover's deletion", "creation", "discard"} => rebuild.task > i
  /\ indexes["next"] # NoIndex =>
       /\ rebuild.at \in {"swapping", "over", "looking", "leftover", "leftover's deletion"}
       /\ \E r \in 1 .. rebuild.run :
            /\ Rebuilt(r, indexes["next"]) /\ ~AsItWas(r)
            /\ rebuild.at = "swapping" => r = rebuild.run
            /\ r = rebuild.run => rebuild.at \in {"swapping", "over"}
            /\ \A d \in indexes["next"].has : d[1] <= r
            /\ \A q \in 1 .. MaxRebuilds : told[q] = "done" => q <= r

SwapSound == \A i \in 1 .. Len(tasks) : i > served /\ IsSwap(tasks[i]) => SwapsIn(i)

\* What is waited for was sent.
AwaitedRight ==
  /\ rebuild.at \in {"leftover's deletion", "creation", "settings", "discard", "previous' deletion", "swapping"} => rebuild.task = Len(tasks) /\ rebuild.task > 0
  /\ rebuild.at \in {"leftover's deletion", "discard", "previous' deletion"} => tasks[rebuild.task].kind = "delete"
  /\ rebuild.at \in {"leftover's deletion", "discard"} /\ served = Len(tasks)
      /\ tasks[rebuild.task].status \in {"succeeded", "missing"} => indexes["next"] = NoIndex
  /\ rebuild.at = "swapping" => IsSwap(tasks[rebuild.task])

\* What the run adds is in the queue, or failed, or there.
OwnAdd(i) == tasks[i].kind = "add" /\ tasks[i].uid = "next" /\ tasks[i].of \subseteq AllOf(rebuild.run)

Filling == rebuild.at \in {"filling", "settling"} =>
  \A b \in filled[rebuild.run] : \E i \in 1 .. Len(tasks) :
     /\ i > rebuild.since /\ tasks[i].of = {<<rebuild.run, b>>}
     /\ \A j \in i .. Len(tasks) : OwnAdd(j)
     /\ i <= served /\ tasks[i].status = "succeeded" =>
          indexes["next"] # NoIndex /\ <<rebuild.run, b>> \in indexes["next"].has

Filled == rebuild.at \in {"live", "swap", "sending"} =>
  /\ served = Len(tasks)
  /\ indexes["next"] = NoIndex \/ Rebuilt(rebuild.run, indexes["next"])

\* Alone in the queue, a run knows what the next index is.
NextAlone ==
  LET next == indexes["next"]
      idle == served = Len(tasks)
      last == tasks[Len(tasks)]
      at == rebuild.at
  IN rebuild.run \notin late =>
  /\ at \in {"looking", "leftover"} => idle
  /\ at \in {"creating", "leftover's deletion", "creation", "settings"} => served >= Len(tasks) - 1
  /\ at = "creating" => idle /\ next = NoIndex
  /\ at = "creation" =>
       /\ last.kind = "create"
       /\ idle => last.status \in {"succeeded", "failed"} /\ (last.status = "succeeded" => next = Index({}, plain))
       /\ ~idle => next = NoIndex
  /\ at = "setting" => idle /\ next = Index({}, plain)
  /\ at = "settings" =>
       /\ last.kind = "settings"
       /\ ~idle => next = Index({}, plain)
       /\ idle /\ last.status = "succeeded" => next = Index({}, TRUE)
  /\ at \in {"filling", "settling"} =>
       /\ next # NoIndex /\ next.set /\ next.has \subseteq AllOf(rebuild.run)
       /\ \A i \in served + 1 .. Len(tasks) : OwnAdd(i)
  /\ at \in {"live", "swap", "sending"} => next # NoIndex

\* Once a caller is told that what its run added was deleted, it is nowhere.
Deleted == \A r \in 1 .. MaxRebuilds : told[r] = "deleted" =>
  /\ \A uid \in Uids : indexes[uid] # NoIndex => \A d \in indexes[uid].has : d[1] # r
  /\ \A i \in served + 1 .. Len(tasks) : \A d \in tasks[i].of : d[1] # r

RebuildInv ==
  /\ RebuildTyped /\ TasksShaped /\ StopRight /\ RunsAhead /\ DocsOfRuns /\ LiveSound /\ SwapSound
  /\ AwaitedRight /\ Filling /\ Filled /\ NextAlone /\ Deleted

RunStep ==
  \/ Looks \/ DeletesLeftover \/ Creates \/ SetsUp \/ Fills \/ SettlesFill \/ Swaps \/ SendsSwap
  \/ DeletesPrevious \/ Discards \/ Waited \/ NotAwaited \/ Dies

\* What a run asks the server for, where it stands.
AskedAt(at, t) ==
  /\ t \in TaskType /\ t.status = "enqueued"
  /\ \/ at \in {"leftover", "swapped", "discarding"} /\ t.kind = "delete" /\ t.uid = "next" /\ t.of = {}
     \/ at = "creating" /\ t.kind = "create" /\ t.uid = "next" /\ t.of = {}
     \/ at = "setting" /\ t.kind = "settings" /\ t.uid = "next" /\ t.of = {}
     \/ at = "filling" /\ t.kind = "add" /\ t.uid = "next" /\ t.of \in SUBSET ({rebuild.run} \X filled'[rebuild.run])
     \/ at = "sending" /\ IsSwap(t) /\ t.uid = "live" /\ t.of = {}

RunAsks == \E t \in TaskType : tasks' = Append(tasks, t) /\ AskedAt(rebuild.at, t)

\* What the run adds, whether its request is lost or not.
Adds ==
  /\ rebuild.at = "filling"
  /\ \E b \in Batches \ filled[rebuild.run] :
       /\ filled' = [filled EXCEPT ![rebuild.run] = @ \cup {b}]
       /\ \/ tasks' = tasks /\ rebuild'.at # "filling"
          \/ \E t \in TaskType : tasks' = Append(tasks, t) /\ AskedAt("filling", t) /\ t.of = {<<rebuild.run, b>>}

\* How a caller comes to be told something.
ToldAt(what) ==
  /\ what = "as it was" => rebuild.at \in {"discarding", "discard"}
  /\ what = "deleted" => rebuild.at = "discard" /\ Answered /\ Awaited \in {"succeeded", "missing"}
  /\ what = "done" => /\ rebuild.at \in {"swapping", "previous' deletion"}
                      /\ rebuild.at = "swapping" => Answered /\ Awaited = "succeeded"

RunEnds == /\ rebuild'.at = "over"
        /\ \E what \in Tolds : told' = [told EXCEPT ![rebuild.run] = what] /\ ToldAt(what)

Discarding == /\ rebuild'.at = "discarding" /\ told' = told
              /\ \/ rebuild.stop \in {"creating", "filling"}
                 \/ rebuild.at = "swapping" /\ Answered /\ Awaited # "succeeded"

From(at, to) == rebuild.at = at /\ rebuild'.at = to

\* How a run goes on, without a request and with one.
RunGoesOn ==
  /\ told' = told /\ tasks' = tasks /\ filled' = filled
  /\ rebuild.at = "filling" => rebuild'.since = rebuild.since
  /\ \/ From("looking", "leftover")
     \/ From("looking", "creating") /\ indexes["next"] = NoIndex
     \/ From("leftover's deletion", "creating") /\ Answered /\ Awaited = "succeeded"
     \/ From("creating", "setting") /\ indexes["next"] # NoIndex
     \/ From("creation", "setting") /\ Answered /\ Awaited \in {"succeeded", "exists"}
     \/ From("setting", "filling") /\ indexes["next"] # NoIndex /\ indexes["next"].set
     \/ From("settings", "filling") /\ Answered /\ Awaited = "succeeded"
     \/ From("filling", "settling")
     \/ From("settling", "live") /\ Settled /\ \A i \in served + 1 .. Len(tasks) : tasks[i].uid # "next"
     \/ From("live", "swap") \/ From("swap", "sending")
     \/ From("swapping", "swapped") /\ Answered /\ Awaited = "succeeded"

Waits ==
  /\ told' = told /\ RunAsks /\ rebuild'.task = Len(tasks) + 1
  /\ \/ /\ \/ From("leftover", "leftover's deletion") \/ From("creating", "creation")
           \/ From("setting", "settings") \/ From("sending", "swapping")
           \/ From("swapped", "previous' deletion") \/ From("discarding", "discard")
        /\ filled' = filled
     \/ From("filling", "filling") /\ rebuild'.since = rebuild.since /\ Adds

RebuildMoves ==
  /\ rebuild.at # "over" /\ indexes' = indexes /\ served' = served /\ plain' = plain /\ late' = late
  /\ rebuild' \in RunType /\ rebuild'.run = rebuild.run
  /\ rebuild'.task \in 0 .. Len(tasks') /\ rebuild'.since \in 0 .. Len(tasks')
  /\ tasks' = tasks \/ RunAsks
  /\ filled' = filled \/ Adds
  /\ RunEnds \/ Discarding \/ RunGoesOn \/ Waits

\* A task, field by field.
LEMMA TaskFacts ==
  ASSUME NEW kind \in {"create", "delete", "settings", "add", "swap", "rename"}, NEW uid \in Uids,
         NEW of \in SUBSET ((1 .. MaxRebuilds) \X Batches)
  PROVE  LET t == Task(kind, uid, of)
         IN  t \in TaskType /\ t.kind = kind /\ t.uid = uid /\ t.of = of /\ t.status = "enqueued"
BY DEF Task, TaskType

\* An index, field by field.
LEMMA IndexFacts ==
  ASSUME NEW has \in SUBSET ((0 .. MaxRebuilds) \X Batches), NEW set \in BOOLEAN
  PROVE  LET i == Index(has, set)
         IN  i \in IndexType /\ i # NoIndex /\ i.has = has /\ i.set = set
BY RebuildAssumption DEF Index, IndexType

\* A run, as it goes to a stage, and as it is over.
LEMMA RunFacts ==
  ASSUME rebuild \in RunType
  PROVE  /\ \A at \in RebuildPhases : LET r == [rebuild EXCEPT !.at = at]
              IN r \in RunType /\ r.at = at /\ r.run = rebuild.run /\ r.task = rebuild.task
                 /\ r.since = rebuild.since /\ r.stop = rebuild.stop
         /\ LET r == Before(rebuild.run)
            IN r \in RunType /\ r.at = "over" /\ r.run = rebuild.run /\ r.task = 0 /\ r.since = 0 /\ r.stop = "raw"
BY DEF RunType, RebuildPhases, Before

\* What stands of a run, whatever it does.
Stays ==
  /\ rebuild' \in RunType /\ rebuild'.run = rebuild.run
  /\ rebuild'.task \in 0 .. Len(tasks') /\ rebuild'.since \in 0 .. Len(tasks')

\* What holds of a run at work.
LEMMA RunAtWork ==
  ASSUME RebuildTyped, RunsAhead, rebuild.at # "over"
  PROVE  /\ rebuild \in RunType /\ rebuild.run \in 1 .. MaxRebuilds /\ Len(tasks) \in Nat
         /\ tasks \in Seq(TaskType) /\ served \in 0 .. Len(tasks)
         /\ rebuild.task \in 0 .. Len(tasks) /\ rebuild.since \in 0 .. Len(tasks)
         /\ filled[rebuild.run] \in SUBSET Batches
         /\ told \in [1 .. MaxRebuilds -> Tolds]
<1>1. rebuild.run \in 0 .. MaxRebuilds /\ rebuild.run # 0
  BY DEF RebuildTyped, RunType, RunsAhead
<1> QED BY <1>1, RebuildAssumption DEF RebuildTyped

\* A request that took or did not take leaves a task more, or none.
LEMMA OneMore ==
  ASSUME RebuildTyped, RunsAhead, rebuild.at # "over", NEW t \in TaskType, tasks' \in {tasks, Append(tasks, t)}
  PROVE  Len(tasks') \in Nat /\ Len(tasks') >= Len(tasks) /\ tasks' \in Seq(TaskType)
BY RunAtWork

\* The end of a run.
LEMMA Telling ==
  ASSUME RebuildTyped, RunsAhead, rebuild.at # "over", Len(tasks') \in Nat,
         NEW what \in Tolds, Tells(what), ToldAt(what)
  PROVE  Stays /\ RunEnds
<1>1. rebuild' = Before(rebuild.run) /\ told' = [told EXCEPT ![rebuild.run] = what]
  BY DEF Tells
<1>2. Stays
  BY <1>1, RunAtWork, RunFacts DEF Stays
<1>3. RunEnds
  BY <1>1, RunAtWork, RunFacts DEF RunEnds
<1> QED BY <1>2, <1>3

\* A failure.
LEMMA Throwing ==
  ASSUME RebuildTyped, RunsAhead, rebuild.at # "over", Len(tasks') \in Nat, Len(tasks') >= Len(tasks), Throws
  PROVE  Stays /\ (RunEnds \/ Discarding) /\ rebuild'.at # "filling"
<1>1. CASE rebuild.stop = "raw"
  <2>1. Tells("the failure") /\ "the failure" \in Tolds /\ ToldAt("the failure")
    BY <1>1 DEF Throws, Tells, Tolds, ToldAt
  <2> QED BY <2>1, Telling DEF RunEnds
<1>2. CASE rebuild.stop = "unknown"
  <2>1. Tells("unknown") /\ "unknown" \in Tolds /\ ToldAt("unknown")
    BY <1>2 DEF Throws, Tells, Tolds, ToldAt
  <2> QED BY <2>1, Telling DEF RunEnds
<1>3. CASE rebuild.stop \notin {"raw", "unknown"}
  <2>1. rebuild' = [rebuild EXCEPT !.at = "discarding"] /\ told' = told
    BY <1>3 DEF Throws, Tells
  <2>2. "discarding" \in RebuildPhases /\ rebuild.stop \in {"creating", "filling"}
    BY <1>3, RunAtWork DEF RunType, RebuildPhases
  <2>3. Stays /\ rebuild'.at = "discarding"
    BY <2>1, <2>2, RunAtWork, RunFacts DEF Stays
  <2> QED BY <2>1, <2>2, <2>3 DEF Discarding
<1> QED BY <1>1, <1>2, <1>3

\* A stage that follows.
LEMMA RunGoing ==
  ASSUME RebuildTyped, RunsAhead, rebuild.at # "over", Len(tasks') \in Nat, Len(tasks') >= Len(tasks),
         NEW to \in RebuildPhases, GoesTo(to)
  PROVE  Stays /\ rebuild'.at = to /\ rebuild'.since = rebuild.since /\ told' = told /\ rebuild'.task = rebuild.task
<1>1. rebuild' = [rebuild EXCEPT !.at = to] /\ told' = told
  BY DEF GoesTo
<1> QED BY <1>1, RunAtWork, RunFacts DEF Stays

\* A request.
LEMMA Sending ==
  ASSUME RebuildTyped, RunsAhead, rebuild.at # "over", NEW t \in TaskType, AskedAt(rebuild.at, t),
         NEW to \in RebuildPhases, Sends(t, [rebuild EXCEPT !.at = to])
  PROVE  /\ Stays /\ (tasks' = tasks \/ RunAsks)
         /\ \/ tasks' \in {tasks, Append(tasks, t)} /\ (RunEnds \/ Discarding) /\ rebuild'.at # "filling"
            \/ /\ tasks' = Append(tasks, t) /\ RunAsks /\ told' = told
               /\ rebuild'.at = to /\ rebuild'.since = rebuild.since /\ rebuild'.task = Len(tasks) + 1
<1> DEFINE then == [rebuild EXCEPT !.at = to]
<1>0. tasks' \in {tasks, Append(tasks, t)}
  BY DEF Sends
<1>1. Len(tasks') \in Nat /\ Len(tasks') >= Len(tasks) /\ (tasks' = tasks \/ RunAsks)
  BY <1>0, OneMore DEF RunAsks
<1>2. CASE Throws
  BY <1>0, <1>1, <1>2, Throwing
<1>3. CASE ~Throws
  <2>1. tasks' = Append(tasks, t) /\ rebuild' = [then EXCEPT !.task = Len(tasks) + 1] /\ told' = told
    BY <1>3 DEF Sends
  <2>2. then \in RunType /\ then.at = to /\ then.run = rebuild.run /\ then.since = rebuild.since
    BY RunAtWork, RunFacts
  <2>3. Len(tasks) + 1 \in Nat /\ Len(tasks') = Len(tasks) + 1
    BY <2>1, RunAtWork
  <2> HIDE DEF then
  <2>4. /\ rebuild' \in RunType /\ rebuild'.at = to /\ rebuild'.run = rebuild.run
        /\ rebuild'.since = rebuild.since /\ rebuild'.task = Len(tasks) + 1
    BY <2>1, <2>2, <2>3 DEF RunType
  <2>5. RunAsks
    BY <2>1 DEF RunAsks
  <2> QED BY <2>1, <2>3, <2>4, <2>5, RunAtWork DEF Stays
<1> QED BY <1>2, <1>3

\* The tasks of a run, as it sends them.
LEMMA TasksSent ==
  /\ LET t == Task("delete", "next", {}) IN t \in TaskType /\ \A at \in {"leftover", "swapped", "discarding"} : AskedAt(at, t)
  /\ LET t == Task("create", "next", {}) IN t \in TaskType /\ AskedAt("creating", t)
  /\ LET t == Task("settings", "next", {}) IN t \in TaskType /\ AskedAt("setting", t)
  /\ LET t == Task("swap", "live", {}) IN t \in TaskType /\ AskedAt("sending", t)
  /\ LET t == Task("rename", "live", {}) IN t \in TaskType /\ AskedAt("sending", t)
<1>1. LET t == Task("delete", "next", {}) IN t \in TaskType /\ \A at \in {"leftover", "swapped", "discarding"} : AskedAt(at, t)
  BY TaskFacts DEF Uids, AskedAt
<1>2. LET t == Task("create", "next", {}) IN t \in TaskType /\ AskedAt("creating", t)
  BY TaskFacts DEF Uids, AskedAt
<1>3. LET t == Task("settings", "next", {}) IN t \in TaskType /\ AskedAt("setting", t)
  BY TaskFacts DEF Uids, AskedAt
<1>4. LET t == Task("swap", "live", {}) IN t \in TaskType /\ AskedAt("sending", t)
  BY TaskFacts DEF Uids, AskedAt, IsSwap
<1>5. LET t == Task("rename", "live", {}) IN t \in TaskType /\ AskedAt("sending", t)
  BY TaskFacts DEF Uids, AskedAt, IsSwap
<1> QED BY <1>1, <1>2, <1>3, <1>4, <1>5

\* The reads move a run, and add nothing.
LEMMA LooksMoves ==
  ASSUME RebuildTyped, RunsAhead, Looks
  PROVE  RebuildMoves
<1>0. UNCHANGED <<indexes, tasks, served, plain, filled, late>> /\ rebuild.at # "over"
  BY DEF Looks, Stage
<1>1. Len(tasks') \in Nat /\ Len(tasks') >= Len(tasks)
  BY <1>0, RunAtWork
<1>2. CASE Throws
  BY <1>0, <1>1, <1>2, Throwing DEF RebuildMoves, Stays
<1>3. ASSUME rebuild.at = "looking", indexes["next"] # NoIndex, GoesTo("leftover") PROVE RebuildMoves
  <2>1. "leftover" \in RebuildPhases
    BY DEF RebuildPhases
  <2> QED BY <1>0, <1>1, <1>3, <2>1, RunGoing DEF RebuildMoves, Stays, RunGoesOn, From
<1>4. ASSUME rebuild.at = "looking", indexes["next"] = NoIndex,
             rebuild' = [rebuild EXCEPT !.at = "creating", !.stop = "creating"], told' = told PROVE RebuildMoves
  <2>1. Stays /\ rebuild'.at = "creating"
    BY <1>0, <1>4, RunAtWork DEF Stays, RunType, RebuildPhases
  <2> QED BY <1>0, <1>4, <2>1 DEF RebuildMoves, Stays, RunGoesOn, From
<1>5. ASSUME rebuild.at = "creating", indexes["next"] # NoIndex, GoesTo("setting") PROVE RebuildMoves
  <2>1. "setting" \in RebuildPhases
    BY DEF RebuildPhases
  <2> QED BY <1>0, <1>1, <1>5, <2>1, RunGoing DEF RebuildMoves, Stays, RunGoesOn, From
<1>6. ASSUME rebuild.at = "live", told' = told,
             rebuild' = [rebuild EXCEPT !.at = "swap", !.created = indexes["live"] = NoIndex] PROVE RebuildMoves
  <2> DEFINE made == indexes["live"] = NoIndex
  <2>1. made \in BOOLEAN /\ rebuild' = [rebuild EXCEPT !.at = "swap", !.created = made]
    BY <1>6
  <2> HIDE DEF made
  <2>2. Stays /\ rebuild'.at = "swap"
    BY <1>0, <2>1, RunAtWork DEF Stays, RunType, RebuildPhases
  <2> QED BY <1>0, <1>6, <2>2 DEF RebuildMoves, Stays, RunGoesOn, From
<1> QED BY <1>2, <1>3, <1>4, <1>5, <1>6 DEF Looks, Stage

\* A request that is waited for moves a run.
LEMMA RequestMoves ==
  ASSUME RebuildTyped, RunsAhead, rebuild.at # "over", UNCHANGED <<indexes, served, plain, filled, late>>,
         NEW t \in TaskType, AskedAt(rebuild.at, t), NEW to \in RebuildPhases, Sends(t, [rebuild EXCEPT !.at = to]),
         <<rebuild.at, to>> \in {<<"leftover", "leftover's deletion">>, <<"creating", "creation">>,
            <<"setting", "settings">>, <<"sending", "swapping">>, <<"swapped", "previous' deletion">>}
  PROVE  RebuildMoves
<1>1. CASE RunEnds \/ Discarding
  BY <1>1, Sending DEF RebuildMoves, Stays
<1>2. CASE ~(RunEnds \/ Discarding)
  <2>1. tasks' = Append(tasks, t) /\ RunAsks /\ told' = told /\ rebuild'.at = to /\ rebuild'.task = Len(tasks) + 1 /\ Stays
    BY <1>2, Sending
  <2>2. Waits
    BY <2>1 DEF Waits, From
  <2> QED BY <2>1, <2>2 DEF RebuildMoves, Stays
<1> QED BY <1>1, <1>2

\* The requests that are waited for.
LEMMA RequestsMove ==
  ASSUME RebuildTyped, RunsAhead, DeletesLeftover \/ Creates \/ SendsSwap \/ DeletesPrevious
  PROVE  RebuildMoves
<1>0. UNCHANGED <<indexes, served, plain, filled, late>> /\ rebuild.at # "over"
  BY DEF DeletesLeftover, Creates, SendsSwap, DeletesPrevious, Stage
<1>1. CASE DeletesLeftover
  BY <1>0, <1>1, TasksSent, RequestMoves DEF DeletesLeftover, Stage, RebuildPhases
<1>2. CASE Creates
  BY <1>0, <1>2, TasksSent, RequestMoves DEF Creates, Stage, RebuildPhases
<1>3. CASE SendsSwap
  BY <1>0, <1>3, TasksSent, RequestMoves DEF SendsSwap, Stage, RebuildPhases
<1>4. CASE DeletesPrevious
  BY <1>0, <1>4, TasksSent, RequestMoves DEF DeletesPrevious, Stage, RebuildPhases
<1> QED BY <1>1, <1>2, <1>3, <1>4

\* The settings, sent or found as they should be.
LEMMA SetsUpMoves ==
  ASSUME RebuildTyped, RunsAhead, SetsUp
  PROVE  RebuildMoves
<1>0. UNCHANGED <<indexes, served, plain, filled, late>> /\ rebuild.at = "setting"
  BY DEF SetsUp, Stage
<1>1. CASE indexes["next"] # NoIndex /\ indexes["next"].set
  <2>1. rebuild' = [rebuild EXCEPT !.at = "filling", !.stop = "filling"] /\ UNCHANGED <<tasks, told>>
    BY <1>1 DEF SetsUp
  <2>2. Stays /\ rebuild'.at = "filling"
    BY <1>0, <2>1, RunAtWork DEF Stays, RunType, RebuildPhases
  <2> QED BY <1>0, <1>1, <2>1, <2>2 DEF RebuildMoves, Stays, RunGoesOn, From
<1>2. CASE ~(indexes["next"] # NoIndex /\ indexes["next"].set)
  <2>1. Sends(Task("settings", "next", {}), [rebuild EXCEPT !.at = "settings"])
    BY <1>2 DEF SetsUp
  <2> QED BY <1>0, <2>1, TasksSent, RequestMoves DEF RebuildPhases
<1> QED BY <1>1, <1>2

\* fill adds a batch, ends or throws.
LEMMA FillsMoves ==
  ASSUME RebuildTyped, RunsAhead, Fills
  PROVE  RebuildMoves
<1>0. UNCHANGED <<indexes, served, plain, late>> /\ rebuild.at = "filling"
  BY DEF Fills
<1>1. ASSUME NEW b \in Batches \ filled[rebuild.run],
             filled' = [filled EXCEPT ![rebuild.run] = @ \cup {b}],
             Sends(Task("add", "next", {<<rebuild.run, b>>}), rebuild)
      PROVE  RebuildMoves
  <2> DEFINE t == Task("add", "next", {<<rebuild.run, b>>})
  <2>1. t \in TaskType /\ t.kind = "add" /\ t.uid = "next" /\ t.of = {<<rebuild.run, b>>} /\ t.status = "enqueued"
    BY <1>0, RunAtWork, TaskFacts DEF Uids
  <2>2. filled'[rebuild.run] = filled[rebuild.run] \cup {b}
    BY <1>0, <1>1, RunAtWork DEF RebuildTyped
  <2>3. AskedAt(rebuild.at, t)
    BY <1>0, <2>1, <2>2 DEF AskedAt
  <2>4. rebuild = [rebuild EXCEPT !.at = "filling"] /\ "filling" \in RebuildPhases
    BY <1>0, RunAtWork DEF RunType, RebuildPhases
  <2>5. Sends(t, [rebuild EXCEPT !.at = "filling"])
    BY <1>1, <2>4
  <2> HIDE DEF t
  <2>6. CASE tasks' \in {tasks, Append(tasks, t)} /\ (RunEnds \/ Discarding) /\ rebuild'.at # "filling"
    <3>1. Adds
      BY <1>0, <1>1, <2>1, <2>3, <2>6 DEF Adds
    <3> QED BY <1>0, <2>1, <2>3, <2>4, <2>5, <2>6, <3>1, Sending DEF RebuildMoves, Stays
  <2>7. CASE ~(tasks' \in {tasks, Append(tasks, t)} /\ (RunEnds \/ Discarding) /\ rebuild'.at # "filling")
    <3>1. /\ Stays /\ tasks' = Append(tasks, t) /\ RunAsks /\ told' = told
          /\ rebuild'.at = "filling" /\ rebuild'.since = rebuild.since /\ rebuild'.task = Len(tasks) + 1
      BY <1>0, <2>1, <2>3, <2>4, <2>5, <2>7, Sending
    <3>2. Adds
      BY <1>0, <1>1, <2>1, <2>3, <3>1 DEF Adds
    <3> QED BY <1>0, <3>1, <3>2 DEF RebuildMoves, Stays, Waits, From
  <2> QED BY <2>6, <2>7
<1>2. ASSUME GoesTo("settling") \/ Throws, UNCHANGED <<tasks, filled>> PROVE RebuildMoves
  <2>1. Len(tasks') \in Nat /\ Len(tasks') >= Len(tasks) /\ rebuild.at # "over"
    BY <1>0, <1>2, RunAtWork
  <2>2. CASE Throws
    BY <1>0, <1>2, <2>1, <2>2, Throwing DEF RebuildMoves, Stays
  <2>3. CASE GoesTo("settling")
    <3>1. "settling" \in RebuildPhases
      BY DEF RebuildPhases
    <3> QED BY <1>0, <1>2, <2>1, <2>3, <3>1, RunGoing DEF RebuildMoves, Stays, RunGoesOn, From
  <2> QED BY <1>2, <2>2, <2>3
<1> QED BY <1>1, <1>2 DEF Fills

\* The wait for what fill added.
LEMMA SettlesFillMoves ==
  ASSUME RebuildTyped, RunsAhead, SettlesFill
  PROVE  RebuildMoves
<1>0. UNCHANGED <<indexes, tasks, served, plain, filled, late>> /\ rebuild.at = "settling"
  BY DEF SettlesFill, Stage
<1>1. Len(tasks') \in Nat /\ Len(tasks') >= Len(tasks) /\ rebuild.at # "over"
  BY <1>0, RunAtWork
<1>2. CASE Throws
  BY <1>0, <1>1, <1>2, Throwing DEF RebuildMoves, Stays
<1>3. CASE ~Throws
  <2>1. Settled /\ GoesTo("live") /\ \A i \in served + 1 .. Len(tasks) : tasks[i].uid # "next"
    BY <1>3 DEF SettlesFill
  <2>2. "live" \in RebuildPhases
    BY DEF RebuildPhases
  <2>3. Stays /\ rebuild'.at = "live" /\ told' = told
    BY <1>1, <2>1, <2>2, RunGoing
  <2>4. RunGoesOn
    BY <1>0, <2>1, <2>3 DEF RunGoesOn, From
  <2> QED BY <1>0, <1>1, <2>3, <2>4 DEF RebuildMoves, Stays
<1> QED BY <1>2, <1>3

\* The stop is unknown from here on.
LEMMA SwapsMoves ==
  ASSUME RebuildTyped, RunsAhead, Swaps
  PROVE  RebuildMoves
<1>0. UNCHANGED <<indexes, tasks, served, told, plain, filled, late>> /\ rebuild.at = "swap"
  BY DEF Swaps, Stage
<1>1. rebuild' = [rebuild EXCEPT !.at = "sending", !.stop = "unknown"]
  BY DEF Swaps, Sent
<1>2. Stays /\ rebuild'.at = "sending"
  BY <1>0, <1>1, RunAtWork DEF Stays, RunType, RebuildPhases
<1> QED BY <1>0, <1>2 DEF RebuildMoves, Stays, RunGoesOn, From

\* The deletion of what was built.
LEMMA DiscardsMoves ==
  ASSUME RebuildTyped, RunsAhead, Discards
  PROVE  RebuildMoves
<1> DEFINE t == Task("delete", "next", {})
<1>0. UNCHANGED <<indexes, served, plain, filled, late>> /\ rebuild.at = "discarding"
  BY DEF Discards, Stage
<1>1. t \in TaskType /\ AskedAt(rebuild.at, t)
  BY <1>0, TasksSent
<1>2. ASSUME tasks' = Append(tasks, t), told' = told,
             rebuild' = [rebuild EXCEPT !.at = "discard", !.task = Len(tasks) + 1]
      PROVE  RebuildMoves
  <2> DEFINE n == Len(tasks) + 1
  <2> HIDE DEF t
  <2>1. Len(tasks') = n /\ n \in Nat /\ Len(tasks) <= n
    BY <1>0, <1>1, <1>2, RunAtWork
  <2>4. rebuild' = [rebuild EXCEPT !.at = "discard", !.task = n]
    BY <1>2
  <2>5. rebuild \in RunType /\ rebuild.since \in 0 .. Len(tasks) /\ Len(tasks) \in Nat
    BY <1>0, RunAtWork
  <2> HIDE DEF n
  <2>6. /\ rebuild' \in RunType /\ rebuild'.run = rebuild.run /\ rebuild'.since = rebuild.since
        /\ rebuild'.at = "discard" /\ rebuild'.task = n
    BY <2>1, <2>4, <2>5 DEF RunType, RebuildPhases
  <2>2. Stays /\ rebuild'.at = "discard" /\ rebuild'.task = Len(tasks) + 1
    BY <2>1, <2>5, <2>6 DEF Stays, n
  <2>3. RunAsks
    BY <1>1, <1>2 DEF RunAsks
  <2> QED BY <1>0, <1>2, <2>2, <2>3 DEF RebuildMoves, Stays, Waits, From
<1>3. ASSUME tasks' \in {tasks, Append(tasks, t)}, Tells("as it was") PROVE RebuildMoves
  <2> HIDE DEF t
  <2>1. Len(tasks') \in Nat /\ Len(tasks') >= Len(tasks) /\ (tasks' = tasks \/ RunAsks)
    BY <1>0, <1>1, <1>3, OneMore DEF RunAsks
  <2>2. "as it was" \in Tolds /\ ToldAt("as it was")
    BY <1>0 DEF Tolds, ToldAt
  <2> QED BY <1>0, <1>3, <2>1, <2>2, Telling DEF RebuildMoves, Stays
<1> QED BY <1>2, <1>3 DEF Discards

\* What a run is told ends it, in the steps that send nothing.
LEMMA TellingMoves ==
  ASSUME RebuildTyped, RunsAhead, rebuild.at # "over", UNCHANGED <<indexes, tasks, served, plain, filled, late>>,
         NEW what \in Tolds, Tells(what), ToldAt(what)
  PROVE  RebuildMoves
BY RunAtWork, Telling DEF RebuildMoves, Stays

\* So does a failure.
LEMMA ThrowingMoves ==
  ASSUME RebuildTyped, RunsAhead, rebuild.at # "over", UNCHANGED <<indexes, tasks, served, plain, filled, late>>, Throws
  PROVE  RebuildMoves
BY RunAtWork, Throwing DEF RebuildMoves, Stays

\* A wait that is given up.
LEMMA NotAwaitedMoves ==
  ASSUME RebuildTyped, RunsAhead, NotAwaited
  PROVE  RebuildMoves
<1>0. UNCHANGED <<indexes, tasks, served, plain, filled, late>> /\ rebuild.at # "over"
  BY DEF NotAwaited
<1>1. CASE rebuild.at = "discard"
  <2>1. Tells("as it was") /\ "as it was" \in Tolds /\ ToldAt("as it was")
    BY <1>1 DEF NotAwaited, Tolds, ToldAt
  <2> QED BY <1>0, <2>1, TellingMoves
<1>2. CASE rebuild.at # "discard"
  BY <1>0, <1>2, ThrowingMoves DEF NotAwaited
<1> QED BY <1>1, <1>2

\* The death of a run.
LEMMA DiesMoves ==
  ASSUME RebuildTyped, RunsAhead, Dies
  PROVE  RebuildMoves
<1>1. Tells("nothing") /\ "nothing" \in Tolds /\ ToldAt("nothing")
  BY DEF Dies, Tolds, ToldAt
<1> QED BY <1>1, TellingMoves DEF Dies

\* A wait that ends.
LEMMA WaitedMoves ==
  ASSUME RebuildTyped, RunsAhead, Waited
  PROVE  RebuildMoves
<1>0. UNCHANGED <<indexes, tasks, served, plain, filled, late>> /\ rebuild.at # "over" /\ Answered
  <2>1. /\ UNCHANGED <<indexes, tasks, served, plain, filled, late>>
        /\ rebuild.at \in {"leftover's deletion", "creation", "settings", "swapping", "previous' deletion", "discard"}
        /\ rebuild.task > 0 /\ rebuild.task <= served
    BY DEF Waited, Stage
  <2>2. rebuild.at # "over"
    BY <2>1
  <2>3. rebuild.task \in 0 .. Len(tasks) /\ served \in 0 .. Len(tasks) /\ Len(tasks) \in Nat
    BY <2>2, RunAtWork
  <2>5. rebuild.task > 0 /\ rebuild.task <= served
    BY DEF Waited
  <2>4. Answered
    BY <2>3, <2>5 DEF Answered
  <2> QED BY <2>1, <2>2, <2>4
<1>1. Len(tasks') \in Nat /\ Len(tasks') >= Len(tasks)
  BY <1>0, RunAtWork
<1>2. CASE Throws
  BY <1>0, <1>2, ThrowingMoves
<1>3. ASSUME rebuild.at = "leftover's deletion", Awaited = "succeeded",
             rebuild' = [rebuild EXCEPT !.at = "creating", !.stop = "creating"], told' = told PROVE RebuildMoves
  <2>1. Stays /\ rebuild'.at = "creating"
    BY <1>0, <1>3, RunAtWork DEF Stays, RunType, RebuildPhases
  <2> QED BY <1>0, <1>3, <2>1 DEF RebuildMoves, Stays, RunGoesOn, From
<1>4. ASSUME rebuild.at = "creation", Awaited = "succeeded",
             rebuild' = [rebuild EXCEPT !.at = "setting", !.since = rebuild.task], told' = told PROVE RebuildMoves
  <2>1. Stays /\ rebuild'.at = "setting"
    BY <1>0, <1>4, RunAtWork DEF Stays, RunType, RebuildPhases
  <2> QED BY <1>0, <1>4, <2>1 DEF RebuildMoves, Stays, RunGoesOn, From
<1>5. ASSUME rebuild.at = "creation", Awaited = "exists", GoesTo("setting") PROVE RebuildMoves
  <2>1. "setting" \in RebuildPhases
    BY DEF RebuildPhases
  <2> QED BY <1>0, <1>1, <1>5, <2>1, RunGoing DEF RebuildMoves, Stays, RunGoesOn, From
<1>6. ASSUME rebuild.at = "settings", Awaited = "succeeded", told' = told,
             rebuild' = [rebuild EXCEPT !.at = "filling", !.stop = "filling",
                                        !.since = IF @ = 0 THEN rebuild.task ELSE @] PROVE RebuildMoves
  <2> DEFINE n == IF rebuild.since = 0 THEN rebuild.task ELSE rebuild.since
  <2>1. n \in 0 .. Len(tasks) /\ rebuild' = [rebuild EXCEPT !.at = "filling", !.stop = "filling", !.since = n]
    BY <1>0, <1>6, RunAtWork
  <2>3. /\ rebuild \in RunType /\ rebuild.task \in 0 .. Len(tasks) /\ Len(tasks) \in Nat
    BY <1>0, RunAtWork
  <2>4. n \in Nat
    BY <2>1, <2>3
  <2> HIDE DEF n
  <2>5. /\ rebuild' \in RunType /\ rebuild'.run = rebuild.run /\ rebuild'.task = rebuild.task
        /\ rebuild'.at = "filling" /\ rebuild'.since = n
    BY <2>1, <2>3, <2>4 DEF RunType, RebuildPhases
  <2>2. Stays /\ rebuild'.at = "filling"
    BY <1>0, <2>1, <2>3, <2>5 DEF Stays
  <2> QED BY <1>0, <1>6, <2>2 DEF RebuildMoves, Stays, RunGoesOn, From
<1>7. CASE rebuild.at = "swapping"
  <2>1. ASSUME Awaited # "succeeded", rebuild' = [rebuild EXCEPT !.at = "discarding"], told' = told PROVE RebuildMoves
    <3>1. Stays /\ rebuild'.at = "discarding"
      BY <1>0, <2>1, RunAtWork DEF Stays, RunType, RebuildPhases
    <3> QED BY <1>0, <1>7, <2>1, <3>1 DEF RebuildMoves, Stays, Discarding
  <2>2. ASSUME Awaited = "succeeded", Tells("done") PROVE RebuildMoves
    <3>1. "done" \in Tolds /\ ToldAt("done")
      BY <1>0, <1>7, <2>2 DEF Tolds, ToldAt
    <3> QED BY <1>0, <2>2, <3>1, TellingMoves
  <2>3. ASSUME Awaited = "succeeded", told' = told,
               rebuild' = [rebuild EXCEPT !.at = "swapped", !.stop = "raw"] PROVE RebuildMoves
    <3>1. Stays /\ rebuild'.at = "swapped"
      BY <1>0, <2>3, RunAtWork DEF Stays, RunType, RebuildPhases
    <3> QED BY <1>0, <1>7, <2>3, <3>1 DEF RebuildMoves, Stays, RunGoesOn, From
  <2> QED BY <1>7, <2>1, <2>2, <2>3 DEF Waited, Stage
<1>8. ASSUME rebuild.at = "previous' deletion", Tells("done") PROVE RebuildMoves
  <2>1. "done" \in Tolds /\ ToldAt("done")
    BY <1>0, <1>8 DEF Tolds, ToldAt
  <2> QED BY <1>0, <1>8, <2>1, TellingMoves
<1>9. ASSUME rebuild.at = "discard", Tells(IF LeftNothing THEN "deleted" ELSE "as it was") PROVE RebuildMoves
  <2>1. CASE LeftNothing
    <3>1. Tells("deleted") /\ "deleted" \in Tolds /\ ToldAt("deleted")
      BY <1>0, <1>9, <2>1 DEF Tolds, ToldAt, LeftNothing
    <3> QED BY <1>0, <3>1, TellingMoves
  <2>2. CASE ~LeftNothing
    <3>1. Tells("as it was") /\ "as it was" \in Tolds /\ ToldAt("as it was")
      BY <1>0, <1>9, <2>2 DEF Tolds, ToldAt
    <3> QED BY <1>0, <3>1, TellingMoves
  <2> QED BY <2>1, <2>2
<1> QED BY <1>2, <1>3, <1>4, <1>5, <1>6, <1>7, <1>8, <1>9 DEF Waited, Stage

\* Every step of a run is one of these.
LEMMA EachMoves ==
  ASSUME RebuildTyped, RunsAhead, RunStep
  PROVE  RebuildMoves
BY LooksMoves, RequestsMove, SetsUpMoves, FillsMoves, SettlesFillMoves, SwapsMoves, DiscardsMoves,
   WaitedMoves, NotAwaitedMoves, DiesMoves DEF RunStep

\* Where a stop is told from stays right.
LEMMA StopKept ==
  ASSUME RebuildTyped, StopRight, RunStep
  PROVE  StopRight'
<1>0. rebuild \in RunType
  BY DEF RebuildTyped
<1>2. ASSUME NEW what, Tells(what) PROVE StopRight'
  BY <1>2 DEF Tells, Before, StopRight
<1>1. ASSUME Throws PROVE StopRight'
  <2>1. ASSUME rebuild' = [rebuild EXCEPT !.at = "discarding"] PROVE StopRight'
    <3>1. rebuild'.at = "discarding"
      BY <1>0, <2>1 DEF RunType
    <3> QED BY <3>1 DEF StopRight
  <2>2. \/ Tells("the failure") \/ Tells("unknown")
        \/ rebuild' = [rebuild EXCEPT !.at = "discarding"]
    BY <1>1 DEF Throws
  <2> QED BY <1>2, <2>1, <2>2
<1>3. ASSUME NEW to, GoesTo(to), <<rebuild.at, to>> \in {<<"looking", "leftover">>, <<"creating", "setting">>,
               <<"filling", "settling">>, <<"settling", "live">>, <<"creation", "setting">>}
      PROVE StopRight'
  BY <1>0, <1>3 DEF GoesTo, StopRight, RunType
<1>4. ASSUME NEW t, NEW to, Sends(t, [rebuild EXCEPT !.at = to]),
             <<rebuild.at, to>> \in {<<"leftover", "leftover's deletion">>, <<"creating", "creation">>,
            <<"setting", "settings">>, <<"sending", "swapping">>, <<"swapped", "previous' deletion">>}
      PROVE StopRight'
  <2>1. CASE rebuild' = [[rebuild EXCEPT !.at = to] EXCEPT !.task = Len(tasks) + 1]
    <3>1. rebuild'.at = to /\ rebuild'.stop = rebuild.stop
      BY <1>0, <2>1 DEF RunType
    <3> QED BY <1>4, <3>1 DEF StopRight
  <2> QED BY <1>1, <1>4, <2>1 DEF Sends
<1>5. CASE Looks
  <2>1. ASSUME rebuild.at = "looking", rebuild' = [rebuild EXCEPT !.at = "creating", !.stop = "creating"] PROVE StopRight'
    BY <1>0, <2>1 DEF StopRight, RunType
  <2>2. ASSUME NEW made, rebuild.at = "live", rebuild' = [rebuild EXCEPT !.at = "swap", !.created = made] PROVE StopRight'
    BY <1>0, <2>2 DEF StopRight, RunType
  <2> QED BY <1>1, <1>3, <1>5, <2>1, <2>2 DEF Looks, Stage
<1>6. CASE DeletesLeftover
  BY <1>4, <1>6 DEF DeletesLeftover, Stage
<1>7. CASE Creates
  BY <1>4, <1>7 DEF Creates, Stage
<1>8. CASE SetsUp
  <2>1. ASSUME rebuild' = [rebuild EXCEPT !.at = "filling", !.stop = "filling"] PROVE StopRight'
    BY <1>0, <2>1 DEF StopRight, RunType
  <2> QED BY <1>4, <1>8, <2>1 DEF SetsUp, Stage
<1>9. CASE Fills
  <2>1. ASSUME NEW t, Sends(t, rebuild) PROVE StopRight'
    <3>1. CASE rebuild' = [rebuild EXCEPT !.task = Len(tasks) + 1]
      <4>1. rebuild'.at = rebuild.at /\ rebuild'.stop = rebuild.stop
        BY <1>0, <3>1 DEF RunType
      <4> QED BY <4>1 DEF StopRight
    <3> QED BY <1>1, <2>1, <3>1 DEF Sends
  <2> QED BY <1>1, <1>3, <1>9, <2>1 DEF Fills
<1>10. CASE SettlesFill
  BY <1>1, <1>3, <1>10 DEF SettlesFill, Stage
<1>11. CASE Swaps
  BY <1>0, <1>11 DEF Swaps, Stage, Sent, StopRight, RunType
<1>12. CASE SendsSwap
  BY <1>4, <1>12 DEF SendsSwap, Stage
<1>13. CASE DeletesPrevious
  BY <1>4, <1>13 DEF DeletesPrevious, Stage
<1>14. CASE Discards
  <2>1. ASSUME rebuild' = [rebuild EXCEPT !.at = "discard", !.task = Len(tasks) + 1] PROVE StopRight'
    <3>1. rebuild'.at = "discard"
      BY <1>0, <2>1 DEF RunType
    <3> QED BY <3>1 DEF StopRight
  <2> QED BY <1>2, <1>14, <2>1 DEF Discards
<1>15. CASE Waited
  <2>1. ASSUME rebuild.at = "leftover's deletion", rebuild' = [rebuild EXCEPT !.at = "creating", !.stop = "creating"] PROVE StopRight'
    BY <1>0, <2>1 DEF StopRight, RunType
  <2>2. ASSUME NEW n, rebuild.at = "creation", rebuild' = [rebuild EXCEPT !.at = "setting", !.since = n] PROVE StopRight'
    BY <1>0, <2>2 DEF StopRight, RunType
  <2>3. ASSUME rebuild.at = "settings",
               rebuild' = [rebuild EXCEPT !.at = "filling", !.stop = "filling", !.since = IF @ = 0 THEN rebuild.task ELSE @]
        PROVE StopRight'
    <3>1. rebuild'.at = "filling" /\ rebuild'.stop = "filling"
      BY <1>0, <2>3 DEF RunType
    <3> QED BY <3>1 DEF StopRight
  <2>4. ASSUME rebuild' = [rebuild EXCEPT !.at = "discarding"] PROVE StopRight'
    BY <1>0, <2>4 DEF StopRight, RunType
  <2>5. ASSUME rebuild' = [rebuild EXCEPT !.at = "swapped", !.stop = "raw"] PROVE StopRight'
    BY <1>0, <2>5 DEF StopRight, RunType
  <2> QED BY <1>1, <1>2, <1>3, <1>15, <2>1, <2>2, <2>3, <2>4, <2>5 DEF Waited, Stage
<1>16. CASE NotAwaited
  BY <1>1, <1>2, <1>16 DEF NotAwaited
<1>17. CASE Dies
  BY <1>2, <1>17 DEF Dies
<1> QED BY <1>5, <1>6, <1>7, <1>8, <1>9, <1>10, <1>11, <1>12, <1>13, <1>14, <1>15, <1>16, <1>17 DEF RunStep

\* What a step of a run leaves as it was.
LEMMA Beside ==
  ASSUME RebuildTyped, RunsAhead, RebuildMoves
  PROVE  /\ tasks' \in Seq(TaskType) /\ Len(tasks') \in Nat
         /\ Len(tasks') = Len(tasks) \/ (Len(tasks') = Len(tasks) + 1 /\ AskedAt(rebuild.at, tasks'[Len(tasks) + 1]))
         /\ \A i \in 1 .. Len(tasks) : tasks'[i] = tasks[i]
         /\ filled' \in [0 .. MaxRebuilds -> SUBSET Batches]
         /\ \A r \in 0 .. MaxRebuilds : filled[r] \subseteq filled'[r] /\ (r # rebuild.run => filled'[r] = filled[r])
         /\ rebuild.at # "filling" => filled' = filled
         /\ told' \in [1 .. MaxRebuilds -> Tolds]
         /\ \A r \in 1 .. MaxRebuilds : r # rebuild.run => told'[r] = told[r]
<1>0. /\ tasks \in Seq(TaskType) /\ Len(tasks) \in Nat /\ rebuild.run \in 1 .. MaxRebuilds
      /\ filled \in [0 .. MaxRebuilds -> SUBSET Batches] /\ told \in [1 .. MaxRebuilds -> Tolds]
  BY RunAtWork DEF RebuildMoves, RebuildTyped
<1>1. /\ tasks' \in Seq(TaskType) /\ Len(tasks') \in Nat
      /\ Len(tasks') = Len(tasks) \/ (Len(tasks') = Len(tasks) + 1 /\ AskedAt(rebuild.at, tasks'[Len(tasks) + 1]))
      /\ \A i \in 1 .. Len(tasks) : tasks'[i] = tasks[i]
  <2>1. CASE tasks' = tasks
    BY <1>0, <2>1
  <2>2. CASE RunAsks
    <3>1. PICK t \in TaskType : tasks' = Append(tasks, t) /\ AskedAt(rebuild.at, t)
      BY <2>2 DEF RunAsks
    <3>2. Len(tasks') = Len(tasks) + 1 /\ tasks'[Len(tasks) + 1] = t /\ \A i \in 1 .. Len(tasks) : tasks'[i] = tasks[i]
      BY <1>0, <3>1
    <3> QED BY <1>0, <3>1, <3>2
  <2> QED BY <2>1, <2>2 DEF RebuildMoves
<1>2. /\ filled' \in [0 .. MaxRebuilds -> SUBSET Batches]
      /\ \A r \in 0 .. MaxRebuilds : filled[r] \subseteq filled'[r] /\ (r # rebuild.run => filled'[r] = filled[r])
      /\ rebuild.at # "filling" => filled' = filled
  <2>1. CASE filled' = filled
    BY <1>0, <2>1
  <2>2. CASE Adds
    BY <1>0, <2>2 DEF Adds
  <2> QED BY <2>1, <2>2 DEF RebuildMoves
<1>3. /\ told' \in [1 .. MaxRebuilds -> Tolds]
      /\ \A r \in 1 .. MaxRebuilds : r # rebuild.run => told'[r] = told[r]
  <2>1. CASE told' = told
    BY <1>0, <2>1
  <2>2. CASE RunEnds
    BY <1>0, <2>2 DEF RunEnds
  <2> QED BY <2>1, <2>2 DEF RebuildMoves, Discarding, RunGoesOn, Waits
<1> QED BY <1>1, <1>2, <1>3

\* A step of a run keeps every part of the invariant: its types, ...
LEMMA RunTyped ==
  ASSUME RebuildTyped, RunsAhead, RebuildMoves
  PROVE  RebuildTyped'
<1>0. /\ tasks \in Seq(TaskType) /\ Len(tasks) \in Nat /\ served \in 0 .. Len(tasks)
      /\ indexes' = indexes /\ served' = served /\ plain' = plain /\ late' = late
      /\ rebuild' \in RunType /\ rebuild'.task \in 0 .. Len(tasks') /\ rebuild'.since \in 0 .. Len(tasks')
  BY RunAtWork DEF RebuildMoves, RebuildTyped
<1>1. \A i \in 1 .. Len(tasks') : tasks'[i].status = "enqueued" <=> i > served
  <2> SUFFICES ASSUME NEW i \in 1 .. Len(tasks') PROVE tasks'[i].status = "enqueued" <=> i > served
    OBVIOUS
  <2>1. CASE i \in 1 .. Len(tasks)
    BY <2>1, Beside DEF RebuildTyped
  <2>2. CASE i \notin 1 .. Len(tasks)
    <3>1. i = Len(tasks) + 1 /\ AskedAt(rebuild.at, tasks'[i])
      BY <1>0, <2>2, Beside
    <3> QED BY <1>0, <3>1 DEF AskedAt
  <2> QED BY <2>1, <2>2
<1>2. served' \in 0 .. Len(tasks')
  BY <1>0, Beside
<1> QED BY <1>0, <1>1, <1>2, Beside DEF RebuildTyped

\* ... what tasks look like, ...
LEMMA RunShapes ==
  ASSUME RebuildTyped, RunsAhead, TasksShaped, RebuildMoves
  PROVE  TasksShaped'
<1> SUFFICES ASSUME NEW i \in 1 .. Len(tasks')
             PROVE  /\ tasks'[i].uid = "live" <=> IsSwap(tasks'[i])
                    /\ tasks'[i].kind # "add" => tasks'[i].of = {}
  BY DEF TasksShaped, IsSwap
<1>0. Len(tasks) \in Nat
  BY RunAtWork DEF RebuildMoves
<1>1. CASE i \in 1 .. Len(tasks)
  BY <1>1, Beside DEF TasksShaped
<1>2. CASE i \notin 1 .. Len(tasks)
  <2>1. i = Len(tasks) + 1 /\ AskedAt(rebuild.at, tasks'[i])
    BY <1>0, <1>2, Beside
  <2> QED BY <2>1 DEF AskedAt, IsSwap
<1> QED BY <1>1, <1>2

\* ... what runs to come have not done, ...
LEMMA RunAhead ==
  ASSUME RebuildTyped, RunsAhead, RebuildMoves
  PROVE  RunsAhead'
<1>0. rebuild.run \in 1 .. MaxRebuilds /\ rebuild'.run = rebuild.run /\ late' = late /\ rebuild.at # "over"
  BY RunAtWork DEF RebuildMoves
<1>1. ASSUME NEW r \in 1 .. MaxRebuilds, r > rebuild.run \/ (r = rebuild.run /\ rebuild'.at # "over")
      PROVE  told'[r] = "nothing"
  <2>1. told[r] = "nothing"
    BY <1>0, <1>1 DEF RunsAhead
  <2>2. CASE r # rebuild.run
    BY <2>1, <2>2, Beside
  <2>3. CASE rebuild'.at # "over"
    <3>1. told' = told
      BY <2>3 DEF RebuildMoves, RunEnds, Discarding, RunGoesOn, Waits
    <3> QED BY <2>1, <3>1
  <2> QED BY <1>1, <2>2, <2>3
<1>2. \A r \in 1 .. MaxRebuilds : r > rebuild.run => filled'[r] = {}
  <2>1. \A r \in 1 .. MaxRebuilds : r > rebuild.run => filled[r] = {}
    BY DEF RunsAhead
  <2> SUFFICES ASSUME NEW r \in 1 .. MaxRebuilds, r > rebuild.run PROVE filled'[r] = {}
    OBVIOUS
  <2>2. r \in 0 .. MaxRebuilds /\ r # rebuild.run
    BY <1>0
  <2> QED BY <2>1, <2>2, Beside
<1>3. ASSUME rebuild'.at \in {"looking", "leftover", "leftover's deletion", "creating", "creation", "setting", "settings"}
      PROVE  filled'[rebuild.run] = {}
  <2>1. rebuild.at \in {"looking", "leftover", "leftover's deletion", "creating", "creation", "setting", "settings"}
    BY <1>3 DEF RebuildMoves, RunEnds, Discarding, RunGoesOn, Waits, From
  <2>2. filled' = filled
    BY <2>1, Beside
  <2> QED BY <2>1, <2>2 DEF RunsAhead
<1> QED BY <1>0, <1>1, <1>2, <1>3 DEF RunsAhead

\* ... whose documents are where, ...
LEMMA RunDocs ==
  ASSUME RebuildTyped, RunsAhead, DocsOfRuns, RebuildMoves
  PROVE  DocsOfRuns'
<1>0. Len(tasks) \in Nat /\ rebuild'.run = rebuild.run /\ indexes' = indexes /\ rebuild.run \in 1 .. MaxRebuilds
  BY RunAtWork DEF RebuildMoves
<1>1. ASSUME NEW uid \in Uids, indexes[uid] # NoIndex, NEW d \in indexes[uid].has
      PROVE  d[1] <= rebuild.run /\ d[2] \in filled'[d[1]]
  <2>1. d[1] <= rebuild.run /\ d[2] \in filled[d[1]]
    BY <1>1 DEF DocsOfRuns
  <2>2. indexes[uid] \in IndexType
    BY <1>1 DEF RebuildTyped
  <2>3. d[1] \in 0 .. MaxRebuilds
    BY <1>1, <2>2 DEF IndexType
  <2> QED BY <2>1, <2>3, Beside
<1>2. ASSUME NEW i \in 1 .. Len(tasks'), NEW d \in tasks'[i].of
      PROVE  d[1] <= rebuild.run /\ d[2] \in filled'[d[1]]
  <2>1. CASE i \in 1 .. Len(tasks)
    <3>1. d[1] <= rebuild.run /\ d[2] \in filled[d[1]]
      BY <1>2, <2>1, Beside DEF DocsOfRuns
    <3>2. tasks'[i] \in TaskType
      BY <1>2, Beside
    <3>3. d[1] \in 0 .. MaxRebuilds
      BY <1>2, <3>2 DEF TaskType
    <3> QED BY <3>1, <3>3, Beside
  <2>2. CASE i \notin 1 .. Len(tasks)
    <3>1. i = Len(tasks) + 1 /\ AskedAt(rebuild.at, tasks'[i])
      BY <1>0, <2>2, Beside
    <3>2. tasks'[i].of \in SUBSET ({rebuild.run} \X filled'[rebuild.run])
      BY <3>1 DEF AskedAt
    <3> QED BY <1>0, <1>2, <3>2
  <2> QED BY <2>1, <2>2
<1> QED BY <1>0, <1>1, <1>2 DEF DocsOfRuns

\* A step of a run puts nothing in place, and what is in place stays so.
LEMMA LandedKept ==
  ASSUME RebuildTyped, RunsAhead, StopRight, RebuildMoves
  PROVE  /\ Landed => Landed'
         /\ InPlace' => InPlace
         /\ Landed' /\ ~Landed => rebuild'.at = "over"
<1>0. rebuild.at # "over" /\ served' = served /\ Len(tasks) \in Nat /\ served \in 0 .. Len(tasks)
  BY RunAtWork DEF RebuildMoves
<1>1. ASSUME Landed PROVE Landed'
  <2>1. CASE RunEnds
    BY <2>1 DEF RunEnds, Landed
  <2>2. CASE ~RunEnds
    <3>1. CASE Discarding
      BY <1>0, <1>1, <3>1 DEF Discarding, Landed, InPlace, StopRight
    <3>2. CASE RunGoesOn
      BY <1>0, <1>1, <3>2 DEF RunGoesOn, From, Landed, InPlace
    <3>3. CASE Waits
      BY <1>0, <1>1, <3>3 DEF Waits, From, Landed, InPlace
    <3> QED BY <2>2, <3>1, <3>2, <3>3 DEF RebuildMoves
  <2> QED BY <2>1, <2>2
<1>2. ASSUME InPlace' PROVE InPlace
  <2>1. CASE rebuild'.at \in {"swapped", "previous' deletion"}
    BY <2>1 DEF RebuildMoves, RunEnds, Discarding, RunGoesOn, Waits, From, InPlace
  <2>2. CASE rebuild'.at = "swapping"
    <3>1. rebuild'.task = Len(tasks) + 1
      BY <2>2 DEF RebuildMoves, RunEnds, Discarding, RunGoesOn, Waits, From
    <3>2. ~(rebuild'.task \in 1 .. served')
      BY <1>0, <3>1
    <3>3. Answered'
      BY <1>2, <2>2 DEF InPlace
    <3> QED BY <3>2, <3>3 DEF Answered
  <2> QED BY <1>2, <2>1, <2>2 DEF InPlace
<1> QED BY <1>1, <1>2 DEF Landed

\* What was rebuilt stays so while its run does not fill.
LEMMA RebuiltKept ==
  ASSUME RebuildTyped, RunsAhead, RebuildMoves, NEW r \in 0 .. MaxRebuilds, r # rebuild.run \/ rebuild.at # "filling",
         NEW uid \in Uids, Rebuilt(r, indexes[uid])
  PROVE  Rebuilt(r, indexes[uid])'
<1>1. filled'[r] = filled[r]
  BY Beside
<1>2. indexes' = indexes /\ late' = late
  BY DEF RebuildMoves
<1> QED BY <1>1, <1>2 DEF Rebuilt, AllOf

\* What is told of the run at work.
LEMMA ToldKept ==
  ASSUME RebuildTyped, RunsAhead, RebuildMoves
  PROVE  /\ \A r \in 0 .. MaxRebuilds : ~AsItWas(r) /\ AsItWas(r)' => r = rebuild.run /\ rebuild.at \in {"discarding", "discard"}
         /\ \A q \in 1 .. MaxRebuilds : told'[q] = "done" /\ told[q] # "done" => q = rebuild.run /\ InPlace
         /\ \A q \in 1 .. MaxRebuilds : told'[q] = "deleted" /\ told[q] # "deleted" =>
               q = rebuild.run /\ rebuild.at = "discard" /\ Answered /\ Awaited \in {"succeeded", "missing"}
<1>0. rebuild.run \in 1 .. MaxRebuilds /\ told \in [1 .. MaxRebuilds -> Tolds]
  BY RunAtWork DEF RebuildMoves
<1>1. CASE told' = told
  BY <1>1 DEF AsItWas
<1>2. CASE RunEnds
  <2>1. PICK what \in Tolds : told' = [told EXCEPT ![rebuild.run] = what] /\ ToldAt(what)
    BY <1>2 DEF RunEnds
  <2>2. told'[rebuild.run] = what /\ \A r \in 1 .. MaxRebuilds : r # rebuild.run => told'[r] = told[r]
    BY <1>0, <2>1
  <2>3. \A r \in 0 .. MaxRebuilds : ~AsItWas(r) /\ AsItWas(r)' => r = rebuild.run /\ what \in {"as it was", "deleted"}
    <3> SUFFICES ASSUME NEW r \in 0 .. MaxRebuilds, ~AsItWas(r), AsItWas(r)'
                 PROVE  r = rebuild.run /\ what \in {"as it was", "deleted"}
      OBVIOUS
    <3>0. r > 0
      BY DEF AsItWas
    <3>1. r \in 1 .. MaxRebuilds
      BY <3>0, RebuildAssumption
    <3>2. told'[r] # told[r] /\ told'[r] \in {"as it was", "deleted"}
      BY <3>1 DEF AsItWas
    <3> QED BY <2>2, <3>1, <3>2
  <2>4. what \in {"as it was", "deleted"} => rebuild.at \in {"discarding", "discard"}
    BY <2>1 DEF ToldAt
  <2>5. what = "done" => InPlace
    BY <2>1 DEF ToldAt, InPlace
  <2>6. what = "deleted" => rebuild.at = "discard" /\ Answered /\ Awaited \in {"succeeded", "missing"}
    BY <2>1 DEF ToldAt
  <2>7. \A q \in 1 .. MaxRebuilds : told'[q] # told[q] => q = rebuild.run /\ told'[q] = what
    BY <2>2
  <2> QED BY <2>3, <2>4, <2>5, <2>6, <2>7
<1> QED BY <1>1, <1>2 DEF RebuildMoves, Discarding, RunGoesOn, Waits

\* ... that what is live is whole, ...
LEMMA RunLive ==
  ASSUME RebuildTyped, RunsAhead, StopRight, LiveSound, RebuildMoves
  PROVE  LiveSound'
<1>0. /\ indexes' = indexes /\ rebuild'.run = rebuild.run /\ rebuild.run \in 1 .. MaxRebuilds /\ "live" \in Uids
      /\ rebuild.at # "over"
  BY RunAtWork DEF RebuildMoves, Uids
<1>1. ASSUME indexes["live"] # NoIndex
      PROVE  \E r \in 0 .. rebuild.run :
                /\ Rebuilt(r, indexes["live"])' /\ ~AsItWas(r)'
                /\ r = rebuild.run => Landed'
                /\ InPlace' => r = rebuild.run
                /\ \A q \in 1 .. MaxRebuilds : told'[q] = "done" => q <= r
  <2>1. PICK r \in 0 .. rebuild.run :
                /\ Rebuilt(r, indexes["live"]) /\ ~AsItWas(r)
                /\ r = rebuild.run => Landed
                /\ InPlace => r = rebuild.run
                /\ \A q \in 1 .. MaxRebuilds : told[q] = "done" => q <= r
    BY <1>1 DEF LiveSound
  <2>2. r \in 0 .. MaxRebuilds
    BY <1>0, RebuildAssumption
  <2>3. Landed => rebuild.at \notin {"filling", "discarding", "discard"}
    BY <1>0 DEF Landed, InPlace
  <2>4. Rebuilt(r, indexes["live"])'
    BY <1>0, <2>1, <2>2, <2>3, RebuiltKept
  <2>5. ~AsItWas(r)'
    BY <2>1, <2>2, <2>3, ToldKept
  <2>6. \A q \in 1 .. MaxRebuilds : told'[q] = "done" => q <= r
    BY <1>0, <2>1, ToldKept
  <2> QED BY <2>1, <2>4, <2>5, <2>6, LandedKept
<1>2. indexes["live"] # NoIndex /\ ~Landed' => \A d \in indexes["live"].has : d[1] < rebuild.run
  BY LandedKept DEF LiveSound
<1>3. indexes["live"] = NoIndex => ~InPlace' /\ \A q \in 1 .. MaxRebuilds : told'[q] # "done"
  BY LandedKept, ToldKept DEF LiveSound
<1> QED BY <1>0, <1>1, <1>2, <1>3 DEF LiveSound

\* The stages with a swap in the queue.
SwapStages == {"swapping", "over", "looking", "leftover", "leftover's deletion", "creating", "creation",
               "discarding", "discard"}

\* ... that what a swap in the queue brings is, ...
LEMMA RunOldSwap ==
  ASSUME RebuildTyped, RunsAhead, StopRight, SwapSound, RebuildMoves,
         NEW i \in 1 .. Len(tasks), i > served, IsSwap(tasks[i])
  PROVE  SwapsIn(i)'
<1>0. /\ indexes' = indexes /\ rebuild'.run = rebuild.run /\ served' = served /\ rebuild.at # "over"
      /\ rebuild.run \in 1 .. MaxRebuilds /\ "next" \in Uids /\ Len(tasks) \in Nat /\ served \in Nat
      /\ i \in Nat /\ rebuild.task \in Nat
  BY RunAtWork DEF RebuildMoves, Uids
<1>1. SwapsIn(i)
  BY DEF SwapSound
<1>2. ~Answered \/ rebuild.at \in {"looking", "leftover", "creating", "discarding"}
  <2>1. rebuild.at \in SwapStages
    BY <1>1 DEF SwapsIn, SwapStages
  <2>2. rebuild.at \in {"swapping", "leftover's deletion", "creation", "discard"} => rebuild.task >= i
    <3>1. rebuild.at \in {"swapping", "leftover's deletion", "creation", "discard"} => rebuild.task = i \/ rebuild.task > i
      BY <1>1 DEF SwapsIn
    <3>2. rebuild.task = i \/ rebuild.task > i => rebuild.task >= i
      BY <1>0
    <3> QED BY <3>1, <3>2
  <2>3. rebuild.task >= i => ~Answered
    BY <1>0 DEF Answered
  <2> QED BY <1>0, <2>1, <2>2, <2>3 DEF SwapStages
<1>3. rebuild.at \in SwapStages /\ (rebuild.at = "creating" => indexes["next"] = NoIndex)
  BY <1>1 DEF SwapsIn, SwapStages
<1>4. /\ rebuild'.at \in SwapStages /\ rebuild'.at # "swapping"
      /\ rebuild'.at \in {"leftover's deletion", "creation", "discard"} => rebuild'.task = Len(tasks) + 1
  <2>1. CASE RunEnds
    BY <2>1 DEF RunEnds, SwapStages
  <2>2. CASE Discarding
    BY <2>2 DEF Discarding, SwapStages
  <2>3. CASE RunGoesOn
    BY <1>2, <1>3, <2>3 DEF RunGoesOn, From, SwapStages
  <2>4. CASE Waits
    BY <1>3, <2>4 DEF Waits, From, SwapStages
  <2> QED BY <2>1, <2>2, <2>3, <2>4 DEF RebuildMoves
<1>5. \A j \in i + 1 .. Len(tasks') : ~IsSwap(tasks'[j])
  <2> SUFFICES ASSUME NEW j \in i + 1 .. Len(tasks') PROVE ~IsSwap(tasks'[j])
    OBVIOUS
  <2>1. CASE j \in 1 .. Len(tasks)
    <3>1. j \in i + 1 .. Len(tasks) /\ tasks'[j] = tasks[j]
      BY <1>0, <2>1, Beside
    <3> QED BY <1>1, <3>1 DEF SwapsIn, IsSwap
  <2>2. CASE j \notin 1 .. Len(tasks)
    <3>1. j = Len(tasks) + 1 /\ AskedAt(rebuild.at, tasks'[j])
      BY <1>0, <2>2, Beside
    <3> QED BY <1>3, <3>1 DEF AskedAt, SwapStages, IsSwap
  <2> QED BY <2>1, <2>2
<1>6. ASSUME indexes["next"] # NoIndex
      PROVE  /\ rebuild'.at \in {"swapping", "over", "looking", "leftover", "leftover's deletion"}
             /\ \E r \in 1 .. rebuild.run :
                  /\ Rebuilt(r, indexes["next"])' /\ ~AsItWas(r)'
                  /\ rebuild'.at = "swapping" => r = rebuild.run
                  /\ r = rebuild.run => rebuild'.at \in {"swapping", "over"}
                  /\ \A d \in indexes["next"].has : d[1] <= r
                  /\ \A q \in 1 .. MaxRebuilds : told'[q] = "done" => q <= r
  <2>1. rebuild.at \in {"swapping", "looking", "leftover", "leftover's deletion"}
    BY <1>0, <1>1, <1>6 DEF SwapsIn
  <2>2. PICK r \in 1 .. rebuild.run :
            /\ Rebuilt(r, indexes["next"]) /\ ~AsItWas(r)
            /\ rebuild.at = "swapping" => r = rebuild.run
            /\ r = rebuild.run => rebuild.at \in {"swapping", "over"}
            /\ \A d \in indexes["next"].has : d[1] <= r
            /\ \A q \in 1 .. MaxRebuilds : told[q] = "done" => q <= r
    BY <1>1, <1>6 DEF SwapsIn
  <2>3. r \in 0 .. MaxRebuilds
    BY <1>0, RebuildAssumption
  <2>4. Rebuilt(r, indexes["next"])'
    BY <1>0, <2>1, <2>2, <2>3, RebuiltKept
  <2>5. ~AsItWas(r)'
    BY <2>1, <2>2, <2>3, ToldKept
  <2>6. ~InPlace
    BY <1>2, <2>1 DEF InPlace
  <2>7. \A q \in 1 .. MaxRebuilds : told'[q] = "done" => q <= r
    BY <2>2, <2>6, ToldKept
  <2>8. rebuild'.at \in {"over", "leftover", "leftover's deletion"} /\ (rebuild.at = "swapping" => rebuild'.at = "over")
    <3>1. CASE RunEnds
      BY <3>1 DEF RunEnds
    <3>2. CASE Discarding
      BY <1>2, <2>1, <3>2 DEF Discarding, StopRight
    <3>3. CASE RunGoesOn
      BY <1>2, <1>6, <2>1, <3>3 DEF RunGoesOn, From
    <3>4. CASE Waits
      BY <2>1, <3>4 DEF Waits, From
    <3> QED BY <3>1, <3>2, <3>3, <3>4 DEF RebuildMoves
  <2> QED BY <1>0, <2>2, <2>4, <2>5, <2>7, <2>8
<1>7. rebuild'.at \in {"leftover's deletion", "creation", "discard"} => rebuild'.task > i
  <2>1. Len(tasks) + 1 > i
    BY <1>0
  <2> QED BY <1>4, <2>1
<1>8. i = served + 1
  BY <1>1 DEF SwapsIn
<1> QED BY <1>0, <1>4, <1>5, <1>6, <1>7, <1>8 DEF SwapsIn, SwapStages

\* ... and what one that is sent brings, ...
LEMMA RunNewSwap ==
  ASSUME RebuildTyped, RunsAhead, StopRight, DocsOfRuns, Filled, RebuildMoves,
         NEW i \in 1 .. Len(tasks'), i \notin 1 .. Len(tasks), IsSwap(tasks'[i])
  PROVE  SwapsIn(i)'
<1>0. /\ indexes' = indexes /\ rebuild'.run = rebuild.run /\ served' = served /\ Len(tasks) \in Nat
      /\ rebuild.run \in 1 .. MaxRebuilds /\ "next" \in Uids
  BY RunAtWork DEF RebuildMoves, Uids
<1>1. i = Len(tasks) + 1 /\ AskedAt(rebuild.at, tasks'[i]) /\ Len(tasks') = Len(tasks) + 1
  BY <1>0, Beside
<1>2. rebuild.at = "sending"
  BY <1>1 DEF AskedAt, IsSwap
<1>3. served = Len(tasks) /\ (indexes["next"] = NoIndex \/ Rebuilt(rebuild.run, indexes["next"]))
  BY <1>2 DEF Filled
<1>4. rebuild'.at = "over" \/ (rebuild'.at = "swapping" /\ rebuild'.task = Len(tasks) + 1)
  <2>1. CASE RunEnds
    BY <2>1 DEF RunEnds
  <2>2. CASE Discarding
    BY <1>2, <2>2 DEF Discarding, StopRight
  <2>3. CASE RunGoesOn
    BY <1>2, <2>3 DEF RunGoesOn, From
  <2>4. CASE Waits
    BY <1>2, <2>4 DEF Waits, From
  <2> QED BY <2>1, <2>2, <2>3, <2>4 DEF RebuildMoves
<1>5. ASSUME indexes["next"] # NoIndex
      PROVE  /\ Rebuilt(rebuild.run, indexes["next"])' /\ ~AsItWas(rebuild.run)'
             /\ \A d \in indexes["next"].has : d[1] <= rebuild.run
             /\ \A q \in 1 .. MaxRebuilds : told'[q] = "done" => q <= rebuild.run
  <2>1. Rebuilt(rebuild.run, indexes["next"])'
    <3>1. rebuild.run \in 0 .. MaxRebuilds /\ rebuild.at # "filling" /\ Rebuilt(rebuild.run, indexes["next"])
      BY <1>0, <1>2, <1>3, <1>5
    <3>2. filled'[rebuild.run] = filled[rebuild.run] /\ late' = late
      BY <3>1, Beside DEF RebuildMoves
    <3> QED BY <1>0, <3>1, <3>2 DEF Rebuilt, AllOf
  <2>2. told[rebuild.run] = "nothing"
    BY <1>0, <1>2 DEF RunsAhead
  <2>3. ~AsItWas(rebuild.run)'
    <3>1. ~AsItWas(rebuild.run)
      BY <2>2 DEF AsItWas
    <3>2. told'[rebuild.run] \notin {"as it was", "deleted"}
      <4>1. CASE told' = told
        BY <2>2, <4>1
      <4>2. CASE RunEnds
        <5>1. PICK what \in Tolds : told' = [told EXCEPT ![rebuild.run] = what] /\ ToldAt(what)
          BY <4>2 DEF RunEnds
        <5>2. told'[rebuild.run] = what
          BY <1>0, <5>1 DEF RebuildTyped
        <5> QED BY <1>2, <5>1, <5>2 DEF ToldAt
      <4> QED BY <4>1, <4>2 DEF RebuildMoves, Discarding, RunGoesOn, Waits
    <3> QED BY <1>0, <3>2 DEF AsItWas
  <2>4. \A d \in indexes["next"].has : d[1] <= rebuild.run
    BY <1>0, <1>5 DEF DocsOfRuns
  <2>5. ASSUME NEW q \in 1 .. MaxRebuilds, told'[q] = "done" PROVE q <= rebuild.run
    <3>1. CASE q > rebuild.run
      <4>2. q # rebuild.run
        BY <1>0, <3>1
      <4>1. told[q] = "nothing" /\ told'[q] = told[q]
        BY <3>1, <4>2, Beside DEF RunsAhead
      <4> QED BY <2>5, <4>1
    <3> QED BY <1>0, <3>1
  <2> QED BY <2>1, <2>3, <2>4, <2>5
<1>6. rebuild.run \in 1 .. rebuild.run
  BY <1>0
<1>7. \A j \in i + 1 .. Len(tasks') : ~IsSwap(tasks'[j])
  BY <1>0, <1>1
<1>8. ASSUME indexes["next"] # NoIndex
      PROVE  /\ rebuild'.at \in {"swapping", "over", "looking", "leftover", "leftover's deletion"}
             /\ \E r \in 1 .. rebuild.run :
                  /\ Rebuilt(r, indexes["next"])' /\ ~AsItWas(r)'
                  /\ rebuild'.at = "swapping" => r = rebuild.run
                  /\ r = rebuild.run => rebuild'.at \in {"swapping", "over"}
                  /\ \A d \in indexes["next"].has : d[1] <= r
                  /\ \A q \in 1 .. MaxRebuilds : told'[q] = "done" => q <= r
  <2>1. rebuild'.at \in {"swapping", "over"}
    BY <1>4
  <2>2. rebuild'.at \in {"swapping", "over", "looking", "leftover", "leftover's deletion"}
    BY <2>1
  <2>3. PICK r \in 1 .. rebuild.run : r = rebuild.run
    BY <1>6
  <2>4. /\ Rebuilt(r, indexes["next"])' /\ ~AsItWas(r)'
        /\ \A d \in indexes["next"].has : d[1] <= r
        /\ \A q \in 1 .. MaxRebuilds : told'[q] = "done" => q <= r
    BY <1>0, <1>5, <1>8, <2>3
  <2> QED BY <2>1, <2>2, <2>3, <2>4
<1>9. i = served + 1 /\ (rebuild'.at = "swapping" => rebuild'.task = i)
      /\ rebuild'.at \in SwapStages /\ rebuild'.at \notin {"leftover's deletion", "creation", "discard"}
  BY <1>1, <1>3, <1>4 DEF SwapStages
<1> QED BY <1>0, <1>7, <1>8, <1>9 DEF SwapsIn, SwapStages

\* ... and so any, ...
LEMMA RunSwaps ==
  ASSUME RebuildTyped, RunsAhead, StopRight, DocsOfRuns, Filled, SwapSound, RebuildMoves
  PROVE  SwapSound'
<1> SUFFICES ASSUME NEW i \in 1 .. Len(tasks'), i > served', IsSwap(tasks[i])' PROVE SwapsIn(i)'
  BY DEF SwapSound
<1>1. CASE i \in 1 .. Len(tasks)
  <2>1. i > served /\ IsSwap(tasks[i])
    BY <1>1, Beside DEF RebuildMoves, IsSwap
  <2> QED BY <1>1, <2>1, RunOldSwap
<1>2. CASE i \notin 1 .. Len(tasks)
  <2>1. IsSwap(tasks'[i])
    BY DEF IsSwap
  <2> QED BY <1>2, <2>1, RunNewSwap
<1> QED BY <1>1, <1>2

\* ... that it waits for what it sent, ...
LEMMA RunAwaits ==
  ASSUME RebuildTyped, RunsAhead, RebuildMoves
  PROVE  AwaitedRight'
<1> DEFINE W == {"leftover's deletion", "creation", "settings", "discard", "previous' deletion", "swapping"}
<1>0. served' = served /\ served \in 0 .. Len(tasks) /\ Len(tasks) \in Nat
  BY RunAtWork DEF RebuildMoves
<1>1. CASE rebuild'.at \notin W
  BY <1>1 DEF AwaitedRight
<1>2. CASE rebuild'.at \in W
  <2>1. Waits /\ rebuild'.task = Len(tasks) + 1
        /\ \/ From("leftover", "leftover's deletion") \/ From("creating", "creation")
           \/ From("setting", "settings") \/ From("sending", "swapping")
           \/ From("swapped", "previous' deletion") \/ From("discarding", "discard")
    BY <1>2 DEF RebuildMoves, RunEnds, Discarding, RunGoesOn, Waits, From
  <2>2. PICK t \in TaskType : tasks' = Append(tasks, t) /\ AskedAt(rebuild.at, t)
    BY <2>1 DEF Waits, RunAsks
  <2>3. tasks \in Seq(TaskType)
    BY DEF RebuildTyped
  <2>4. Len(tasks') = Len(tasks) + 1 /\ tasks'[rebuild'.task] = t /\ rebuild'.task = Len(tasks') /\ rebuild'.task > 0
        /\ served' # Len(tasks')
    <3>1. rebuild'.task = Len(tasks) + 1
      BY <2>1
    <3>2. Len(tasks') = Len(tasks) + 1 /\ tasks'[Len(tasks) + 1] = t
      BY <1>0, <2>2, <2>3
    <3> QED BY <1>0, <3>1, <3>2
  <2>5. rebuild'.at \in {"leftover's deletion", "discard", "previous' deletion"} => t.kind = "delete"
    BY <2>1, <2>2 DEF AskedAt, From
  <2>6. rebuild'.at = "swapping" => IsSwap(t)
    BY <2>1, <2>2 DEF AskedAt, From
  <2> QED BY <2>4, <2>5, <2>6 DEF AwaitedRight, IsSwap
<1> QED BY <1>1, <1>2

\* The batch that is added.
LEMMA RunFilling ==
  ASSUME RebuildTyped, RunsAhead, Filling, RebuildMoves
  PROVE  Filling'
<1>0. /\ indexes' = indexes /\ rebuild'.run = rebuild.run /\ served' = served /\ Len(tasks) \in Nat
      /\ served \in 0 .. Len(tasks) /\ rebuild.run \in 1 .. MaxRebuilds /\ tasks \in Seq(TaskType)
      /\ filled \in [0 .. MaxRebuilds -> SUBSET Batches] /\ rebuild.since \in 0 .. Len(tasks)
  BY RunAtWork DEF RebuildMoves, RebuildTyped
<1> SUFFICES ASSUME rebuild'.at \in {"filling", "settling"}, NEW b \in filled'[rebuild.run]
             PROVE  \E i \in 1 .. Len(tasks') :
                       /\ i > rebuild'.since /\ tasks'[i].of = {<<rebuild.run, b>>}
                       /\ \A j \in i .. Len(tasks') : OwnAdd(j)'
                       /\ i <= served /\ tasks'[i].status = "succeeded" =>
                            indexes["next"] # NoIndex /\ <<rebuild.run, b>> \in indexes["next"].has
  BY <1>0 DEF Filling
<1>1. \/ rebuild.at \in {"setting", "settings"}
      \/ rebuild.at = "filling" /\ rebuild'.since = rebuild.since /\ (Adds \/ filled' = filled)
    <2>1. ~RunEnds /\ ~Discarding
      BY DEF RunEnds, Discarding
    <2> QED BY <2>1 DEF RebuildMoves, RunGoesOn, Waits, From
<1>2. CASE rebuild.at \in {"setting", "settings"}
  <2>1. filled[rebuild.run] = {} /\ filled' = filled
    BY <1>2, Beside DEF RunsAhead
  <2> QED BY <2>1
<1>3. CASE rebuild.at = "filling" /\ b \in filled[rebuild.run]
  <2>1. PICK i \in 1 .. Len(tasks) :
             /\ i > rebuild.since /\ tasks[i].of = {<<rebuild.run, b>>}
             /\ \A j \in i .. Len(tasks) : OwnAdd(j)
             /\ i <= served /\ tasks[i].status = "succeeded" =>
                  indexes["next"] # NoIndex /\ <<rebuild.run, b>> \in indexes["next"].has
    BY <1>3 DEF Filling
  <2>2. i \in 1 .. Len(tasks') /\ tasks'[i] = tasks[i]
    BY <1>0, Beside
  <2>3. ASSUME NEW j \in i .. Len(tasks') PROVE OwnAdd(j)'
    <3>1. filled[rebuild.run] \subseteq filled'[rebuild.run]
      BY <1>0, Beside
    <3>2. CASE j \in 1 .. Len(tasks)
      <4>1. tasks'[j] = tasks[j] /\ OwnAdd(j)
        BY <1>0, <2>1, <3>2, Beside
      <4> QED BY <1>0, <3>1, <4>1 DEF OwnAdd, AllOf
    <3>3. CASE j \notin 1 .. Len(tasks)
      <4>1. j = Len(tasks) + 1 /\ AskedAt(rebuild.at, tasks'[j])
        BY <1>0, <3>3, Beside
      <4>2. tasks'[j].kind = "add" /\ tasks'[j].uid = "next" /\ tasks'[j].of \in SUBSET ({rebuild.run} \X filled'[rebuild.run])
        BY <1>3, <4>1 DEF AskedAt
      <4> QED BY <1>0, <4>2 DEF OwnAdd, AllOf
    <3> QED BY <3>2, <3>3
  <2> QED BY <1>1, <1>3, <2>1, <2>2, <2>3
<1>4. CASE rebuild.at = "filling" /\ b \notin filled[rebuild.run]
  <2>1. Adds
    BY <1>1, <1>4
  <2>2. rebuild'.at = "filling"
    <3>1. filled' # filled
      BY <1>4
    <3>2. ~RunEnds /\ ~Discarding /\ ~RunGoesOn
      BY <3>1 DEF RunEnds, Discarding, RunGoesOn
    <3> QED BY <1>4, <3>2 DEF RebuildMoves, Waits, From
  <2>3. PICK c \in Batches \ filled[rebuild.run] :
           /\ filled' = [filled EXCEPT ![rebuild.run] = @ \cup {c}]
           /\ \E t \in TaskType : tasks' = Append(tasks, t) /\ AskedAt("filling", t) /\ t.of = {<<rebuild.run, c>>}
    BY <2>1, <2>2 DEF Adds
  <2>4. PICK t \in TaskType : tasks' = Append(tasks, t) /\ AskedAt("filling", t) /\ t.of = {<<rebuild.run, c>>}
    BY <2>3
  <2>5. c = b /\ b \in filled'[rebuild.run]
    BY <1>0, <1>4, <2>3
  <2>11. PICK i \in Nat : i = Len(tasks) + 1
    BY <1>0
  <2>6. i \in 1 .. Len(tasks') /\ tasks'[i] = t /\ i > served /\ Len(tasks') = i /\ i > rebuild.since
    BY <1>0, <2>4, <2>11
  <2>7. t.kind = "add" /\ t.uid = "next" /\ t.of \subseteq {rebuild.run} \X filled'[rebuild.run]
    BY <2>4, <2>5 DEF AskedAt
  <2>8. OwnAdd(i)'
    BY <1>0, <2>6, <2>7 DEF OwnAdd, AllOf
  <2>9. rebuild'.since = rebuild.since
    BY <1>1, <1>4
  <2>10. \A j \in i .. Len(tasks') : j = i
    BY <1>0, <2>6
  <2>12. \A j \in i .. Len(tasks') : OwnAdd(j)'
    BY <2>8, <2>10
  <2>13. i > rebuild'.since /\ tasks'[i].of = {<<rebuild.run, b>>} /\ ~(i <= served)
    BY <1>0, <2>4, <2>5, <2>6, <2>9
  <2> QED BY <2>6, <2>12, <2>13
<1> QED BY <1>1, <1>2, <1>3, <1>4

\* Once nothing is in the queue and nothing failed, all that was added is there.
LEMMA SettledWhole ==
  ASSUME RebuildTyped, RunsAhead, TasksShaped, SwapSound, Filling, NextAlone, rebuild.at = "settling", Settled,
         \A i \in served + 1 .. Len(tasks) : tasks[i].uid # "next"
  PROVE  served = Len(tasks) /\ (indexes["next"] = NoIndex \/ Rebuilt(rebuild.run, indexes["next"]))
<1>0. /\ Len(tasks) \in Nat /\ served \in 0 .. Len(tasks) /\ tasks \in Seq(TaskType) /\ rebuild.run \in 1 .. MaxRebuilds
      /\ rebuild.since \in 0 .. Len(tasks)
  BY RunAtWork
<1>1. served = Len(tasks)
  <2> SUFFICES ASSUME served < Len(tasks) PROVE FALSE
    BY <1>0
  <2>1. PICK i \in 1 .. Len(tasks) : i = served + 1
    BY <1>0
  <2>2. i > served /\ i \in served + 1 .. Len(tasks)
    BY <1>0, <2>1
  <2>3. tasks[i].uid = "live"
    <3>1. tasks[i] \in TaskType /\ tasks[i].uid # "next"
      BY <1>0, <2>2
    <3>2. tasks[i].uid \in Uids
      BY <3>1 DEF TaskType
    <3> QED BY <3>1, <3>2 DEF Uids
  <2>4. SwapsIn(i)
    BY <2>2, <2>3 DEF TasksShaped, SwapSound
  <2> QED BY <2>4 DEF SwapsIn
<1>2. ASSUME indexes["next"] # NoIndex PROVE Rebuilt(rebuild.run, indexes["next"])
  <2> DEFINE next == indexes["next"]
  <2>1. next \in IndexType
    BY <1>2 DEF RebuildTyped, Uids
  <2>2. ASSUME NEW b \in filled[rebuild.run] PROVE <<rebuild.run, b>> \in next.has
    <3>1. PICK i \in 1 .. Len(tasks) :
             /\ i > rebuild.since
             /\ \A j \in i .. Len(tasks) : OwnAdd(j)
             /\ i <= served /\ tasks[i].status = "succeeded" =>
                  indexes["next"] # NoIndex /\ <<rebuild.run, b>> \in indexes["next"].has
      BY <2>2 DEF Filling
    <3>2. i \in 1 .. served /\ i \in i .. Len(tasks) /\ i <= served
      BY <1>0, <1>1, <3>1
    <3>3. tasks[i].uid = "next" /\ tasks[i].kind \notin {"swap", "rename"}
      BY <3>1, <3>2 DEF OwnAdd
    <3>4. tasks[i].status = "succeeded"
      BY <3>1, <3>2, <3>3 DEF Settled, FailedSince
    <3> QED BY <3>1, <3>2, <3>4
  <2>3. AllOf(rebuild.run) \subseteq next.has
    BY <2>2 DEF AllOf
  <2>4. ASSUME rebuild.run \notin late PROVE next = Index(AllOf(rebuild.run), TRUE)
    <3>1. next.set /\ next.has \subseteq AllOf(rebuild.run)
      BY <2>4 DEF NextAlone
    <3>2. next.has = AllOf(rebuild.run)
      BY <2>3, <3>1
    <3>3. next.set = TRUE
      BY <2>1, <3>1 DEF IndexType
    <3> QED BY <2>1, <3>2, <3>3 DEF IndexType, Index
  <2> QED BY <1>2, <2>3, <2>4 DEF Rebuilt
<1> QED BY <1>1, <1>2

\* ... that what is to be swapped in is whole, ...
LEMMA RunFilled ==
  ASSUME RebuildTyped, RunsAhead, TasksShaped, SwapSound, Filling, Filled, NextAlone, RebuildMoves
  PROVE  Filled'
<1>0. /\ indexes' = indexes /\ rebuild'.run = rebuild.run /\ served' = served /\ late' = late
      /\ rebuild.run \in 1 .. MaxRebuilds /\ "next" \in Uids
  BY RunAtWork DEF RebuildMoves, Uids
<1> SUFFICES ASSUME rebuild'.at \in {"live", "swap", "sending"} PROVE Filled'
  BY DEF Filled
<1>1. /\ tasks' = tasks /\ filled' = filled
      /\ \/ rebuild.at \in {"live", "swap"}
         \/ rebuild.at = "settling" /\ Settled /\ \A i \in served + 1 .. Len(tasks) : tasks[i].uid # "next"
  <2>1. ~RunEnds /\ ~Discarding /\ ~Waits
    BY DEF RunEnds, Discarding, Waits, From
  <2> QED BY <2>1 DEF RebuildMoves, RunGoesOn, From
<1>2. served = Len(tasks) /\ (indexes["next"] = NoIndex \/ Rebuilt(rebuild.run, indexes["next"]))
  BY <1>1, SettledWhole DEF Filled
<1>3. indexes["next"] = NoIndex \/ Rebuilt(rebuild.run, indexes["next"])'
  BY <1>0, <1>1, <1>2 DEF Rebuilt, AllOf
<1> QED BY <1>0, <1>1, <1>2, <1>3 DEF Filled

\* Nobody is told of a deletion but where it took place.
LEMMA RunDeleted ==
  ASSUME RebuildTyped, RunsAhead, AwaitedRight, LiveSound, Deleted, RebuildMoves
  PROVE  Deleted'
<1>0. /\ indexes' = indexes /\ rebuild'.run = rebuild.run /\ served' = served /\ Len(tasks) \in Nat
      /\ served \in 0 .. Len(tasks) /\ rebuild.run \in 1 .. MaxRebuilds /\ rebuild.at # "over"
  BY RunAtWork DEF RebuildMoves
<1> SUFFICES ASSUME NEW r \in 1 .. MaxRebuilds, told'[r] = "deleted"
             PROVE  /\ \A uid \in Uids : indexes[uid] # NoIndex => \A d \in indexes[uid].has : d[1] # r
                    /\ \A i \in served + 1 .. Len(tasks') : \A d \in tasks'[i].of : d[1] # r
  BY <1>0 DEF Deleted
<1>1. CASE told[r] = "deleted"
  <2>1. r # rebuild.run
    BY <1>0, <1>1 DEF RunsAhead
  <2>2. ASSUME NEW i \in served + 1 .. Len(tasks'), NEW d \in tasks'[i].of PROVE d[1] # r
    <3>1. CASE i \in 1 .. Len(tasks)
      <4>1. i \in served + 1 .. Len(tasks) /\ tasks'[i] = tasks[i]
        BY <1>0, <3>1, Beside
      <4> QED BY <1>1, <2>2, <4>1 DEF Deleted
    <3>2. CASE i \notin 1 .. Len(tasks)
      <4>1. i = Len(tasks) + 1 /\ AskedAt(rebuild.at, tasks'[i])
        BY <1>0, <3>2, Beside
      <4>2. tasks'[i].of \subseteq {rebuild.run} \X filled'[rebuild.run]
        BY <4>1 DEF AskedAt
      <4> QED BY <2>1, <2>2, <4>2
    <3> QED BY <3>1, <3>2
  <2> QED BY <1>1, <2>2 DEF Deleted
<1>2. CASE told[r] # "deleted"
  <2>1. r = rebuild.run /\ rebuild.at = "discard" /\ Answered /\ Awaited \in {"succeeded", "missing"}
    BY <1>2, ToldKept
  <2>2. rebuild.task = Len(tasks)
    BY <2>1 DEF AwaitedRight
  <2>3. served = Len(tasks)
    BY <1>0, <2>1, <2>2 DEF Answered
  <2>4. indexes["next"] = NoIndex
    BY <2>1, <2>3 DEF AwaitedRight, Awaited
  <2>5. indexes["live"] # NoIndex => \A d \in indexes["live"].has : d[1] < rebuild.run
    BY <2>1 DEF LiveSound, Landed, InPlace
  <2>6. \A d : d[1] < rebuild.run => d[1] # r
    BY <1>0, <2>1
  <2>7. tasks' = tasks
    <3>1. ~RunGoesOn /\ ~Waits /\ ~Discarding
      <4>1. told' # told
        BY <1>2
      <4> QED BY <4>1 DEF RunGoesOn, Waits, Discarding
    <3>2. ~RunAsks
      BY <2>1 DEF RunAsks, AskedAt
    <3> QED BY <3>2 DEF RebuildMoves
  <2>8. \A i \in served + 1 .. Len(tasks') : FALSE
    BY <1>0, <2>3, <2>7
  <2> QED BY <2>4, <2>5, <2>6, <2>8 DEF Uids
<1> QED BY <1>1, <1>2

\* ... and what a run alone in the queue knows.
LEMMA RunAlone ==
  ASSUME RebuildTyped, RunsAhead, TasksShaped, AwaitedRight, NextAlone, RebuildMoves
  PROVE  NextAlone'
<1>0. /\ indexes' = indexes /\ rebuild'.run = rebuild.run /\ served' = served /\ plain' = plain /\ late' = late
      /\ Len(tasks) \in Nat /\ served \in 0 .. Len(tasks) /\ rebuild.run \in 1 .. MaxRebuilds
      /\ tasks \in Seq(TaskType)
  BY RunAtWork DEF RebuildMoves
<1> SUFFICES ASSUME rebuild.run \notin late PROVE NextAlone'
  BY <1>0 DEF NextAlone
<1> DEFINE next == indexes["next"]
           last == tasks[Len(tasks)]
<1>1. CASE RunEnds
  BY <1>1 DEF RunEnds, NextAlone
<1>2. CASE Discarding
  BY <1>2 DEF Discarding, NextAlone
<1>3. ASSUME Answered, rebuild.at \in {"leftover's deletion", "creation", "settings"}
      PROVE  rebuild.task = Len(tasks) /\ served = Len(tasks)
  <2>1. rebuild.task = Len(tasks)
    BY <1>3 DEF AwaitedRight
  <2>2. rebuild.task \in 1 .. served
    BY <1>3 DEF Answered
  <2> QED BY <1>0, <2>1, <2>2
<1>4. CASE RunGoesOn
  <2>0. tasks' = tasks /\ filled' = filled
    BY <1>4 DEF RunGoesOn
  <2>1. CASE From("looking", "leftover")
    BY <1>0, <2>0, <2>1 DEF From, NextAlone
  <2>2. CASE From("looking", "creating") /\ next = NoIndex
    BY <1>0, <2>0, <2>2 DEF From, NextAlone
  <2>3. CASE From("leftover's deletion", "creating") /\ Answered /\ Awaited = "succeeded"
    <3>1. next = NoIndex /\ served = Len(tasks)
      BY <1>3, <2>3 DEF From, AwaitedRight, Awaited
    <3> QED BY <1>0, <2>0, <2>3, <3>1 DEF From, NextAlone
  <2>4. CASE From("creating", "setting") /\ next # NoIndex
    BY <2>4 DEF From, NextAlone
  <2>5. CASE From("creation", "setting") /\ Answered /\ Awaited \in {"succeeded", "exists"}
    <3>1. served = Len(tasks) /\ next = Index({}, plain)
      BY <1>3, <2>5 DEF From, NextAlone, Awaited
    <3> QED BY <1>0, <2>0, <2>5, <3>1 DEF From, NextAlone
  <2>6. CASE From("setting", "filling") /\ next # NoIndex /\ next.set
    <3>1. served = Len(tasks) /\ next = Index({}, plain)
      BY <2>6 DEF From, NextAlone
    <3>2. next.has \subseteq AllOf(rebuild.run)'
      BY <3>1 DEF Index
    <3>3. \A i \in served + 1 .. Len(tasks) : OwnAdd(i)'
      BY <1>0, <3>1
    <3> QED BY <1>0, <2>0, <2>6, <3>2, <3>3 DEF From, NextAlone
  <2>7. CASE From("settings", "filling") /\ Answered /\ Awaited = "succeeded"
    <3>1. served = Len(tasks) /\ next = Index({}, TRUE)
      BY <1>3, <2>7 DEF From, NextAlone, Awaited
    <3>2. next # NoIndex /\ next.set /\ next.has \subseteq AllOf(rebuild.run)'
      BY <3>1, IndexFacts
    <3>3. \A i \in served + 1 .. Len(tasks) : OwnAdd(i)'
      BY <1>0, <3>1
    <3> QED BY <1>0, <2>0, <2>7, <3>2, <3>3 DEF From, NextAlone
  <2>8. CASE From("filling", "settling")
    <3>1. /\ next # NoIndex /\ next.set /\ next.has \subseteq AllOf(rebuild.run)'
          /\ \A i \in served + 1 .. Len(tasks) : OwnAdd(i)'
      BY <1>0, <2>0, <2>8 DEF From, NextAlone, OwnAdd, AllOf
    <3> QED BY <1>0, <2>0, <2>8, <3>1 DEF From, NextAlone
  <2>9. CASE From("settling", "live")
    BY <1>0, <2>0, <2>9 DEF From, NextAlone
  <2>10. CASE From("live", "swap") \/ From("swap", "sending")
    BY <1>0, <2>0, <2>10 DEF From, NextAlone
  <2>11. CASE From("swapping", "swapped")
    BY <2>11 DEF From, NextAlone
  <2> QED BY <1>4, <2>1, <2>2, <2>3, <2>4, <2>5, <2>6, <2>7, <2>8, <2>9, <2>10, <2>11 DEF RunGoesOn
<1>5. CASE Waits
  <2>0. PICK t \in TaskType : tasks' = Append(tasks, t) /\ AskedAt(rebuild.at, t)
    BY <1>5 DEF Waits, RunAsks
  <2>1. Len(tasks') = Len(tasks) + 1 /\ tasks'[Len(tasks')] = t /\ served' # Len(tasks') /\ Len(tasks') - 1 = Len(tasks)
    BY <1>0, <2>0
  <2>2. CASE From("leftover", "leftover's deletion")
    <3>1. served = Len(tasks)
      BY <2>2 DEF From, NextAlone
    <3>2. served' >= Len(tasks') - 1
      BY <1>0, <2>1, <3>1
    <3> QED BY <1>0, <2>2, <3>2 DEF From, NextAlone
  <2>3. CASE From("creating", "creation")
    <3>1. t.kind = "create" /\ served = Len(tasks) /\ next = NoIndex
      BY <2>0, <2>3 DEF From, NextAlone, AskedAt
    <3>2. served' >= Len(tasks') - 1
      BY <1>0, <2>1, <3>1
    <3> QED BY <1>0, <2>1, <2>3, <3>1, <3>2 DEF From, NextAlone
  <2>4. CASE From("setting", "settings")
    <3>1. t.kind = "settings" /\ served = Len(tasks) /\ next = Index({}, plain)
      BY <2>0, <2>4 DEF From, NextAlone, AskedAt
    <3>2. served' >= Len(tasks') - 1
      BY <1>0, <2>1, <3>1
    <3> QED BY <1>0, <2>1, <2>4, <3>1, <3>2 DEF From, NextAlone
  <2>5. CASE From("sending", "swapping") \/ From("swapped", "previous' deletion") \/ From("discarding", "discard")
    BY <2>5 DEF From, NextAlone
  <2>6. CASE From("filling", "filling")
    <3>1. filled[rebuild.run] \subseteq filled'[rebuild.run]
      BY <1>0, Beside
    <3>2. /\ next # NoIndex /\ next.set /\ next.has \subseteq AllOf(rebuild.run)
          /\ \A i \in served + 1 .. Len(tasks) : OwnAdd(i)
      BY <2>6 DEF From, NextAlone
    <3>3. next.has \subseteq AllOf(rebuild.run)'
      BY <1>0, <3>1, <3>2 DEF AllOf
    <3>4. ASSUME NEW i \in served + 1 .. Len(tasks') PROVE OwnAdd(i)'
      <4>1. CASE i \in 1 .. Len(tasks)
        <5>1. i \in served + 1 .. Len(tasks) /\ tasks'[i] = tasks[i]
          BY <1>0, <4>1, Beside
        <5>2. OwnAdd(i)
          BY <3>2, <5>1
        <5> QED BY <1>0, <3>1, <5>1, <5>2 DEF OwnAdd, AllOf
      <4>2. CASE i \notin 1 .. Len(tasks)
        <5>1. tasks'[i] = t
          BY <1>0, <2>1, <4>2
        <5>2. t.kind = "add" /\ t.uid = "next" /\ t.of \subseteq {rebuild.run} \X filled'[rebuild.run]
          BY <2>0, <2>6 DEF AskedAt, From
        <5> QED BY <1>0, <5>1, <5>2 DEF OwnAdd, AllOf
      <4> QED BY <4>1, <4>2
    <3> QED BY <1>0, <2>6, <3>2, <3>3, <3>4 DEF From, NextAlone
  <2> QED BY <1>5, <2>2, <2>3, <2>4, <2>5, <2>6 DEF Waits
<1> QED BY <1>1, <1>2, <1>4, <1>5 DEF RebuildMoves

\* What a task does to the next index, served, ...
ServesNext(t) ==
  LET next == indexes["next"]
  IN  /\ ~IsSwap(t) /\ indexes'["live"] = indexes["live"]
      /\ \/ t.kind = "create" /\ next = NoIndex /\ indexes'["next"] = Index({}, plain)
         \/ t.kind = "delete" /\ indexes'["next"] = NoIndex
         \/ t.kind = "settings" /\ indexes'["next"] = Index(IF next = NoIndex THEN {} ELSE next.has, TRUE)
         \/ t.kind = "add" /\ next = NoIndex /\ indexes'["next"] = Index(t.of, plain)
         \/ /\ t.kind = "add" /\ next # NoIndex
            /\ indexes'["next"] = Index({d \in next.has : \A e \in t.of : d[2] # e[2]} \cup t.of, next.set)

\* ... and to both of them; or nothing.
ServesSwap(t) ==
  /\ IsSwap(t) /\ indexes["next"] # NoIndex
  /\ indexes'["live"] = indexes["next"] /\ indexes'["next"] \in {indexes["live"], NoIndex}

ServesNothing(t) ==
  indexes' = indexes /\ tasks'[served + 1].status # "succeeded"
    /\ (t.kind = "delete" /\ tasks'[served + 1].status = "missing" => indexes["next"] = NoIndex)
    /\ (t.kind = "create" => indexes["next"] # NoIndex \/ tasks'[served + 1].status = "failed")

\* The next task is served, and nothing else.
Serves ==
  LET t == tasks[served + 1]
  IN  /\ served + 1 \in 1 .. Len(tasks) /\ served' = served + 1 /\ t \in TaskType
      /\ UNCHANGED <<rebuild, told, plain, filled, late>>
      /\ tasks' \in Seq(TaskType) /\ Len(tasks') = Len(tasks)
      /\ \A i \in 1 .. Len(tasks) : /\ i # served + 1 => tasks'[i] = tasks[i]
                                    /\ tasks'[i].kind = tasks[i].kind /\ tasks'[i].uid = tasks[i].uid
                                    /\ tasks'[i].of = tasks[i].of
      /\ tasks'[served + 1].status # "enqueued"
      /\ indexes' \in [Uids -> IndexType \cup {NoIndex}]
      /\ ServesNothing(t) \/ (tasks'[served + 1].status = "succeeded" /\ (ServesNext(t) \/ ServesSwap(t)))

\* How each kind of task ends.
LEMMA Outcomes ==
  ASSUME RebuildTyped, NEW t \in TaskType, t.uid = "live" <=> IsSwap(t), NEW end, end = Outcome(t)
  PROVE  /\ end.status \in {"succeeded", "exists", "missing"}
         /\ end.status # "succeeded" => end.indexes = indexes
         /\ end.status = "missing" /\ t.kind = "delete" => indexes["next"] = NoIndex
         /\ end.status # "succeeded" /\ t.kind = "create" => indexes["next"] # NoIndex
         /\ end.indexes \in [Uids -> IndexType \cup {NoIndex}]
         /\ indexes' = end.indexes /\ end.status = "succeeded" => ServesNext(t) \/ ServesSwap(t)
<1> DEFINE was == indexes[t.uid]
           next == indexes["next"]
           As(status, is) == [status |-> status, indexes |-> [indexes EXCEPT ![t.uid] = is]]
<1>0. /\ indexes \in [Uids -> IndexType \cup {NoIndex}] /\ t.uid \in Uids /\ plain \in BOOLEAN
      /\ Uids = {"live", "next"} /\ t.of \in SUBSET ((0 .. MaxRebuilds) \X Batches)
  <2>1. t.of \in SUBSET ((1 .. MaxRebuilds) \X Batches)
    BY DEF TaskType
  <2>2. 1 .. MaxRebuilds \subseteq 0 .. MaxRebuilds
    BY RebuildAssumption
  <2> QED BY <2>1, <2>2 DEF RebuildTyped, TaskType, Uids
<1>1. [indexes EXCEPT ![t.uid] = was] = indexes
  BY <1>0
<1>2. {} \in SUBSET ((0 .. MaxRebuilds) \X Batches) /\ TRUE \in BOOLEAN
  OBVIOUS
<1>3. ~IsSwap(t) => t.uid = "next" /\ was = next
  BY <1>0
<1>4. CASE t.kind = "create"
  <2>1. ~IsSwap(t)
    BY <1>4 DEF IsSwap
  <2>2. CASE next = NoIndex
    <3>1. end = As("succeeded", Index({}, plain))
      BY <1>3, <1>4, <2>1, <2>2 DEF Outcome
    <3>2. Index({}, plain) \in IndexType
      BY <1>0, <1>2, IndexFacts
    <3> QED BY <1>0, <1>3, <1>4, <2>1, <2>2, <3>1, <3>2 DEF ServesNext
  <2>3. CASE next # NoIndex
    <3>1. end = As("exists", was)
      BY <1>3, <1>4, <2>1, <2>3 DEF Outcome
    <3> QED BY <2>3, <1>0, <1>1, <1>4, <3>1
  <2> QED BY <2>2, <2>3
<1>5. CASE t.kind = "delete"
  <2>1. ~IsSwap(t)
    BY <1>5 DEF IsSwap
  <2>2. CASE next # NoIndex
    <3>1. end = As("succeeded", NoIndex)
      BY <1>3, <1>5, <2>1, <2>2 DEF Outcome
    <3> QED BY <1>0, <1>3, <1>5, <2>1, <3>1 DEF ServesNext
  <2>3. CASE next = NoIndex
    <3>1. end = As("missing", was)
      BY <1>3, <1>5, <2>1, <2>3 DEF Outcome
    <3> QED BY <1>5, <1>0, <1>1, <2>3, <3>1
  <2> QED BY <2>2, <2>3
<1>6. CASE t.kind = "settings"
  <2> DEFINE yes == TRUE
  <2>1. ~IsSwap(t) /\ yes \in BOOLEAN
    BY <1>6 DEF IsSwap
  <2>2. ASSUME next # NoIndex
        PROVE  /\ end = As("succeeded", [next EXCEPT !.set = yes])
               /\ next \in IndexType
    BY <1>0, <1>3, <1>6, <2>1, <2>2 DEF Outcome
  <2>3. ASSUME next = NoIndex PROVE end = As("succeeded", Index({}, yes))
    BY <1>3, <1>6, <2>1, <2>3 DEF Outcome
  <2>4. ASSUME NEW has \in SUBSET ((0 .. MaxRebuilds) \X Batches), end = As("succeeded", Index(has, yes)),
               has = IF next = NoIndex THEN {} ELSE next.has
        PROVE  /\ end.status = "succeeded" /\ end.indexes \in [Uids -> IndexType \cup {NoIndex}]
               /\ indexes' = end.indexes => ServesNext(t)
    <3>1. ServesNext(t) <=> /\ indexes'["live"] = indexes["live"] /\ indexes'["next"] = Index(has, yes)
      BY <1>6, <2>1, <2>4 DEF ServesNext
    <3> HIDE DEF yes
    <3>2. Index(has, yes) \in IndexType
      BY <2>1, <2>4, IndexFacts
    <3> QED BY <1>0, <1>3, <2>1, <2>4, <3>1, <3>2
  <2> HIDE DEF yes
  <2>5. CASE next # NoIndex
    <3>1. next.has \in SUBSET ((0 .. MaxRebuilds) \X Batches)
      BY <2>2, <2>5 DEF IndexType
    <3>2. [next EXCEPT !.set = yes] = Index(next.has, yes)
      BY <2>1, <2>2, <2>5 DEF Index, IndexType
    <3> QED BY <2>2, <2>4, <2>5, <3>1, <3>2
  <2>6. CASE next = NoIndex
    BY <1>2, <2>3, <2>4, <2>6
  <2> QED BY <2>5, <2>6
<1>7. CASE t.kind = "add"
  <2>1. ~IsSwap(t)
    BY <1>7 DEF IsSwap
  <2>2. CASE next # NoIndex
    <3> DEFINE after == {d \in next.has : \A e \in t.of : d[2] # e[2]} \cup t.of
    <3>1. end = As("succeeded", [next EXCEPT !.has = after])
      BY <1>3, <1>7, <2>1, <2>2 DEF Outcome
    <3>2. next \in IndexType
      BY <1>0, <2>2
    <3>3. after \in SUBSET ((0 .. MaxRebuilds) \X Batches) /\ next.set \in BOOLEAN
      BY <1>0, <3>2 DEF IndexType
    <3>4. [next EXCEPT !.has = after] = Index(after, next.set)
      BY <3>2 DEF Index, IndexType
    <3>5. Index(after, next.set) \in IndexType
      BY <3>3, IndexFacts
    <3>6. end = As("succeeded", Index(after, next.set))
      BY <3>1, <3>4
    <3> HIDE DEF after
    <3>7. ASSUME indexes' = end.indexes PROVE ServesNext(t)
      <4>1. indexes'["next"] = Index(after, next.set) /\ indexes'["live"] = indexes["live"]
        BY <1>0, <1>3, <2>1, <3>6, <3>7
      <4> QED BY <1>7, <2>1, <2>2, <4>1 DEF ServesNext, after
    <3> QED BY <1>0, <1>7, <3>5, <3>6, <3>7
  <2>3. CASE next = NoIndex
    <3>1. end = As("succeeded", Index(t.of, plain))
      BY <1>3, <1>7, <2>1, <2>3 DEF Outcome
    <3>2. Index(t.of, plain) \in IndexType
      BY <1>0, IndexFacts
    <3> QED BY <1>0, <1>3, <1>7, <2>1, <2>3, <3>1, <3>2 DEF ServesNext
  <2> QED BY <2>2, <2>3
<1>8. CASE t.kind = "swap"
  <2>1. IsSwap(t) /\ t.uid = "live"
    BY <1>8 DEF IsSwap
  <2>2. CASE NoIndex \in {indexes["live"], indexes["next"]}
    <3>1. end = As("missing", was)
      BY <1>8, <2>2 DEF Outcome
    <3> QED BY <1>0, <1>1, <1>8, <3>1
  <2>3. CASE NoIndex \notin {indexes["live"], indexes["next"]}
    <3>1. end = [status |-> "succeeded", indexes |-> [live |-> indexes["next"], next |-> indexes["live"]]]
      BY <1>8, <2>3 DEF Outcome
    <3> QED BY <1>0, <2>1, <2>3, <3>1 DEF ServesSwap
  <2> QED BY <2>2, <2>3
<1>9. CASE t.kind = "rename"
  <2>1. IsSwap(t) /\ t.uid = "live"
    BY <1>9 DEF IsSwap
  <2>2. CASE indexes["next"] = NoIndex \/ indexes["live"] # NoIndex
    <3>1. end = As("exists", was)
      BY <1>9, <2>2 DEF Outcome
    <3> QED BY <1>9, <1>0, <1>1, <3>1
  <2>3. CASE ~(indexes["next"] = NoIndex \/ indexes["live"] # NoIndex)
    <3>1. end = [status |-> "succeeded", indexes |-> [live |-> indexes["next"], next |-> NoIndex]]
      BY <1>9, <2>3 DEF Outcome
    <3> QED BY <1>0, <2>1, <2>3, <3>1 DEF ServesSwap
  <2> QED BY <2>2, <2>3
<1> QED BY <1>4, <1>5, <1>6, <1>7, <1>8, <1>9 DEF TaskType

\* What the server does with a task, whichever it is.
LEMMA Served ==
  ASSUME RebuildTyped, TasksShaped, Serve
  PROVE  Serves
<1> DEFINE n == served + 1
<1>0. /\ n \in 1 .. Len(tasks) /\ tasks \in Seq(TaskType) /\ served' = served + 1
      /\ UNCHANGED <<rebuild, told, plain, filled, late>>
      /\ indexes \in [Uids -> IndexType \cup {NoIndex}]
  BY DEF Serve, RebuildTyped
<1>1. PICK t \in TaskType : t = tasks[n]
  BY <1>0
<1>2. PICK end \in {Outcome(t), [status |-> "failed", indexes |-> indexes]} :
        tasks' = [tasks EXCEPT ![n].status = end.status] /\ indexes' = end.indexes
  BY <1>1 DEF Serve
<1>3. t.uid = "live" <=> IsSwap(t)
  BY <1>0, <1>1 DEF TasksShaped
<1>4. /\ end.status \in {"succeeded", "exists", "missing", "failed"}
      /\ end.indexes \in [Uids -> IndexType \cup {NoIndex}]
      /\ \/ end.indexes = indexes /\ end.status # "succeeded"
              /\ (t.kind = "delete" /\ end.status = "missing" => indexes["next"] = NoIndex)
              /\ (t.kind = "create" => indexes["next"] # NoIndex \/ end.status = "failed")
         \/ end.status = "succeeded" /\ (ServesNext(t) \/ ServesSwap(t))
  <2>1. CASE end = [status |-> "failed", indexes |-> indexes]
    BY <1>0, <2>1
  <2>2. CASE end = Outcome(t)
    BY <1>2, <1>3, <2>2, Outcomes
  <2> QED BY <2>1, <2>2
<1> DEFINE u == [t EXCEPT !.status = end.status]
<1>5. u \in TaskType /\ u.kind = t.kind /\ u.uid = t.uid /\ u.of = t.of /\ u.status = end.status
  BY <1>4 DEF TaskType
<1>6. tasks' = [tasks EXCEPT ![n] = u]
  BY <1>1, <1>2
<1> HIDE DEF u
<1>7. tasks' \in Seq(TaskType) /\ Len(tasks') = Len(tasks) /\ tasks'[n] = u
      /\ \A i \in 1 .. Len(tasks) : i # n => tasks'[i] = tasks[i]
  BY <1>0, <1>5, <1>6
<1>8. \A i \in 1 .. Len(tasks) : /\ tasks'[i].kind = tasks[i].kind /\ tasks'[i].uid = tasks[i].uid
                                 /\ tasks'[i].of = tasks[i].of
  BY <1>1, <1>5, <1>7
<1>9. ServesNothing(t) \/ (tasks'[n].status = "succeeded" /\ (ServesNext(t) \/ ServesSwap(t)))
  BY <1>2, <1>4, <1>5, <1>7 DEF ServesNothing
<1>10. tasks'[n].status # "enqueued" /\ indexes' \in [Uids -> IndexType \cup {NoIndex}]
  BY <1>2, <1>4, <1>5, <1>7
<1> QED BY <1>0, <1>1, <1>7, <1>8, <1>9, <1>10 DEF Serves

\* A task that is served keeps every part of the invariant, too.
LEMMA ServeTyped ==
  ASSUME RebuildTyped, Serves
  PROVE  RebuildTyped'
<1>0. /\ tasks \in Seq(TaskType) /\ served \in 0 .. Len(tasks) /\ served' = served + 1
      /\ served + 1 \in 1 .. Len(tasks) /\ Len(tasks') = Len(tasks)
  BY DEF RebuildTyped, Serves
<1>1. \A i \in 1 .. Len(tasks) : tasks'[i].status = "enqueued" <=> i > served + 1
  <2> SUFFICES ASSUME NEW i \in 1 .. Len(tasks) PROVE tasks'[i].status = "enqueued" <=> i > served + 1
    OBVIOUS
  <2>1. CASE i = served + 1
    BY <1>0, <2>1 DEF Serves
  <2>2. CASE i # served + 1
    <3>1. tasks'[i] = tasks[i] /\ (tasks[i].status = "enqueued" <=> i > served)
      BY <2>2 DEF Serves, RebuildTyped
    <3>2. i > served <=> i > served + 1
      BY <1>0, <2>2
    <3> QED BY <3>1, <3>2
  <2> QED BY <2>1, <2>2
<1>2. served' \in 0 .. Len(tasks')
  BY <1>0
<1>3. \A i \in 1 .. Len(tasks') : tasks'[i].status = "enqueued" <=> i > served'
  BY <1>0, <1>1
<1> QED BY <1>0, <1>2, <1>3 DEF RebuildTyped, Serves

\* Tasks look as they did.
LEMMA ServeShapes ==
  ASSUME RebuildTyped, TasksShaped, Serves
  PROVE  TasksShaped'
BY DEF TasksShaped, Serves, IsSwap

\* Documents come from the task or were there.
LEMMA ServeDocs ==
  ASSUME RebuildTyped, DocsOfRuns, Serves
  PROVE  DocsOfRuns' /\ (Deleted => Deleted')
<1> DEFINE t == tasks[served + 1]
           Of(uid, P) == indexes[uid] # NoIndex /\ P \in indexes[uid].has
<1>0. /\ served + 1 \in 1 .. Len(tasks) /\ served' = served + 1 /\ Len(tasks') = Len(tasks)
      /\ rebuild' = rebuild /\ filled' = filled /\ told' = told /\ served \in Nat
      /\ \A i \in 1 .. Len(tasks) : tasks'[i].of = tasks[i].of
  BY DEF Serves, RebuildTyped
<1>1. ASSUME NEW uid \in Uids, indexes'[uid] # NoIndex, NEW d \in indexes'[uid].has
      PROVE  d \in t.of \/ \E v \in Uids : indexes[v] # NoIndex /\ d \in indexes[v].has
  <2>0. Uids = {"live", "next"}
    BY DEF Uids
  <2>1. CASE ServesNothing(t)
    BY <1>1, <2>1 DEF ServesNothing
  <2>2. CASE ServesSwap(t)
    BY <1>1, <2>0, <2>2 DEF ServesSwap
  <2>3. CASE ServesNext(t)
    <3>1. CASE uid = "live"
      BY <1>1, <2>3, <3>1 DEF ServesNext
    <3>2. CASE uid = "next"
      BY <1>1, <2>3, <3>2 DEF ServesNext, Index
    <3> QED BY <2>0, <3>1, <3>2
  <2> QED BY <2>1, <2>2, <2>3 DEF Serves
<1>2. DocsOfRuns'
  <2>1. ASSUME NEW uid \in Uids, indexes'[uid] # NoIndex, NEW d \in indexes'[uid].has
        PROVE  d[1] <= rebuild.run /\ d[2] \in filled[d[1]]
    BY <1>0, <1>1, <2>1 DEF DocsOfRuns
  <2> QED BY <1>0, <2>1 DEF DocsOfRuns
<1>3. ASSUME Deleted PROVE Deleted'
  <2> SUFFICES ASSUME NEW r \in 1 .. MaxRebuilds, told[r] = "deleted"
               PROVE  /\ \A uid \in Uids : indexes'[uid] # NoIndex => \A d \in indexes'[uid].has : d[1] # r
                      /\ \A i \in served' + 1 .. Len(tasks') : \A d \in tasks'[i].of : d[1] # r
    BY <1>0 DEF Deleted
  <2>1. /\ \A uid \in Uids : indexes[uid] # NoIndex => \A d \in indexes[uid].has : d[1] # r
        /\ \A i \in served + 1 .. Len(tasks) : \A d \in tasks[i].of : d[1] # r
    BY <1>3 DEF Deleted
  <2>2. \A d \in t.of : d[1] # r
    BY <1>0, <2>1
  <2>3. \A uid \in Uids : indexes'[uid] # NoIndex => \A d \in indexes'[uid].has : d[1] # r
    BY <1>1, <2>1, <2>2
  <2>4. \A i \in served' + 1 .. Len(tasks') : i \in served + 1 .. Len(tasks) /\ tasks'[i].of = tasks[i].of
    BY <1>0
  <2> QED BY <2>1, <2>3, <2>4
<1> QED BY <1>2, <1>3

\* A swap that is served puts what the next index held in place.
LEMMA ServeLive ==
  ASSUME RebuildTyped, RunsAhead, DocsOfRuns, LiveSound, SwapSound, AwaitedRight, Serves
  PROVE  LiveSound'
<1> DEFINE t == tasks[served + 1]
<1>0. /\ served + 1 \in 1 .. Len(tasks) /\ served' = served + 1 /\ Len(tasks') = Len(tasks)
      /\ UNCHANGED <<rebuild, told, plain, filled, late>> /\ served \in Nat /\ Len(tasks) \in Nat
      /\ rebuild.run \in 0 .. MaxRebuilds /\ rebuild.task \in Nat
      /\ \A i \in 1 .. Len(tasks) : i # served + 1 => tasks'[i] = tasks[i]
  BY DEF Serves, RebuildTyped, RunType
<1>1. ASSUME indexes'["live"] = indexes["live"], tasks'[served + 1].status # "succeeded" \/ ~IsSwap(t)
      PROVE  LiveSound'
  <2>1. InPlace' <=> InPlace
    <3>1. CASE rebuild.at # "swapping"
      BY <1>0, <3>1 DEF InPlace
    <3>2. CASE rebuild.at = "swapping" /\ rebuild.task \in 1 .. served
      <4>1. rebuild.task \in 1 .. served + 1 /\ tasks'[rebuild.task] = tasks[rebuild.task]
        BY <1>0, <3>2
      <4> QED BY <1>0, <3>2, <4>1 DEF InPlace, Answered, Awaited
    <3>3. CASE rebuild.at = "swapping" /\ rebuild.task \notin 1 .. served
      <4>1. ~InPlace
        BY <3>3 DEF InPlace, Answered
      <4>2. ASSUME InPlace' PROVE FALSE
        <5>1. rebuild.task \in 1 .. served + 1 /\ tasks'[rebuild.task].status = "succeeded"
          BY <1>0, <3>3, <4>2 DEF InPlace, Answered, Awaited
        <5>2. rebuild.task = served + 1
          BY <1>0, <3>3, <5>1
        <5>3. IsSwap(t)
          BY <3>3, <5>2 DEF AwaitedRight
        <5> QED BY <1>1, <5>1, <5>2, <5>3
      <4> QED BY <4>1, <4>2
    <3> QED BY <3>1, <3>2, <3>3
  <2>2. Landed' <=> Landed
    BY <1>0, <2>1 DEF Landed
  <2>3. \A r \in 0 .. MaxRebuilds : /\ Rebuilt(r, indexes["live"])' <=> Rebuilt(r, indexes["live"])
                                    /\ AsItWas(r)' <=> AsItWas(r)
    BY <1>0, <1>1 DEF Rebuilt, AllOf, AsItWas
  <2>4. 0 .. rebuild.run \subseteq 0 .. MaxRebuilds
    BY <1>0, RebuildAssumption
  <2>5. ASSUME indexes["live"] # NoIndex
        PROVE \E r \in 0 .. rebuild.run :
                /\ Rebuilt(r, indexes["live"])' /\ ~AsItWas(r)'
                /\ r = rebuild.run => Landed'
                /\ InPlace' => r = rebuild.run
                /\ \A q \in 1 .. MaxRebuilds : told[q] = "done" => q <= r
    BY <2>1, <2>2, <2>3, <2>4, <2>5 DEF LiveSound
  <2>6. indexes["live"] # NoIndex /\ ~Landed' => \A d \in indexes["live"].has : d[1] < rebuild.run
    BY <2>2 DEF LiveSound
  <2>7. indexes["live"] = NoIndex => ~InPlace' /\ \A q \in 1 .. MaxRebuilds : told[q] # "done"
    BY <2>1 DEF LiveSound
  <2> QED BY <1>0, <1>1, <2>5, <2>6, <2>7 DEF LiveSound
<1>2. ASSUME ServesSwap(t), tasks'[served + 1].status = "succeeded" PROVE LiveSound'
  <2>1. SwapsIn(served + 1)
    BY <1>0, <1>2 DEF SwapSound, ServesSwap
  <2>2. indexes["next"] # NoIndex /\ indexes'["live"] = indexes["next"]
    BY <1>2 DEF ServesSwap
  <2>3. rebuild.at \in {"swapping", "over", "looking", "leftover", "leftover's deletion"}
        /\ (rebuild.at = "swapping" => rebuild.task = served + 1)
    BY <2>1, <2>2 DEF SwapsIn
  <2>4. PICK r \in 1 .. rebuild.run :
            /\ Rebuilt(r, indexes["next"]) /\ ~AsItWas(r)
            /\ rebuild.at = "swapping" => r = rebuild.run
            /\ r = rebuild.run => rebuild.at \in {"swapping", "over"}
            /\ \A d \in indexes["next"].has : d[1] <= r
            /\ \A q \in 1 .. MaxRebuilds : told[q] = "done" => q <= r
    BY <2>1, <2>2 DEF SwapsIn
  <2>5. Answered' \/ rebuild.at # "swapping"
    <3>1. rebuild.at # "swapping" \/ rebuild.task = served + 1
      BY <2>3
    <3>2. rebuild.task = served + 1 => rebuild.task \in 1 .. served + 1
      BY <1>0
    <3>3. rebuild' = rebuild /\ served' = served + 1
      BY <1>0
    <3> QED BY <3>1, <3>2, <3>3 DEF Answered
  <2>6. Landed' <=> rebuild.at \in {"swapping", "over"}
    BY <1>0, <1>2, <2>3, <2>5 DEF Landed, InPlace, Awaited
  <2>7. InPlace' => rebuild.at = "swapping"
    BY <1>0, <2>3 DEF InPlace
  <2>8. Rebuilt(r, indexes["live"])' /\ ~AsItWas(r)'
    BY <1>0, <2>2, <2>4 DEF Rebuilt, AllOf, AsItWas
  <2>9. ASSUME ~Landed', NEW d \in indexes["next"].has PROVE d[1] < rebuild.run
    <3>1. r # rebuild.run
      BY <2>4, <2>6, <2>9
    <3>2. d[1] <= r /\ d[1] \in Nat
      <4>1. indexes["next"] \in IndexType
        BY <2>2 DEF RebuildTyped, Uids
      <4> QED BY <2>4, <2>9, <4>1 DEF IndexType
    <3> QED BY <1>0, <3>1, <3>2
  <2>10. r \in 0 .. rebuild.run
    BY <1>0
  <2>11. \E s \in 0 .. rebuild.run :
            /\ Rebuilt(s, indexes["live"])' /\ ~AsItWas(s)'
            /\ s = rebuild.run => Landed'
            /\ InPlace' => s = rebuild.run
            /\ \A q \in 1 .. MaxRebuilds : told[q] = "done" => q <= s
    BY <2>4, <2>6, <2>7, <2>8, <2>10
  <2> QED BY <1>0, <2>2, <2>9, <2>11 DEF LiveSound
<1> QED BY <1>1, <1>2 DEF Serves, ServesNothing, ServesNext

\* No swap is left behind the one served.
LEMMA ServeSwaps ==
  ASSUME RebuildTyped, SwapSound, Serves
  PROVE  SwapSound'
<1> SUFFICES ASSUME NEW i \in 1 .. Len(tasks'), i > served', IsSwap(tasks[i])' PROVE FALSE
  BY DEF SwapSound
<1>0. served' = served + 1 /\ Len(tasks') = Len(tasks) /\ served \in Nat /\ Len(tasks) \in Nat
  BY DEF Serves, RebuildTyped
<1>1. i \in 1 .. Len(tasks) /\ i > served /\ i # served + 1
  BY <1>0
<1>2. IsSwap(tasks[i])
  BY <1>1 DEF IsSwap, Serves
<1> QED BY <1>1, <1>2 DEF SwapSound, SwapsIn

\* A deletion that is served leaves no next index.
LEMMA ServeAwaits ==
  ASSUME RebuildTyped, AwaitedRight, Serves
  PROVE  AwaitedRight'
<1> DEFINE t == tasks[served + 1]
<1>0. /\ served' = served + 1 /\ Len(tasks') = Len(tasks) /\ served \in Nat /\ Len(tasks) \in Nat
      /\ served + 1 \in 1 .. Len(tasks) /\ rebuild' = rebuild
  BY DEF Serves, RebuildTyped
<1>1. rebuild.at \in {"leftover's deletion", "creation", "settings", "discard", "previous' deletion", "swapping"}
       => rebuild.task = Len(tasks) /\ rebuild.task > 0 /\ rebuild.task \in 1 .. Len(tasks)
  <2>1. 0 < Len(tasks) /\ Len(tasks) \in 1 .. Len(tasks)
    BY <1>0
  <2> QED BY <2>1 DEF AwaitedRight
<1>2. rebuild.task \in 1 .. Len(tasks) => tasks'[rebuild.task].kind = tasks[rebuild.task].kind
  BY DEF Serves
<1>3. ASSUME rebuild.at \in {"leftover's deletion", "discard"}, served' = Len(tasks'),
             tasks'[rebuild.task].status \in {"succeeded", "missing"}
      PROVE  indexes'["next"] = NoIndex
  <2>1. rebuild.task = served + 1
    BY <1>0, <1>1, <1>3
  <2>2. t.kind = "delete"
    BY <1>3, <2>1 DEF AwaitedRight
  <2> QED BY <1>3, <2>1, <2>2 DEF Serves, ServesNothing, ServesNext, ServesSwap, IsSwap
<1>4. rebuild.at \in {"leftover's deletion", "discard", "previous' deletion"} => tasks'[rebuild.task].kind = "delete"
  BY <1>1, <1>2 DEF AwaitedRight
<1>5. rebuild.at = "swapping" => tasks'[rebuild.task].kind \in {"swap", "rename"}
  BY <1>1, <1>2 DEF AwaitedRight, IsSwap
<1> QED BY <1>0, <1>1, <1>3, <1>4, <1>5 DEF AwaitedRight, IsSwap

\* What was added and served is in the next index, and what is added beside it.
LEMMA AddsStay ==
  ASSUME RebuildTyped, NEW t \in TaskType, t.of \subseteq AllOf(rebuild.run), t.kind = "add", ServesNext(t),
         NEW b, indexes["next"] # NoIndex, <<rebuild.run, b>> \in indexes["next"].has
  PROVE  indexes'["next"] # NoIndex /\ <<rebuild.run, b>> \in indexes'["next"].has
<1>1. PICK after : after = {d \in indexes["next"].has : \A e \in t.of : d[2] # e[2]} \cup t.of
  OBVIOUS
<1>2. indexes'["next"] = Index(after, indexes["next"].set)
  BY <1>1 DEF ServesNext
<1>3. indexes["next"] \in IndexType
  BY DEF RebuildTyped, Uids
<1>4. t.of \in SUBSET ((0 .. MaxRebuilds) \X Batches)
  <2>1. 1 .. MaxRebuilds \subseteq 0 .. MaxRebuilds
    BY RebuildAssumption
  <2> QED BY <2>1 DEF TaskType
<1>5. after \in SUBSET ((0 .. MaxRebuilds) \X Batches) /\ indexes["next"].set \in BOOLEAN
  BY <1>1, <1>3, <1>4 DEF IndexType
<1>6. indexes'["next"] # NoIndex /\ indexes'["next"].has = after
  BY <1>2, <1>5, IndexFacts
<1>7. <<rebuild.run, b>> \in after
  <2>1. CASE \A e \in t.of : b # e[2]
    BY <1>1, <2>1
  <2>2. CASE ~ \A e \in t.of : b # e[2]
    <3>1. PICK e \in t.of : b = e[2]
      BY <2>2
    <3>2. e = <<rebuild.run, b>>
      BY <3>1 DEF AllOf
    <3> QED BY <1>1, <3>1, <3>2
  <2> QED BY <2>1, <2>2
<1> QED BY <1>6, <1>7

\* A batch that is served is in the next index.
LEMMA ServeFilling ==
  ASSUME RebuildTyped, Filling, Serves
  PROVE  Filling'
<1> DEFINE t == tasks[served + 1]
<1>0. /\ served' = served + 1 /\ Len(tasks') = Len(tasks) /\ served \in Nat /\ Len(tasks) \in Nat
      /\ served + 1 \in 1 .. Len(tasks) /\ rebuild' = rebuild /\ filled' = filled /\ t \in TaskType
  BY DEF Serves, RebuildTyped
<1> SUFFICES ASSUME rebuild.at \in {"filling", "settling"}, NEW b \in filled[rebuild.run]
             PROVE  \E i \in 1 .. Len(tasks) :
                       /\ i > rebuild.since /\ tasks'[i].of = {<<rebuild.run, b>>}
                       /\ \A j \in i .. Len(tasks) : OwnAdd(j)'
                       /\ i <= served + 1 /\ tasks'[i].status = "succeeded" =>
                            indexes'["next"] # NoIndex /\ <<rebuild.run, b>> \in indexes'["next"].has
  BY <1>0 DEF Filling
<1>1. PICK i \in 1 .. Len(tasks) :
             /\ i > rebuild.since /\ tasks[i].of = {<<rebuild.run, b>>}
             /\ \A j \in i .. Len(tasks) : OwnAdd(j)
             /\ i <= served /\ tasks[i].status = "succeeded" =>
                  indexes["next"] # NoIndex /\ <<rebuild.run, b>> \in indexes["next"].has
  BY DEF Filling
<1>2. \A j \in i .. Len(tasks) : OwnAdd(j)'
  <2> SUFFICES ASSUME NEW j \in i .. Len(tasks) PROVE OwnAdd(j)'
    OBVIOUS
  <2>1. j \in 1 .. Len(tasks) /\ OwnAdd(j)
    BY <1>0, <1>1
  <2> QED BY <1>0, <2>1 DEF OwnAdd, AllOf, Serves
<1>3. tasks'[i].of = {<<rebuild.run, b>>}
  BY <1>1 DEF Serves
<1>4. ASSUME i <= served + 1, tasks'[i].status = "succeeded"
      PROVE  indexes'["next"] # NoIndex /\ <<rebuild.run, b>> \in indexes'["next"].has
  <2>1. OwnAdd(served + 1)
    <3>1. served + 1 \in i .. Len(tasks)
      BY <1>0, <1>4
    <3> QED BY <1>1, <3>1
  <2>2. t.kind = "add" /\ t.uid = "next" /\ t.of \subseteq AllOf(rebuild.run) /\ ~IsSwap(t)
    BY <2>1 DEF OwnAdd, IsSwap
  <2>3. CASE i = served + 1
    <3>1. ServesNext(t) /\ t.of = {<<rebuild.run, b>>}
      BY <1>1, <1>4, <2>2, <2>3 DEF Serves, ServesNothing, ServesSwap
    <3>2. PICK after : after = {d \in indexes["next"].has : \A e \in t.of : d[2] # e[2]} \cup t.of
      OBVIOUS
    <3>3. CASE indexes["next"] = NoIndex
      <4>1. indexes'["next"] = Index(t.of, plain)
        BY <2>2, <3>1, <3>3 DEF ServesNext
      <4>2. indexes'["next"] # NoIndex
        <5>1. 1 .. MaxRebuilds \subseteq 0 .. MaxRebuilds
          BY RebuildAssumption
        <5>2. t.of \in SUBSET ((0 .. MaxRebuilds) \X Batches) /\ plain \in BOOLEAN
          BY <1>0, <5>1 DEF TaskType, RebuildTyped
        <5> QED BY <4>1, <5>2, IndexFacts
      <4> QED BY <3>1, <4>1, <4>2 DEF Index
    <3>4. CASE indexes["next"] # NoIndex
      <4>1. indexes'["next"] = Index(after, indexes["next"].set)
        BY <2>2, <3>1, <3>2, <3>4 DEF ServesNext
      <4>2. indexes["next"] \in IndexType
        BY <3>4 DEF RebuildTyped, Uids
      <4>3. 1 .. MaxRebuilds \subseteq 0 .. MaxRebuilds
        BY RebuildAssumption
      <4>4. after \in SUBSET ((0 .. MaxRebuilds) \X Batches) /\ indexes["next"].set \in BOOLEAN
        BY <1>0, <3>2, <4>2, <4>3 DEF IndexType, TaskType
      <4>5. indexes'["next"] # NoIndex /\ indexes'["next"].has = after
        BY <4>1, <4>4, IndexFacts
      <4> QED BY <3>1, <3>2, <4>5
    <3> QED BY <3>3, <3>4
  <2>4. CASE i <= served
    <3>1. indexes["next"] # NoIndex /\ <<rebuild.run, b>> \in indexes["next"].has
      <4>1. i # served + 1
        BY <1>0, <2>4
      <4> QED BY <1>1, <1>4, <2>4, <4>1 DEF Serves
    <3>2. CASE ServesNothing(t)
      BY <3>1, <3>2 DEF ServesNothing
    <3>3. CASE ServesNext(t)
      BY <1>0, <2>2, <3>1, <3>3, AddsStay
    <3> QED BY <2>2, <3>2, <3>3 DEF Serves, ServesSwap
  <2> QED BY <1>0, <1>4, <2>3, <2>4
<1> QED BY <1>1, <1>2, <1>3, <1>4

\* Nothing is served where nothing is left.
LEMMA ServeFilled ==
  ASSUME RebuildTyped, Filled, Serves
  PROVE  Filled'
<1>1. served + 1 \in 1 .. Len(tasks) /\ served \in Nat /\ Len(tasks) \in Nat /\ rebuild' = rebuild
  BY DEF Serves, RebuildTyped
<1>2. served # Len(tasks)
  BY <1>1
<1> QED BY <1>1, <1>2 DEF Filled

\* The only task that is left does what its run asked.
LEMMA ServeAlone ==
  ASSUME RebuildTyped, TasksShaped, NextAlone, Filled, Serves
  PROVE  NextAlone'
<1> DEFINE t == tasks[served + 1]
           next == indexes["next"]
           last == tasks[Len(tasks)]
<1>0. /\ served' = served + 1 /\ Len(tasks') = Len(tasks) /\ served \in Nat /\ Len(tasks) \in Nat
      /\ served + 1 \in 1 .. Len(tasks) /\ rebuild' = rebuild /\ filled' = filled /\ late' = late /\ plain' = plain
      /\ served # Len(tasks) /\ t \in TaskType
  BY DEF Serves, RebuildTyped
<1> SUFFICES ASSUME rebuild.run \notin late PROVE NextAlone'
  BY <1>0 DEF NextAlone
<1>1. rebuild.at \notin {"looking", "leftover", "creating", "setting"}
  BY <1>0 DEF NextAlone
<1>2. ASSUME rebuild.at \in {"creating", "leftover's deletion", "creation", "settings"}
      PROVE  served' = Len(tasks') /\ served + 1 = Len(tasks)
  <2>1. served >= Len(tasks) - 1
    BY <1>2 DEF NextAlone
  <2> QED BY <1>0, <2>1
<1>3. ASSUME rebuild.at = "creation"
      PROVE  /\ tasks'[Len(tasks)].kind = "create"
             /\ tasks'[Len(tasks)].status \in {"succeeded", "failed"}
             /\ tasks'[Len(tasks)].status = "succeeded" => indexes'["next"] = Index({}, plain)
  <2>1. t.kind = "create" /\ next = NoIndex /\ served + 1 = Len(tasks)
    BY <1>0, <1>2, <1>3 DEF NextAlone
  <2>2. tasks'[served + 1].kind = "create"
    BY <1>0, <2>1 DEF Serves
  <2>3. CASE ServesNothing(t)
    BY <2>1, <2>2, <2>3 DEF ServesNothing
  <2>4. CASE ServesNext(t) /\ tasks'[served + 1].status = "succeeded"
    BY <2>1, <2>2, <2>4 DEF ServesNext
  <2> QED BY <2>1, <2>3, <2>4 DEF Serves, ServesSwap, IsSwap
<1>4. ASSUME rebuild.at = "settings"
      PROVE  /\ tasks'[Len(tasks)].kind = "settings"
             /\ tasks'[Len(tasks)].status = "succeeded" => indexes'["next"] = Index({}, TRUE)
  <2>1. t.kind = "settings" /\ next = Index({}, plain) /\ served + 1 = Len(tasks)
    BY <1>0, <1>2, <1>4 DEF NextAlone
  <2>2. next # NoIndex /\ next.has = {}
    BY <2>1, IndexFacts DEF RebuildTyped
  <2> QED BY <1>0, <2>1, <2>2 DEF Serves, ServesNothing, ServesNext, ServesSwap, IsSwap
<1>5. ASSUME rebuild.at \in {"filling", "settling"}
      PROVE  /\ indexes'["next"] # NoIndex /\ indexes'["next"].set /\ indexes'["next"].has \subseteq AllOf(rebuild.run)
             /\ \A i \in served' + 1 .. Len(tasks') : OwnAdd(i)'
  <2>1. /\ next # NoIndex /\ next.set /\ next.has \subseteq AllOf(rebuild.run)
        /\ \A i \in served + 1 .. Len(tasks) : OwnAdd(i)
    BY <1>5 DEF NextAlone
  <2>2. \A i \in served' + 1 .. Len(tasks') : OwnAdd(i)'
    <3> SUFFICES ASSUME NEW i \in served' + 1 .. Len(tasks') PROVE OwnAdd(i)'
      OBVIOUS
    <3>1. i \in 1 .. Len(tasks) /\ i \in served + 1 .. Len(tasks)
      BY <1>0
    <3> QED BY <1>0, <2>1, <3>1 DEF OwnAdd, AllOf, Serves
  <2>3. t.kind = "add" /\ t.of \subseteq AllOf(rebuild.run) /\ ~IsSwap(t)
    BY <1>0, <2>1 DEF OwnAdd, IsSwap
  <2>4. CASE ServesNothing(t)
    BY <2>1, <2>2, <2>4 DEF ServesNothing
  <2>5. CASE ServesNext(t)
    <3>1. PICK after : after = {d \in next.has : \A e \in t.of : d[2] # e[2]} \cup t.of
      OBVIOUS
    <3>2. indexes'["next"] = Index(after, next.set)
      BY <2>1, <2>3, <2>5, <3>1 DEF ServesNext
    <3>3. next \in IndexType
      BY <2>1 DEF RebuildTyped, Uids
    <3>4. 1 .. MaxRebuilds \subseteq 0 .. MaxRebuilds
      BY RebuildAssumption
    <3>5. after \in SUBSET ((0 .. MaxRebuilds) \X Batches) /\ next.set \in BOOLEAN
      BY <1>0, <3>1, <3>3, <3>4 DEF IndexType, TaskType
    <3>6. indexes'["next"] # NoIndex /\ indexes'["next"].has = after /\ indexes'["next"].set = next.set
      BY <3>2, <3>5, IndexFacts
    <3>7. after \subseteq AllOf(rebuild.run)
      BY <2>1, <2>3, <3>1
    <3> QED BY <2>1, <2>2, <3>6, <3>7
  <2> QED BY <2>3, <2>4, <2>5 DEF Serves, ServesSwap
<1>6. rebuild.at \notin {"live", "swap", "sending"}
  BY <1>0 DEF Filled
<1>7. ASSUME rebuild.at \in {"leftover's deletion", "creation", "settings"} PROVE served' >= Len(tasks') - 1
  <2>1. served' = Len(tasks')
    BY <1>2, <1>7
  <2> QED BY <1>0, <2>1
<1>8. /\ rebuild.at \in {"leftover's deletion", "creation", "settings"} => served' >= Len(tasks') - 1
      /\ rebuild.at \in {"creation", "settings"} => served' = Len(tasks')
  BY <1>2, <1>7
<1>9. CASE rebuild.at = "leftover's deletion"
  BY <1>0, <1>8, <1>9 DEF NextAlone
<1>10. CASE rebuild.at = "creation"
  BY <1>0, <1>3, <1>8, <1>10 DEF NextAlone
<1>11. CASE rebuild.at = "settings"
  BY <1>0, <1>4, <1>8, <1>11 DEF NextAlone
<1>12. CASE rebuild.at \in {"filling", "settling"}
  <2>1. rebuild' = rebuild /\ filled' = filled
    BY <1>0
  <2>2. /\ indexes'["next"] # NoIndex /\ indexes'["next"].set /\ indexes'["next"].has \subseteq AllOf(rebuild.run)'
        /\ \A i \in served' + 1 .. Len(tasks') : OwnAdd(i)'
    BY <1>5, <1>12, <2>1 DEF AllOf
  <2>3. rebuild'.at \in {"filling", "settling"}
    BY <1>12, <2>1
  <2> QED BY <2>2, <2>3 DEF NextAlone
<1>13. CASE rebuild.at \notin {"leftover's deletion", "creation", "settings", "filling", "settling"}
  BY <1>0, <1>1, <1>6, <1>13 DEF NextAlone
<1> QED BY <1>9, <1>10, <1>11, <1>12, <1>13

\* Another process creates the live index where none is.
LEMMA SyncKeeps ==
  ASSUME RebuildInv, SyncLive
  PROVE  RebuildInv'
<1> USE DEF RebuildInv
<1>0. /\ indexes["live"] = NoIndex /\ indexes \in [Uids -> IndexType \cup {NoIndex}]
      /\ indexes' = [indexes EXCEPT !["live"] = Index(AllOf(0), TRUE)] /\ Uids = {"live", "next"}
      /\ UNCHANGED <<tasks, served, rebuild, told, plain, filled, late>>
      /\ rebuild.run \in 0 .. MaxRebuilds /\ rebuild \in RunType
  BY DEF SyncLive, RebuildTyped, RunType, Uids
<1>1. AllOf(0) \in SUBSET ((0 .. MaxRebuilds) \X Batches) /\ \A d \in AllOf(0) : d[1] = 0 /\ d[2] \in filled[0]
  BY RebuildAssumption DEF AllOf, RebuildTyped
<1>2. PICK live : live = Index(AllOf(0), TRUE)
  OBVIOUS
<1>3. live \in IndexType /\ live # NoIndex /\ live.has = AllOf(0)
  BY <1>1, <1>2, IndexFacts
<1>4. indexes'["live"] = live /\ indexes'["next"] = indexes["next"] /\ indexes' \in [Uids -> IndexType \cup {NoIndex}]
  BY <1>0, <1>2, <1>3
<1>5. RebuildTyped'
  BY <1>0, <1>4 DEF RebuildTyped
<1>6. TasksShaped' /\ StopRight' /\ RunsAhead'
  BY <1>0 DEF TasksShaped, StopRight, RunsAhead, IsSwap
<1>7. DocsOfRuns'
  <2>1. \A d \in live.has : d[1] <= rebuild.run /\ d[2] \in filled[d[1]]
    BY <1>0, <1>1, <1>3
  <2> QED BY <1>0, <1>4, <2>1 DEF DocsOfRuns
<1>8. LiveSound'
  <2>1. ~InPlace /\ \A q \in 1 .. MaxRebuilds : told[q] # "done"
    BY <1>0 DEF LiveSound
  <2>2. rebuild.run = 0 => rebuild.at = "over"
    BY DEF RunsAhead
  <2>3. Rebuilt(0, indexes["live"])' /\ ~AsItWas(0)'
    <3>1. 0 \notin late
      BY DEF RebuildTyped
    <3>2. live = Index(AllOf(0)', TRUE) /\ AllOf(0)' \subseteq live.has
      BY <1>0, <1>2, <1>3 DEF AllOf
    <3>3. indexes'["live"] # NoIndex /\ AllOf(0)' \subseteq indexes'["live"].has
          /\ indexes'["live"] = Index(AllOf(0)', TRUE)
      BY <1>3, <1>4, <3>2
    <3>4. ~AsItWas(0)'
      BY DEF AsItWas
    <3> QED BY <3>3, <3>4 DEF Rebuilt
  <2>4. InPlace' <=> InPlace
    BY <1>0 DEF InPlace, Answered, Awaited
  <2>5. rebuild.run = 0 => Landed'
    BY <1>0, <2>2 DEF Landed
  <2>6. ASSUME ~Landed', NEW d \in live.has PROVE d[1] < rebuild.run
    <3>1. rebuild.run # 0 /\ d[1] = 0
      BY <1>1, <1>3, <2>5, <2>6
    <3> QED BY <1>0, <3>1
  <2>7. 0 \in 0 .. rebuild.run /\ \A q \in 1 .. MaxRebuilds : told'[q] # "done"
    BY <1>0, <2>1
  <2>8. \E r \in 0 .. rebuild.run :
          /\ Rebuilt(r, indexes["live"])' /\ ~AsItWas(r)'
          /\ r = rebuild.run => Landed'
          /\ InPlace' => r = rebuild.run
          /\ \A q \in 1 .. MaxRebuilds : told'[q] = "done" => q <= r
    BY <2>1, <2>3, <2>4, <2>5, <2>7
  <2> QED BY <1>0, <1>3, <1>4, <2>6, <2>8 DEF LiveSound
<1>9. SwapSound'
  <2>1. \A i : SwapsIn(i)' <=> SwapsIn(i)
    BY <1>0, <1>4 DEF SwapsIn, Rebuilt, AllOf, AsItWas, IsSwap
  <2> QED BY <1>0, <2>1 DEF SwapSound, IsSwap
<1>10. AwaitedRight'
  BY <1>0, <1>4 DEF AwaitedRight, IsSwap
<1>11. Filling'
  BY <1>0, <1>4 DEF Filling, OwnAdd, AllOf
<1>12. Filled'
  BY <1>0, <1>4 DEF Filled, Rebuilt, AllOf
<1>13. NextAlone'
  BY <1>0, <1>4 DEF NextAlone, OwnAdd, AllOf
<1>14. Deleted'
  <2>1. \A r \in 1 .. MaxRebuilds : r # 0
    OBVIOUS
  <2>2. \A r \in 1 .. MaxRebuilds : \A d \in live.has : d[1] # r
    BY <1>1, <1>3, <2>1
  <2> QED BY <1>0, <1>4, <2>2 DEF Deleted
<1> QED BY <1>5, <1>6, <1>7, <1>8, <1>9, <1>10, <1>11, <1>12, <1>13, <1>14

\* A run begins.
LEMMA BeginKeeps ==
  ASSUME RebuildInv, BeginRebuild
  PROVE  RebuildInv'
<1> USE DEF RebuildInv
<1>0. /\ rebuild.at = "over" /\ rebuild.run \in 0 .. MaxRebuilds /\ rebuild.run < MaxRebuilds
      /\ rebuild' = [Before(rebuild.run + 1) EXCEPT !.at = "looking"]
      /\ late' = IF served < Len(tasks) THEN late \cup {rebuild.run + 1} ELSE late
      /\ UNCHANGED <<indexes, tasks, served, told, plain, filled>>
      /\ served \in 0 .. Len(tasks) /\ Len(tasks) \in Nat
  BY DEF BeginRebuild, RebuildTyped, RunType
<1> DEFINE n == rebuild.run + 1
<1>1. n \in 1 .. MaxRebuilds
  BY <1>0, RebuildAssumption
<1>2. /\ rebuild' \in RunType /\ rebuild'.at = "looking" /\ rebuild'.run = n /\ rebuild'.stop = "raw"
      /\ rebuild'.task = 0 /\ rebuild'.since = 0
  <2>1. n \in 0 .. MaxRebuilds /\ rebuild' = [Before(n) EXCEPT !.at = "looking"]
    BY <1>0, <1>1
  <2> HIDE DEF n
  <2> QED BY <2>1 DEF Before, RunType, RebuildPhases
<1>3. late' \in SUBSET (1 .. MaxRebuilds) /\ \A r \in 0 .. MaxRebuilds : r # n => (r \in late' <=> r \in late)
  BY <1>0, <1>1 DEF RebuildTyped
<1>4. RebuildTyped'
  BY <1>0, <1>2, <1>3 DEF RebuildTyped
<1>5. TasksShaped' /\ StopRight'
  BY <1>0, <1>2 DEF TasksShaped, StopRight, IsSwap
<1>6. RunsAhead'
  <2>1. \A r \in 1 .. MaxRebuilds : r > rebuild.run => told[r] = "nothing" /\ filled[r] = {}
    BY DEF RunsAhead
  <2>2. \A r \in 1 .. MaxRebuilds : r >= n => r > rebuild.run
    BY <1>0
  <2>3. \A r \in 1 .. MaxRebuilds : r > n \/ r = n => r >= n
    BY <1>0
  <2>4. \A r \in late' : r <= n
    <3>1. \A r \in late : r <= rebuild.run /\ r \in 1 .. MaxRebuilds
      BY DEF RunsAhead, RebuildTyped
    <3> QED BY <1>0, <3>1
  <2>5. n # 0
    BY <1>1
  <2> QED BY <1>0, <1>1, <1>2, <2>1, <2>2, <2>3, <2>4, <2>5 DEF RunsAhead
<1>7. DocsOfRuns'
  <2>1. \A d : d[1] \in 0 .. MaxRebuilds /\ d[1] <= rebuild.run => d[1] <= n
    BY <1>0
  <2>2. \A uid \in Uids : indexes[uid] # NoIndex => \A d \in indexes[uid].has : d[1] \in 0 .. MaxRebuilds
    BY DEF RebuildTyped, IndexType
  <2>3. \A i \in 1 .. Len(tasks) : \A d \in tasks[i].of : d[1] \in 0 .. MaxRebuilds
    <3> SUFFICES ASSUME NEW i \in 1 .. Len(tasks), NEW d \in tasks[i].of PROVE d[1] \in 0 .. MaxRebuilds
      OBVIOUS
    <3>1. tasks[i] \in TaskType
      BY DEF RebuildTyped
    <3> QED BY <3>1 DEF TaskType
  <2> QED BY <1>0, <1>2, <2>1, <2>2, <2>3 DEF DocsOfRuns
<1>8. \A r \in 0 .. MaxRebuilds : r # n => \A uid \in Uids :
        (Rebuilt(r, indexes[uid])' <=> Rebuilt(r, indexes[uid])) /\ (AsItWas(r)' <=> AsItWas(r))
  BY <1>0, <1>3 DEF Rebuilt, AllOf, AsItWas
<1>9. LiveSound'
  <2>1. ~InPlace' /\ ~Landed'
    BY <1>2 DEF InPlace, Landed
  <2>2. ASSUME indexes["live"] # NoIndex
        PROVE \E r \in 0 .. n :
                /\ Rebuilt(r, indexes["live"])' /\ ~AsItWas(r)'
                /\ r # n
                /\ \A q \in 1 .. MaxRebuilds : told[q] = "done" => q <= r
    <3>1. PICK r \in 0 .. rebuild.run : Rebuilt(r, indexes["live"]) /\ ~AsItWas(r)
                /\ \A q \in 1 .. MaxRebuilds : told[q] = "done" => q <= r
      BY <2>2 DEF LiveSound
    <3>2. r \in 0 .. n /\ r # n /\ r \in 0 .. MaxRebuilds
      BY <1>0, RebuildAssumption
    <3>3. "live" \in Uids
      BY DEF Uids
    <3> QED BY <1>8, <3>1, <3>2, <3>3
  <2>3. ASSUME indexes["live"] # NoIndex, NEW d \in indexes["live"].has PROVE d[1] < n
    <3>1. indexes["live"] \in IndexType /\ d[1] <= rebuild.run
      BY <2>3 DEF RebuildTyped, DocsOfRuns, Uids
    <3>2. d[1] \in 0 .. MaxRebuilds
      BY <2>3, <3>1 DEF IndexType
    <3> QED BY <1>0, <3>1, <3>2
  <2>4. indexes["live"] = NoIndex => \A q \in 1 .. MaxRebuilds : told[q] # "done"
    BY DEF LiveSound
  <2> QED BY <1>0, <1>2, <2>1, <2>2, <2>3, <2>4 DEF LiveSound
<1>10. SwapSound'
  <2> SUFFICES ASSUME NEW i \in 1 .. Len(tasks), i > served, IsSwap(tasks[i]) PROVE SwapsIn(i)'
    BY <1>0 DEF SwapSound, IsSwap
  <2>1. SwapsIn(i)
    BY DEF SwapSound
  <2>2. i = served' + 1 /\ \A j \in i + 1 .. Len(tasks') : ~IsSwap(tasks[j])'
    BY <1>0, <2>1 DEF SwapsIn, IsSwap
  <2>3. ASSUME indexes["next"] # NoIndex
        PROVE  \E r \in 1 .. n :
                  /\ Rebuilt(r, indexes["next"])' /\ ~AsItWas(r)' /\ r # n
                  /\ \A d \in indexes["next"].has : d[1] <= r
                  /\ \A q \in 1 .. MaxRebuilds : told[q] = "done" => q <= r
    <3>1. PICK r \in 1 .. rebuild.run :
            /\ Rebuilt(r, indexes["next"]) /\ ~AsItWas(r)
            /\ \A d \in indexes["next"].has : d[1] <= r
            /\ \A q \in 1 .. MaxRebuilds : told[q] = "done" => q <= r
      BY <2>1, <2>3 DEF SwapsIn
    <3>2. r \in 1 .. n /\ r # n /\ r \in 0 .. MaxRebuilds
      BY <1>0, RebuildAssumption
    <3>3. "next" \in Uids
      BY DEF Uids
    <3> QED BY <1>8, <3>1, <3>2, <3>3
  <2> QED BY <1>0, <1>2, <2>2, <2>3 DEF SwapsIn
<1>11. AwaitedRight' /\ Filling' /\ Filled'
  BY <1>2 DEF AwaitedRight, Filling, Filled
<1>12. NextAlone'
  <2>1. n \notin late' => served = Len(tasks)
    BY <1>0
  <2> QED BY <1>0, <1>2, <2>1 DEF NextAlone
<1>13. Deleted'
  BY <1>0 DEF Deleted
<1> QED BY <1>4, <1>5, <1>6, <1>7, <1>9, <1>10, <1>11, <1>12, <1>13

\* The invariant, task by task, ...
LEMMA ServeKeeps ==
  ASSUME RebuildInv, Serve
  PROVE  RebuildInv'
<1> USE DEF RebuildInv
<1>1. Serves
  BY Served
<1>2. StopRight' /\ RunsAhead'
  BY <1>1 DEF StopRight, RunsAhead, Serves
<1> QED BY <1>1, <1>2, ServeTyped, ServeShapes, ServeDocs, ServeLive, ServeSwaps, ServeAwaits, ServeFilling,
           ServeFilled, ServeAlone

\* ... step by step, ...
LEMMA RunKeeps ==
  ASSUME RebuildInv, RunStep
  PROVE  RebuildInv'
<1> USE DEF RebuildInv
<1>1. RebuildMoves
  BY EachMoves
<1> QED BY <1>1, StopKept, RunTyped, RunShapes, RunAhead, RunDocs, RunLive, RunSwaps, RunAwaits, RunFilling,
           RunFilled, RunAlone, RunDeleted

\* ... and at the start.
LEMMA RebuildStarts == RebuildInit => RebuildInv
<1> SUFFICES ASSUME RebuildInit PROVE RebuildInv
  OBVIOUS
<1>0. /\ filled = [r \in 0 .. MaxRebuilds |-> IF r = 0 THEN Batches ELSE {}] /\ late = {}
      /\ tasks = <<>> /\ served = 0 /\ rebuild = Before(0) /\ told = [r \in 1 .. MaxRebuilds |-> "nothing"]
      /\ plain \in BOOLEAN /\ Len(tasks) = 0
  BY DEF RebuildInit
<1>1. PICK live \in {NoIndex, Index(AllOf(0), TRUE)} : indexes = [uid \in Uids |-> IF uid = "live" THEN live ELSE NoIndex]
  BY DEF RebuildInit
<1>2. 0 \in 0 .. MaxRebuilds /\ filled[0] = Batches /\ filled \in [0 .. MaxRebuilds -> SUBSET Batches]
      /\ \A r \in 1 .. MaxRebuilds : r > 0 /\ r \in 0 .. MaxRebuilds /\ filled[r] = {} /\ told[r] = "nothing"
  <2>1. 0 \in 0 .. MaxRebuilds /\ \A r \in 1 .. MaxRebuilds : r > 0 /\ r # 0 /\ r \in 0 .. MaxRebuilds
    BY RebuildAssumption
  <2> QED BY <1>0, <2>1
<1>3. AllOf(0) \in SUBSET ((0 .. MaxRebuilds) \X Batches) /\ \A d \in AllOf(0) : d[1] = 0 /\ d[2] \in Batches
  BY <1>2 DEF AllOf
<1>4. live = NoIndex \/ (live \in IndexType /\ live # NoIndex /\ live.has = AllOf(0) /\ live = Index(AllOf(0), TRUE))
  BY <1>1, <1>3, IndexFacts
<1>5. /\ indexes \in [Uids -> IndexType \cup {NoIndex}] /\ indexes["live"] = live /\ indexes["next"] = NoIndex
      /\ Uids = {"live", "next"}
  BY <1>1, <1>4 DEF Uids
<1>6. /\ rebuild \in RunType /\ rebuild.at = "over" /\ rebuild.run = 0 /\ rebuild.task = 0 /\ rebuild.since = 0
      /\ rebuild.stop = "raw"
  BY <1>0, <1>2 DEF Before, RunType, RebuildPhases
<1>7. RebuildTyped
  <2>1. told \in [1 .. MaxRebuilds -> Tolds]
    BY <1>0 DEF Tolds
  <2>2. tasks \in Seq(TaskType) /\ \A i \in 1 .. Len(tasks) : FALSE
    BY <1>0
  <2>3. served \in 0 .. Len(tasks) /\ rebuild.task \in 0 .. Len(tasks) /\ rebuild.since \in 0 .. Len(tasks)
        /\ late \in SUBSET (1 .. MaxRebuilds) /\ plain \in BOOLEAN
    BY <1>0, <1>6
  <2> QED BY <1>2, <1>5, <1>6, <2>1, <2>2, <2>3 DEF RebuildTyped
<1>8. TasksShaped /\ StopRight /\ SwapSound /\ AwaitedRight /\ Filling /\ Filled /\ NextAlone
  <2>1. \A i \in 1 .. Len(tasks) : FALSE
    BY <1>0
  <2> QED BY <1>6, <2>1 DEF TasksShaped, StopRight, SwapSound, AwaitedRight, Filling, Filled, NextAlone
<1>9. RunsAhead
  BY <1>0, <1>2, <1>6 DEF RunsAhead
<1>10. DocsOfRuns
  <2>1. \A i \in 1 .. Len(tasks) : FALSE
    BY <1>0
  <2>2. \A d \in AllOf(0) : d[1] <= 0 /\ d[2] \in filled[d[1]]
    BY <1>2, <1>3
  <2> QED BY <1>4, <1>5, <1>6, <2>1, <2>2 DEF DocsOfRuns
<1>11. LiveSound
  <2>1. ~InPlace /\ Landed
    BY <1>6 DEF InPlace, Landed
  <2>2. live # NoIndex => Rebuilt(0, live)
    BY <1>4 DEF Rebuilt
  <2>3. ~AsItWas(0) /\ 0 \in 0 .. 0
    BY DEF AsItWas
  <2> QED BY <1>2, <1>5, <1>6, <2>1, <2>2, <2>3 DEF LiveSound
<1>12. Deleted
  BY <1>2 DEF Deleted
<1> QED BY <1>7, <1>8, <1>9, <1>10, <1>11, <1>12 DEF RebuildInv

\* Whatever the server refuses and wherever runs fail or die, the live index is
\* whole, and callers are told so (rebuild-index.ts rebuildIndex, settle, stopped).
THEOREM NeverHalfHolds == RebuildSpec => []NeverHalf
<1>1. RebuildInv /\ [RebuildNext]_rebuildVars => RebuildInv'
  <2> SUFFICES ASSUME RebuildInv, [RebuildNext]_rebuildVars PROVE RebuildInv'
    OBVIOUS
  <2>1. CASE RunStep
    BY <2>1, RunKeeps
  <2>2. CASE UNCHANGED rebuildVars
    <3> USE DEF RebuildInv
    <3>1. UNCHANGED <<indexes, tasks, served, rebuild, told, plain, filled, late>>
      BY <2>2 DEF rebuildVars
    <3>2. RebuildTyped' /\ TasksShaped' /\ StopRight' /\ RunsAhead' /\ DocsOfRuns'
      BY <3>1 DEF RebuildTyped, TasksShaped, IsSwap, StopRight, RunsAhead, DocsOfRuns
    <3>3. LiveSound'
      BY <3>1 DEF LiveSound, Landed, InPlace, Answered, Awaited, Rebuilt, AllOf, AsItWas
    <3>4. SwapSound'
      <4>1. \A i : SwapsIn(i)' <=> SwapsIn(i)
        BY <3>1 DEF SwapsIn, Rebuilt, AllOf, AsItWas, IsSwap
      <4> QED BY <3>1, <4>1 DEF SwapSound, IsSwap
    <3>5. AwaitedRight'
      BY <3>1 DEF AwaitedRight, IsSwap
    <3>6. Filling'
      BY <3>1 DEF Filling, OwnAdd, AllOf
    <3>7. Filled' /\ Deleted'
      BY <3>1 DEF Filled, Rebuilt, AllOf, Deleted
    <3>8. NextAlone'
      BY <3>1 DEF NextAlone, OwnAdd, AllOf
    <3> QED BY <3>2, <3>3, <3>4, <3>5, <3>6, <3>7, <3>8
  <2> QED BY <2>1, <2>2, ServeKeeps, SyncKeeps, BeginKeeps DEF RebuildNext, RunStep
<1>2. RebuildInv => NeverHalf
  <2> SUFFICES ASSUME RebuildInv PROVE NeverHalf
    OBVIOUS
  <2> USE DEF RebuildInv
  <2> DEFINE live == indexes["live"]
  <2>0. rebuild.run \in 0 .. MaxRebuilds /\ indexes \in [Uids -> IndexType \cup {NoIndex}]
    BY DEF RebuildTyped, RunType
  <2>1. ASSUME live # NoIndex
        PROVE  \E r \in 0 .. rebuild.run : /\ Rebuilt(r, live) /\ ~AsItWas(r)
                                           /\ \A q \in 1 .. MaxRebuilds : told[q] = "done" => q <= r
    BY <2>1 DEF LiveSound
  <2>2. ASSUME NEW q \in 1 .. MaxRebuilds, told[q] = "done" PROVE \E s \in q .. rebuild.run : Rebuilt(s, live)
    <3>1. live # NoIndex
      BY <2>2 DEF LiveSound
    <3>2. PICK r \in 0 .. rebuild.run : Rebuilt(r, live) /\ q <= r
      BY <2>1, <2>2, <3>1
    <3>3. r \in q .. rebuild.run
      BY <2>0, <3>2
    <3> QED BY <3>2, <3>3
  <2>3. ASSUME NEW q \in 1 .. MaxRebuilds, told[q] = "deleted", NEW uid \in Uids, indexes[uid] # NoIndex
        PROVE  indexes[uid].has \cap AllOf(q) = {}
    <3>1. \A d \in indexes[uid].has : d[1] # q
      BY <2>3 DEF Deleted
    <3> QED BY <3>1 DEF AllOf
  <2> QED BY <2>1, <2>2, <2>3 DEF NeverHalf
<1> QED BY <1>1, <1>2, RebuildStarts, PTL DEF RebuildSpec

(***************************************************************************)
(* The files of a bucket                                                   *)
(***************************************************************************)

\* A delete of this id that found another's file under it: it takes what it likes.
TakenBy(f, c) == \E d \in Callers :
  caller[d].op = "delete" /\ caller[d].id = f /\ caller[d].found \notin {Nobody, c}

\* A chunk of a call is where it was put, unless a delete took it.
Lies(c, m, f) == fileOf[<<c, m>>] = f \/ (fileOf[<<c, m>>] = NoFile /\ TakenBy(f, c))

Numbers == 0 .. MaxChunks - 1

\* The first n chunks of a call lie under f, and it has no other.
LiesUpTo(c, n, f) == \A m \in Numbers : IF m < n THEN Lies(c, m, f) ELSE fileOf[<<c, m>>] = NoFile

\* Those not moved yet are under the id made for the call.
LiesAside(c, n, f) == \A m \in Numbers :
  IF m < n THEN fileOf[<<c, m>>] = c \/ Lies(c, m, f) ELSE fileOf[<<c, m>>] = NoFile

\* What a call stands under.
IdsRight(c) ==
  /\ caller[c].id \in Callers => caller[c].id = c
  /\ caller[c].phase # "new" => caller[c].id # NoFile
  /\ caller[c].phase = "again" => caller[c].left > 0
  /\ ~caller[c].tidy => caller[c].phase \in {"over", "crashed"}

\* A delete.
DeleteRight(d) ==
  /\ caller[d].phase \in {"finding", "unlinking", "sweeping"} => caller[d].op = "delete"
  /\ caller[d].op = "delete" =>
       /\ caller[d].phase \in {"finding", "unlinking", "sweeping", "over", "crashed"}
       /\ \A m \in Numbers : fileOf[<<d, m>>] = NoFile
  /\ caller[d].phase \in {"finding", "unlinking"} => caller[d].n = 0
  /\ caller[d].phase = "sweeping" => caller[d].n < MaxChunks
  /\ caller[d].found # Nobody => caller[d].op = "delete" /\ caller[caller[d].found].phase = "over"
  /\ caller[d].phase \in {"unlinking", "sweeping"} => caller[d].found # Nobody
  /\ caller[d].phase = "finding" => caller[d].found = Nobody
  /\ caller[d].phase = "sweeping" => document[caller[d].id].by # caller[d].found

\* A put or putOnce, as far as it got.
PutRight(c) ==
  LET at == caller[c].phase IN
  /\ at \in {"new", "checking"} => caller[c].n = 0 /\ LiesUpTo(c, 0, c) /\ caller[c].op = "put"
  /\ at \in {"writing"} =>
       /\ caller[c].op # "delete" /\ caller[c].n <= LengthOf(c) /\ LiesUpTo(c, caller[c].n, caller[c].id)
       /\ caller[c].op = "putOnce" => caller[c].id = c
  /\ at \in {"asking", "claiming", "moving", "looking", "peeking", "again"} =>
       caller[c].op = "putOnce" /\ LiesAside(c, LengthOf(c), OnceId(c))
  /\ at = "claiming" => caller[c].n = 0 /\ LengthOf(c) > 0
  /\ at = "moving" =>
       /\ caller[c].n > 0 /\ caller[c].n < LengthOf(c)
       /\ \A m \in Numbers : m < caller[c].n => Lies(c, m, OnceId(c))
  /\ at \in {"claiming", "moving"} => caller[c].id = OnceId(c)
  /\ at = "inserting" =>
       /\ caller[c].op # "delete" /\ LiesUpTo(c, LengthOf(c), caller[c].id)
       /\ caller[c].op = "putOnce" => caller[c].id = OnceId(c)

\* The document of a file is that of a call that ended, under the id it has.
DocumentRight(f) == Has(f) =>
  LET c == document[f].by IN
  /\ c \in Callers /\ caller[c].phase = "over" /\ caller[c].op # "delete"
  /\ caller[c].content = document[f].content /\ caller[c].id = f
  /\ LiesUpTo(c, LengthOf(c), f)

\* A delete of f that has not come to the chunk, or never will.
OnItsWay(f, m) == \E d \in Callers :
  /\ caller[d].op = "delete" /\ caller[d].id = f
  /\ (caller[d].phase = "sweeping" /\ caller[d].n <= m) \/ ~caller[d].tidy

\* What is left of a call that ended.
LeftRight(c) == caller[c].phase = "over" /\ caller[c].tidy =>
  \A m \in Numbers : fileOf[<<c, m>>] # NoFile =>
    document[fileOf[<<c, m>>]].by = c \/ OnItsWay(fileOf[<<c, m>>], m)

GridInv ==
  /\ GridTypeOK
  /\ \A c \in Callers : IdsRight(c) /\ DeleteRight(c) /\ PutRight(c) /\ LeftRight(c)
  /\ \A f \in FileIds : DocumentRight(f)

\* Nobody else's call changes.
OthersStand(c) == \A o \in Callers \ {c} : caller'[o] = caller[o]

\* Nobody else's chunk changes.
ChunksStand(c) == \A o \in Callers \ {c}, m \in Numbers : fileOf'[<<o, m>>] = fileOf[<<o, m>>]

\* A delete that found a file is the one it was.
SameDelete(c) == caller[c].found # Nobody =>
  /\ caller'[c].op = caller[c].op /\ caller'[c].id = caller[c].id /\ caller'[c].found = caller[c].found

\* What a delete took it goes on having taken.
LEMMA TakenStays ==
  ASSUME GridTypeOK, NEW c \in Callers, OthersStand(c), SameDelete(c)
  PROVE  \A f, o : TakenBy(f, o) => TakenBy(f, o)'
  BY DEF OthersStand, SameDelete, TakenBy

\* A chunk that lies, and nobody moves, goes on lying there.
LEMMA LiesStays ==
  ASSUME NEW o, NEW m, NEW f, Lies(o, m, f), TakenBy(f, o) => TakenBy(f, o)',
         fileOf'[<<o, m>>] = fileOf[<<o, m>>]
  PROVE  Lies(o, m, f)'
  BY DEF Lies

\* The chunks of calls at work, and of files, lie where they lay.
ChunksLie(c) == \A o \in Callers \ {c}, m \in Numbers :
  /\ \A f \in FileIds : caller[o].phase # "over" \/ document[f].by = o => (Lies(o, m, f) => Lies(o, m, f)')
  /\ fileOf[<<o, m>>] = NoFile => fileOf'[<<o, m>>] = NoFile
  /\ fileOf[<<o, m>>] = o => fileOf'[<<o, m>>] = o

\* The other calls, and the files whose documents stay, are as they should be
\* after a step of one.
LEMMA OthersKeep ==
  ASSUME GridInv, NEW c \in Callers, caller[c].phase # "over", OthersStand(c), ChunksLie(c)
  PROVE  /\ \A o \in Callers \ {c} : IdsRight(o)' /\ PutRight(o)'
         /\ \A o \in Callers \ {c} :
              (caller[o].phase = "sweeping" => document'[caller[o].id].by # caller[o].found) => DeleteRight(o)'
         /\ \A f \in FileIds : document'[f] = document[f] => DocumentRight(f)'
<1>1. ASSUME NEW o \in Callers \ {c}, NEW n, NEW f \in FileIds, caller[o].phase # "over" \/ document[f].by = o
      PROVE  /\ LiesUpTo(o, n, f) => LiesUpTo(o, n, f)'
             /\ LiesAside(o, n, f) => LiesAside(o, n, f)'
             /\ \A m \in Numbers : Lies(o, m, f) => Lies(o, m, f)'
  <2>1. \A m \in Numbers : /\ Lies(o, m, f) => Lies(o, m, f)'
                           /\ fileOf[<<o, m>>] = NoFile => fileOf'[<<o, m>>] = NoFile
                           /\ fileOf[<<o, m>>] = o => fileOf'[<<o, m>>] = o
    BY <1>1 DEF ChunksLie
  <2> QED BY <2>1 DEF LiesUpTo, LiesAside
<1>3. ASSUME NEW o \in Callers \ {c}
      PROVE  /\ IdsRight(o)'
             /\ (caller[o].phase = "sweeping" => document'[caller[o].id].by # caller[o].found) => DeleteRight(o)'
  <2>1. IdsRight(o) /\ DeleteRight(o)
    BY DEF GridInv
  <2>2. caller'[o] = caller[o] /\ \A m \in Numbers : fileOf[<<o, m>>] = NoFile => fileOf'[<<o, m>>] = NoFile
    BY DEF OthersStand, ChunksLie
  <2>3. IdsRight(o)'
    BY <2>1, <2>2 DEF IdsRight
  <2>4. caller[o].found # Nobody => caller[o].found \in Callers \ {c}
    BY <2>1 DEF GridInv, GridTypeOK, CallState, DeleteRight
  <2>5. caller[o].found # Nobody => caller'[caller[o].found].phase = "over"
    BY <2>1, <2>4 DEF OthersStand, DeleteRight
  <2>6. (caller[o].phase = "sweeping" => document'[caller[o].id].by # caller[o].found) => DeleteRight(o)'
    BY <2>1, <2>2, <2>5 DEF DeleteRight
  <2> QED BY <2>3, <2>6
<1>4. ASSUME NEW o \in Callers \ {c}
      PROVE  PutRight(o)'
  <2>1. PutRight(o) /\ caller'[o] = caller[o]
    BY DEF GridInv, OthersStand
  <2>2. LengthOf(o)' = LengthOf(o) /\ OnceId(o)' = OnceId(o)
    BY <2>1 DEF LengthOf, OnceId
  <2>3. CASE caller[o].phase \in {"over", "crashed"}
    BY <2>1, <2>3 DEF PutRight
  <2>4. CASE caller[o].phase \in {"new", "checking"}
    <3>1. PICK f \in FileIds : f = o
      BY DEF FileIds
    <3>2. LiesUpTo(o, 0, f) => LiesUpTo(o, 0, f)'
      BY <1>1, <2>4
    <3> QED BY <2>1, <2>4, <3>1, <3>2 DEF PutRight
  <2>5. CASE caller[o].phase \notin {"new", "checking", "over", "crashed"}
    <3>1. PICK f \in FileIds : f = caller[o].id
      BY <2>5 DEF GridInv, GridTypeOK, CallState, IdsRight
    <3>2. PICK k \in FileIds : k = OnceId(o)
      BY DEF GridInv, GridTypeOK, CallState, OnceId, FileIds
    <3>3. /\ \A n : LiesUpTo(o, n, f) => LiesUpTo(o, n, f)'
          /\ \A n : LiesAside(o, n, k) => LiesAside(o, n, k)'
          /\ \A m \in Numbers : Lies(o, m, k) => Lies(o, m, k)'
      BY <1>1, <2>5
    <3>4. caller'[o].id = f /\ OnceId(o)' = k
      BY <2>1, <2>2, <3>1, <3>2
    <3> QED BY <2>1, <2>2, <2>5, <3>1, <3>2, <3>3, <3>4 DEF PutRight
  <2> QED BY <2>3, <2>4, <2>5
<1>7. ASSUME NEW f \in FileIds, document'[f] = document[f]
      PROVE  DocumentRight(f)'
  <2>1. CASE ~Has(f)
    BY <1>7, <2>1 DEF DocumentRight, Has, NoDocument
  <2>2. CASE Has(f)
    <3> DEFINE o == document[f].by
    <3>1. o \in Callers \ {c} /\ caller'[o] = caller[o] /\ DocumentRight(f)
      BY <2>2 DEF GridInv, DocumentRight, OthersStand
    <3>2. LiesUpTo(o, Size[caller[o].content], f)
      BY <2>2, <3>1 DEF DocumentRight, LengthOf
    <3> DEFINE len == Size[caller[o].content]
    <3>3. PICK q \in Callers \ {c}, n \in {len} : q = o /\ n = len
      BY <3>1
    <3>4. LiesUpTo(q, n, f)'
      BY <1>1, <3>2, <3>3
    <3>5. caller[q].phase = "over" /\ caller[q].op # "delete" /\ caller[q].content = document[f].content /\ caller[q].id = f
      BY <2>2, <3>1, <3>3 DEF DocumentRight
    <3>6. document'[f].by = q /\ document'[f] = document[f] /\ caller'[q] = caller[q] /\ LengthOf(q)' = n
      BY <1>7, <3>1, <3>3 DEF LengthOf
    <3> HIDE DEF o, len
    <3> QED
      BY <3>4, <3>5, <3>6 DEF DocumentRight
  <2> QED BY <2>1, <2>2
<1> QED
  BY <1>3, <1>4, <1>7

\* Chunks that stay lie where they lay.
LEMMA StandingLie ==
  ASSUME GridTypeOK, NEW c \in Callers, OthersStand(c), ChunksStand(c), SameDelete(c)
  PROVE  ChunksLie(c)
<1>1. \A f, o : TakenBy(f, o) => TakenBy(f, o)'
  BY TakenStays
<1>2. ASSUME NEW o \in Callers \ {c}, NEW m \in Numbers, NEW f, Lies(o, m, f)
      PROVE  Lies(o, m, f)'
  BY <1>1, <1>2, LiesStays DEF ChunksStand
<1> QED BY <1>2 DEF ChunksLie, ChunksStand

\* A delete on its way goes on.
LEMMA WayStays ==
  ASSUME GridInv, NEW c \in Callers, OthersStand(c), SameDelete(c), caller[c].tidy,
         caller[c].phase = "sweeping" => ~caller'[c].tidy
  PROVE  \A f, m : OnItsWay(f, m) => OnItsWay(f, m)'
<1> SUFFICES ASSUME NEW f, NEW m, NEW d \in Callers, caller[d].op = "delete", caller[d].id = f,
                    (caller[d].phase = "sweeping" /\ caller[d].n <= m) \/ ~caller[d].tidy
             PROVE  OnItsWay(f, m)'
  BY DEF OnItsWay
<1>1. CASE d # c
  BY <1>1 DEF OnItsWay, OthersStand
<1>2. CASE d = c
  BY <1>2 DEF OnItsWay, SameDelete, GridInv, DeleteRight
<1> QED BY <1>1, <1>2

\* The calls but one are as they should be, where it touches neither them nor
\* the documents.
LEMMA GridFrame ==
  ASSUME GridInv, NEW c \in Callers, caller[c].phase # "over", OthersStand(c), ChunksStand(c),
         UNCHANGED document, SameDelete(c), caller[c].phase = "sweeping" => ~caller'[c].tidy,
         caller[c].tidy
  PROVE  /\ \A o \in Callers \ {c} : IdsRight(o)' /\ DeleteRight(o)' /\ PutRight(o)' /\ LeftRight(o)'
         /\ \A f \in FileIds : DocumentRight(f)'
<1>1. ChunksLie(c)
  BY StandingLie DEF GridInv
<1>2. \A o \in Callers \ {c} : IdsRight(o)' /\ DeleteRight(o)' /\ PutRight(o)'
  BY <1>1, OthersKeep DEF GridInv, DeleteRight
<1>3. \A f \in FileIds : DocumentRight(f)'
  BY <1>1, OthersKeep
<1>5. \A f, m : OnItsWay(f, m) => OnItsWay(f, m)'
  BY WayStays
<1>6. ASSUME NEW o \in Callers \ {c}
      PROVE  LeftRight(o)'
  BY <1>5 DEF LeftRight, GridInv, OthersStand, ChunksStand
<1> QED BY <1>2, <1>3, <1>6

\* Where no chunk moves, those of a call lie where they lay.
LEMMA OwnStays ==
  ASSUME GridTypeOK, NEW c \in Callers, OthersStand(c), SameDelete(c), UNCHANGED fileOf
  PROVE  \A n, f : /\ Lies(c, n, f) => Lies(c, n, f)'
                   /\ LiesUpTo(c, n, f) => LiesUpTo(c, n, f)'
                   /\ LiesAside(c, n, f) => LiesAside(c, n, f)'
<1>1. \A m, f : Lies(c, m, f) => Lies(c, m, f)'
  BY TakenStays, LiesStays
<1> QED
  BY <1>1 DEF LiesUpTo, LiesAside

\* A step of a call that moves no chunk and writes no document.
LEMMA GridPlain ==
  ASSUME GridInv, GridTypeOK', NEW c \in Callers, caller[c].phase # "over", caller[c].tidy,
         UNCHANGED <<fileOf, document>>, OthersStand(c), SameDelete(c),
         caller[c].phase = "sweeping" => ~caller'[c].tidy,
         IdsRight(c)', DeleteRight(c)', PutRight(c)', LeftRight(c)'
  PROVE  GridInv'
<1>1. ChunksStand(c)
  BY DEF ChunksStand
<1>2. \A o \in Callers : IdsRight(o)' /\ DeleteRight(o)' /\ PutRight(o)' /\ LeftRight(o)'
  BY <1>1, GridFrame
<1>3. \A f \in FileIds : DocumentRight(f)'
  BY <1>1, GridFrame
<1> QED
  BY <1>2, <1>3 DEF GridInv

\* A call moved from one phase to another, and nothing else.
LEMMA GoesKeeps ==
  ASSUME GridInv, NEW c \in Callers, NEW p \in CallPhases, Goes(c, p),
         UNCHANGED <<fileOf, document>>, caller[c].phase \notin {"new", "over", "crashed", "sweeping"},
         p \notin {"over", "crashed", "new", "checking", "unlinking", "sweeping", "finding"},
         caller[c].op # "delete",
         \/ p = "dropping"
         \/ p = "writing" /\ caller[c].phase = "checking"
         \/ p = "inserting" /\ caller[c].phase = "writing" /\ caller[c].n = LengthOf(c) /\ caller[c].op = "put"
         \/ p = "asking" /\ caller[c].phase = "writing" /\ caller[c].n = LengthOf(c) /\ caller[c].op = "putOnce"
         \/ p = "looking" /\ caller[c].phase \in {"claiming", "looking", "peeking"}
         \/ p = "looking" /\ caller[c].phase = "inserting" /\ caller[c].op = "putOnce"
         \/ p = "peeking" /\ caller[c].phase = "looking"
         \/ p = "again" /\ caller[c].phase = "peeking" /\ caller[c].left > 0
  PROVE  GridInv'
<1>0. GridTypeOK /\ IdsRight(c) /\ DeleteRight(c) /\ PutRight(c)
  BY DEF GridInv
<1>1. /\ caller' = [caller EXCEPT ![c] = [caller[c] EXCEPT !.phase = p]]
      /\ caller[c] \in CallState /\ caller'[c] = [caller[c] EXCEPT !.phase = p]
  BY <1>0 DEF Goes, GridTypeOK
<1>2. caller'[c] \in CallState
  BY <1>1 DEF CallState
<1>3. GridTypeOK'
  BY <1>0, <1>1, <1>2 DEF GridTypeOK
<1>4. /\ caller'[c].phase = p /\ caller'[c].op = caller[c].op /\ caller'[c].content = caller[c].content
      /\ caller'[c].id = caller[c].id /\ caller'[c].n = caller[c].n /\ caller'[c].left = caller[c].left
      /\ caller'[c].found = caller[c].found /\ caller'[c].tidy = caller[c].tidy
  BY <1>1 DEF CallState
<1>5. OthersStand(c) /\ SameDelete(c) /\ caller[c].tidy /\ caller[c].found = Nobody
  BY <1>0, <1>1, <1>4 DEF OthersStand, SameDelete, IdsRight, DeleteRight, GridTypeOK
<1>6. LengthOf(c)' = LengthOf(c) /\ OnceId(c)' = OnceId(c)
  BY <1>4 DEF LengthOf, OnceId
<1>7. IdsRight(c)' /\ DeleteRight(c)' /\ LeftRight(c)'
  <2>1. IdsRight(c)'
    BY <1>0, <1>4, <1>5 DEF IdsRight
  <2>2. DeleteRight(c)'
    BY <1>0, <1>4, <1>5 DEF DeleteRight
  <2>3. LeftRight(c)'
    BY <1>4 DEF LeftRight
  <2> QED BY <2>1, <2>2, <2>3
<1>8. \A n, f : /\ LiesUpTo(c, n, f) => LiesUpTo(c, n, f)'
                /\ LiesAside(c, n, f) => LiesAside(c, n, f)'
  BY <1>0, <1>5, OwnStays
<1>9. PutRight(c)'
  <2>1. CASE p = "dropping"
    BY <2>1, <1>4 DEF PutRight
  <2>2. CASE p = "writing" /\ caller[c].phase = "checking"
    <3>1. LengthOf(c) \in Nat /\ LiesUpTo(c, 0, caller[c].id) /\ caller[c].n = 0 /\ caller[c].op = "put"
      BY <2>2, <1>0, GridFSAssumption DEF PutRight, LengthOf, GridTypeOK, CallState, LiesUpTo, Numbers
    <3>2. LiesUpTo(c, caller[c].n, caller[c].id)'
      BY <3>1, <1>4, <1>8
    <3> QED BY <2>2, <3>1, <3>2, <1>4, <1>6 DEF PutRight
  <2>3. CASE p = "inserting" /\ caller[c].phase = "writing" /\ caller[c].n = LengthOf(c) /\ caller[c].op = "put"
    <3>1. LiesUpTo(c, LengthOf(c), caller[c].id)
      BY <2>3, <1>0 DEF PutRight
    <3>2. LiesUpTo(c, LengthOf(c), caller[c].id)'
      BY <3>1, <1>4, <1>6, <1>8
    <3> QED BY <2>3, <3>1, <3>2, <1>4, <1>6 DEF PutRight
  <2>4. CASE p = "asking" /\ caller[c].phase = "writing" /\ caller[c].n = LengthOf(c) /\ caller[c].op = "putOnce"
    <3>1. LiesUpTo(c, LengthOf(c), c)
      BY <2>4, <1>0 DEF PutRight
    <3>2. \A m \in Numbers : Lies(c, m, c) => fileOf[<<c, m>>] = c
      BY <2>4, <1>0, GridFSAssumption DEF TakenBy, Lies, GridInv, IdsRight
    <3>3. LiesAside(c, LengthOf(c), OnceId(c))
      BY <3>1, <3>2 DEF LiesAside, LiesUpTo
    <3>4. LiesAside(c, LengthOf(c), OnceId(c))'
      BY <3>3, <1>6, <1>8
    <3> QED BY <2>4, <3>4, <1>4 DEF PutRight
  <2>5. CASE p \in {"looking", "peeking", "again"} /\ caller[c].phase \in {"claiming", "looking", "peeking"}
    <3>3. LiesAside(c, LengthOf(c), OnceId(c)) /\ caller[c].op = "putOnce"
      BY <2>5, <1>0 DEF PutRight
    <3>4. LiesAside(c, LengthOf(c), OnceId(c))'
      BY <3>3, <1>6, <1>8
    <3> QED BY <2>5, <3>3, <3>4, <1>4 DEF PutRight
  <2>6. CASE p = "looking" /\ caller[c].phase = "inserting" /\ caller[c].op = "putOnce"
    <3>1. LiesUpTo(c, LengthOf(c), OnceId(c))
      BY <2>6, <1>0 DEF PutRight
    <3>3. LiesAside(c, LengthOf(c), OnceId(c))
      BY <3>1 DEF LiesUpTo, LiesAside
    <3>4. LiesAside(c, LengthOf(c), OnceId(c))'
      BY <3>3, <1>6, <1>8
    <3> QED BY <2>6, <3>4, <1>4 DEF PutRight
  <2> QED BY <2>1, <2>2, <2>3, <2>4, <2>5, <2>6
<1> QED
  BY <1>3, <1>4, <1>5, <1>7, <1>9, GridPlain

\* A call is the one it was, in another phase.
SameCall(c) ==
  /\ caller'[c].op = caller[c].op /\ caller'[c].content = caller[c].content /\ caller'[c].id = caller[c].id
  /\ caller'[c].n = caller[c].n /\ caller'[c].left = caller[c].left /\ caller'[c].found = caller[c].found

\* A call has no chunk.
NoChunks(c) == \A m \in Numbers : fileOf[<<c, m>>] = NoFile

\* A call ends, with its chunks gone, or untidily.
LEMMA EndsKeeps ==
  ASSUME GridInv, NEW c \in Callers, caller'[c] \in CallState,
         caller' = [caller EXCEPT ![c] = caller'[c]], SameCall(c), UNCHANGED <<fileOf, document>>,
         caller[c].phase \notin {"new", "over", "crashed"}, caller'[c].phase \in {"over", "crashed"},
         caller[c].phase = "sweeping" => ~caller'[c].tidy,
         caller'[c].phase = "over" /\ caller'[c].tidy => NoChunks(c)
  PROVE  GridInv'
<1>0. GridTypeOK /\ IdsRight(c) /\ DeleteRight(c) /\ PutRight(c)
  BY DEF GridInv
<1>1. GridTypeOK'
  BY <1>0 DEF GridTypeOK
<1>2. OthersStand(c)
  BY <1>0 DEF OthersStand, GridTypeOK
<1>3. SameDelete(c) /\ caller[c].tidy
  BY <1>0, <1>2 DEF SameDelete, SameCall, IdsRight, GridTypeOK, CallState
<1>4. IdsRight(c)'
  BY <1>0 DEF IdsRight, SameCall
<1>5. DeleteRight(c)'
  <2>1. caller[c].found # Nobody => caller[c].found \in Callers \ {c} /\ caller[caller[c].found].phase = "over"
    BY <1>0 DEF DeleteRight, GridTypeOK, CallState
  <2>2. caller[c].found # Nobody => caller'[caller[c].found].phase = "over"
    BY <2>1, <1>2 DEF OthersStand
  <2> QED BY <1>0, <2>2 DEF DeleteRight, SameCall
<1>6. PutRight(c)'
  BY DEF PutRight
<1>7. LeftRight(c)'
  BY DEF LeftRight, NoChunks
<1> QED
  BY <1>1, <1>2, <1>3, <1>4, <1>5, <1>6, <1>7, GridPlain

\* A call that ends in a phase, with nothing of it left.
LEMMA GoesOver ==
  ASSUME GridInv, NEW c \in Callers, Goes(c, "over"), UNCHANGED <<fileOf, document>>, NoChunks(c),
         caller[c].phase \notin {"new", "over", "crashed", "sweeping"}
  PROVE  GridInv'
<1>1. caller[c] \in CallState /\ caller' = [caller EXCEPT ![c].phase = "over"] /\ caller \in [Callers -> CallState]
  BY DEF GridInv, GridTypeOK, Goes
<1>2. caller'[c] = [caller[c] EXCEPT !.phase = "over"]
  BY <1>1
<1>3. /\ caller'[c] \in CallState /\ SameCall(c) /\ caller'[c].phase = "over"
      /\ caller' = [caller EXCEPT ![c] = caller'[c]]
  BY <1>1, <1>2 DEF CallState, CallPhases, SameCall
<1> QED
  BY <1>3, EndsKeeps

\* An id that was chosen is looked up.
LEMMA CheckIdKeeps == ASSUME GridInv, NEW c \in Callers, CheckId(c) PROVE GridInv'
<1>1. caller[c].phase = "checking" /\ PutRight(c) /\ UNCHANGED <<fileOf, document>>
  BY DEF CheckId, GridInv, At
<1>2. CASE Has(caller[c].id)
  <2>1. Goes(c, "over") /\ NoChunks(c)
    BY <1>1, <1>2, GridFSAssumption DEF CheckId, PutRight, LiesUpTo, NoChunks, Numbers
  <2> QED BY <1>1, <2>1, GoesOver
<1>3. CASE ~Has(caller[c].id)
  <2>1. Goes(c, "writing") /\ caller[c].op # "delete"
    BY <1>1, <1>3 DEF CheckId, PutRight
  <2> QED BY <1>1, <2>1, GoesKeeps DEF CallPhases
<1> QED BY <1>2, <1>3

\* The chunks are written.
LEMMA WrittenKeeps == ASSUME GridInv, NEW c \in Callers, Written(c) PROVE GridInv'
<1>1. caller[c].phase = "writing" /\ caller[c].n = LengthOf(c) /\ UNCHANGED <<fileOf, document>>
      /\ caller[c].op \in {"put", "putOnce"}
  BY DEF Written, GridInv, At, PutRight, GridTypeOK, CallState
<1>2. CASE caller[c].op = "put"
  <2>1. Goes(c, "inserting")
    BY <1>2 DEF Written
  <2> QED BY <1>1, <1>2, <2>1, GoesKeeps DEF CallPhases
<1>3. CASE caller[c].op = "putOnce"
  <2>1. Goes(c, "asking")
    BY <1>3 DEF Written
  <2> QED BY <1>1, <1>3, <2>1, GoesKeeps DEF CallPhases
<1> QED BY <1>1, <1>2, <1>3

\* The loser looks for the winner's document.
LEMMA LookKeeps == ASSUME GridInv, NEW c \in Callers, Look(c) PROVE GridInv'
<1>1. caller[c].phase = "looking" /\ UNCHANGED <<fileOf, document>> /\ caller[c].op = "putOnce"
  BY DEF Look, GridInv, At, PutRight
<1>2. PICK p \in {"dropping", "looking", "peeking"} : Goes(c, p)
  BY DEF Look
<1> QED
  BY <1>1, <1>2, GoesKeeps DEF CallPhases

\* It looks whether the claim is still there.
LEMMA PeekKeeps == ASSUME GridInv, NEW c \in Callers, Peek(c) PROVE GridInv'
<1>1. caller[c].phase = "peeking" /\ UNCHANGED <<fileOf, document>> /\ caller[c].op = "putOnce"
  BY DEF Peek, GridInv, At, PutRight
<1>2. PICK p \in {"dropping", "looking", "again"} : Goes(c, p) /\ (p = "again" => caller[c].left > 0)
  <2>1. Goes(c, "looking") \/ (Goes(c, "again") /\ caller[c].left > 0) \/ Goes(c, "dropping")
    BY DEF Peek
  <2> QED BY <2>1
<1> QED
  BY <1>1, <1>2, GoesKeeps DEF CallPhases

\* A request fails.
LEMMA CallFailsKeeps == ASSUME GridInv, NEW c \in Callers, CallFails(c) PROVE GridInv'
<1>1. /\ caller[c].phase \in {"asking", "claiming", "moving", "inserting", "looking", "peeking", "again"}
      /\ UNCHANGED <<fileOf, document>> /\ Goes(c, "dropping")
  BY DEF CallFails
<1>2. caller[c].op # "delete"
  BY <1>1 DEF GridInv, PutRight
<1> QED
  BY <1>1, <1>2, GoesKeeps DEF CallPhases

\* A removal fails, or a process dies.
LEMMA UntidyKeeps == ASSUME GridInv, NEW c \in Callers, DropFails(c) \/ CallCrashes(c) PROVE GridInv'
<1>1. PICK p \in {"over", "crashed"} :
        /\ caller' = [caller EXCEPT ![c].phase = p, ![c].tidy = FALSE]
        /\ caller[c].phase \notin {"new", "over", "crashed"} /\ UNCHANGED <<fileOf, document>>
  BY DEF DropFails, CallCrashes
<1>2. caller[c] \in CallState /\ caller \in [Callers -> CallState]
  BY DEF GridInv, GridTypeOK
<1>3. caller'[c] = [caller[c] EXCEPT !.phase = p, !.tidy = FALSE]
  BY <1>1, <1>2
<1>4. /\ caller'[c] \in CallState /\ SameCall(c) /\ caller'[c].phase = p /\ ~caller'[c].tidy
      /\ caller' = [caller EXCEPT ![c] = caller'[c]]
  BY <1>1, <1>2, <1>3 DEF CallState, CallPhases, SameCall
<1> QED
  BY <1>1, <1>4, EndsKeeps

\* A delete finds whose file it is.
LEMMA FindFileKeeps == ASSUME GridInv, NEW c \in Callers, FindFile(c) PROVE GridInv'
<1> DEFINE f == caller[c].id
           by == document[caller[c].id].by
<1>0. GridTypeOK /\ IdsRight(c) /\ DeleteRight(c) /\ PutRight(c)
  BY DEF GridInv
<1>1. caller[c].phase = "finding" /\ caller[c].op = "delete" /\ caller[c].found = Nobody /\ UNCHANGED <<fileOf, document>>
  BY <1>0 DEF FindFile, At, DeleteRight
<1>2. f \in FileIds /\ caller[c] \in CallState
  BY <1>0, <1>1 DEF IdsRight, GridTypeOK, CallState
<1>3. CASE ~Has(f)
  <2>1. by = Nobody
    BY <1>3 DEF Has, NoDocument
  <2>2. caller' = [caller EXCEPT ![c].phase = "over", ![c].found = Nobody]
    BY <1>3, <2>1 DEF FindFile
  <2>3. caller'[c] = [caller[c] EXCEPT !.phase = "over", !.found = Nobody]
    BY <2>2, <1>0 DEF GridTypeOK
  <2>4. /\ caller'[c] \in CallState /\ SameCall(c) /\ caller'[c].phase = "over"
        /\ caller' = [caller EXCEPT ![c] = caller'[c]]
    BY <1>0, <1>1, <1>2, <2>2, <2>3 DEF CallState, CallPhases, SameCall, GridTypeOK
  <2>5. NoChunks(c)
    BY <1>0, <1>1 DEF DeleteRight, NoChunks
  <2> QED
    BY <1>1, <2>4, <2>5, EndsKeeps
<1>4. CASE Has(f)
  <2>1. by \in Callers \ {c} /\ caller[by].phase = "over"
    BY <1>1, <1>2, <1>4 DEF GridInv, DocumentRight
  <2>2. caller' = [caller EXCEPT ![c].phase = "unlinking", ![c].found = by]
    BY <1>4 DEF FindFile
  <2>3. PICK b \in Callers : b = by
    BY <2>1
  <2>4. caller'[c] = [caller[c] EXCEPT !.phase = "unlinking", !.found = b]
    BY <2>2, <2>3, <1>0 DEF GridTypeOK
  <2> HIDE DEF by, f
  <2>5. /\ caller'[c].phase = "unlinking" /\ caller'[c].op = caller[c].op /\ caller'[c].content = caller[c].content
        /\ caller'[c].id = caller[c].id /\ caller'[c].n = caller[c].n /\ caller'[c].left = caller[c].left
        /\ caller'[c].found = b /\ caller'[c].tidy = caller[c].tidy /\ caller'[c] \in CallState
    BY <1>2, <2>4 DEF CallState, CallPhases
  <2>6. GridTypeOK' /\ OthersStand(c) /\ caller' = [caller EXCEPT ![c] = caller'[c]]
    BY <1>0, <1>1, <2>2, <2>3, <2>4, <2>5 DEF GridTypeOK, OthersStand
  <2>7. SameDelete(c) /\ caller[c].tidy
    BY <1>0, <1>1, <1>2 DEF SameDelete, IdsRight, CallState
  <2>8. IdsRight(c)' /\ PutRight(c)' /\ LeftRight(c)'
    BY <1>0, <1>1, <2>5, <2>7 DEF IdsRight, PutRight, LeftRight
  <2>9. caller'[b] = caller[b] /\ caller[b].phase = "over"
    BY <2>1, <2>3, <2>6 DEF OthersStand
  <2>10. DeleteRight(c)'
    BY <1>0, <1>1, <2>5, <2>9, GridFSAssumption DEF DeleteRight
  <2> QED
    BY <1>1, <2>6, <2>7, <2>8, <2>10, GridPlain
<1> QED BY <1>3, <1>4

\* A call begins.
LEMMA AskKeeps == ASSUME GridInv, NEW c \in Callers, NEW q \in Requests, Ask(c, q) PROVE GridInv'
<1>0. GridTypeOK /\ IdsRight(c) /\ DeleteRight(c) /\ PutRight(c)
  BY DEF GridInv
<1>1. caller[c].phase = "new" /\ UNCHANGED <<fileOf, document>> /\ caller[c] \in CallState
  BY <1>0 DEF Ask, At, GridTypeOK
<1>2. /\ q.op \in {"put", "putOnce", "delete"} /\ q.content \in Contents /\ q.id \in Contents \cup ChosenIds \cup {NoFile}
      /\ q.op = "putOnce" => q.id = NoFile
  BY GridFSAssumption
<1>3. PICK p \in {"writing", "checking", "over", "finding"}, i \in {q.id, c} :
        /\ caller' = [caller EXCEPT ![c] = [caller[c] EXCEPT !.phase = p, !.op = q.op, !.content = q.content, !.id = i]]
        /\ i = IF q.id = NoFile THEN c ELSE q.id
        /\ q.op = "put" => p \in {"writing", "checking"}
        /\ q.op = "putOnce" => p \in {"writing", "over"}
        /\ q.op = "delete" => p = "finding"
  BY <1>2 DEF Ask
<1>4. i # NoFile /\ i \in FileIds /\ (i \in Callers => i = c) /\ (q.op = "putOnce" => i = c)
  BY <1>2, <1>3, GridFSAssumption DEF FileIds
<1>5. caller'[c] = [caller[c] EXCEPT !.phase = p, !.op = q.op, !.content = q.content, !.id = i]
  BY <1>3, <1>0 DEF GridTypeOK
<1>6. /\ caller'[c].phase = p /\ caller'[c].op = q.op /\ caller'[c].content = q.content
      /\ caller'[c].id = i /\ caller'[c].n = caller[c].n /\ caller'[c].left = caller[c].left
      /\ caller'[c].found = caller[c].found /\ caller'[c].tidy = caller[c].tidy
  BY <1>1, <1>5 DEF CallState
<1>7. caller'[c] \in CallState
  BY <1>1, <1>2, <1>4, <1>5 DEF CallState, CallPhases
<1>8. GridTypeOK' /\ OthersStand(c)
  BY <1>0, <1>1, <1>3, <1>5, <1>7 DEF GridTypeOK, OthersStand
<1>9. caller[c].found = Nobody /\ caller[c].tidy /\ caller[c].op = "put" /\ caller[c].n = 0
      /\ \A m \in Numbers : fileOf[<<c, m>>] = NoFile
  BY <1>0, <1>1 DEF IdsRight, DeleteRight, PutRight, LiesUpTo, Numbers, CallState
<1>10. SameDelete(c)
  BY <1>9 DEF SameDelete
<1>11. IdsRight(c)'
  BY <1>3, <1>4, <1>6, <1>9 DEF IdsRight
<1>12. DeleteRight(c)'
  BY <1>1, <1>2, <1>3, <1>6, <1>9 DEF DeleteRight
<1>13. LeftRight(c)'
  BY <1>1, <1>9 DEF LeftRight
<1>14. \A f : LiesUpTo(c, 0, f)'
  BY <1>1, <1>9 DEF LiesUpTo, Numbers
<1>15. PutRight(c)'
  <2>1. LengthOf(c)' \in Nat
    BY <1>2, <1>6, GridFSAssumption DEF LengthOf
  <2>2. LiesUpTo(c, 0, i)' /\ LiesUpTo(c, 0, c)'
    BY <1>14
  <2>3. caller'[c].n = 0
    BY <1>6, <1>9
  <2>4. LiesUpTo(c, caller[c].n, caller[c].id)'
    BY <2>2, <2>3, <1>6
  <2> QED
    BY <1>2, <1>3, <1>4, <1>6, <2>1, <2>2, <2>3, <2>4 DEF PutRight
<1> QED
  BY <1>1, <1>8, <1>9, <1>10, <1>11, <1>12, <1>13, <1>15, GridPlain

\* A file with these bytes is looked for, before the claim.
LEMMA AskDigestKeeps == ASSUME GridInv, NEW c \in Callers, AskDigest(c) PROVE GridInv'
<1>0. GridTypeOK /\ IdsRight(c) /\ DeleteRight(c) /\ PutRight(c)
  BY DEF GridInv
<1>1. /\ caller[c].phase \in {"asking", "again"} /\ UNCHANGED <<fileOf, document>> /\ caller[c] \in CallState
      /\ caller[c].op = "putOnce" /\ LiesAside(c, LengthOf(c), OnceId(c))
  BY <1>0 DEF AskDigest, GridTypeOK, PutRight
<1>2. CASE SomeFileWith(caller[c].content)
  <2>1. Goes(c, "dropping")
    BY <1>2 DEF AskDigest
  <2> QED BY <1>1, <2>1, GoesKeeps DEF CallPhases
<1>3. CASE ~SomeFileWith(caller[c].content)
  <2>1. PICK p \in {"inserting", "claiming"}, l \in {caller[c].left, caller[c].left - 1} :
          /\ caller' = [caller EXCEPT ![c].phase = p, ![c].id = OnceId(c), ![c].n = 0, ![c].left = l]
          /\ p = IF LengthOf(c) = 0 THEN "inserting" ELSE "claiming"
          /\ l = IF At(c, "again") THEN caller[c].left - 1 ELSE caller[c].left
    <3>1. caller' = [caller EXCEPT ![c].phase = IF LengthOf(c) = 0 THEN "inserting" ELSE "claiming",
                                   ![c].id = OnceId(c), ![c].n = 0,
                                   ![c].left = IF At(c, "again") THEN caller[c].left - 1 ELSE caller[c].left]
      BY <1>3, <1>0 DEF AskDigest, GridTypeOK
    <3> QED BY <3>1
  <2>2. l \in 0 .. Retries
    BY <1>0, <1>1, <2>1, GridFSAssumption DEF IdsRight, At, CallState
  <2>3. PICK i \in Contents : i = OnceId(c)
    BY <1>1 DEF OnceId, CallState
  <2>4. caller'[c] = [caller[c] EXCEPT !.phase = p, !.id = i, !.n = 0, !.left = l]
    BY <1>0, <2>1, <2>3 DEF GridTypeOK
  <2>5. /\ caller'[c].phase = p /\ caller'[c].op = caller[c].op /\ caller'[c].content = caller[c].content
        /\ caller'[c].id = i /\ caller'[c].n = 0
        /\ caller'[c].found = caller[c].found /\ caller'[c].tidy = caller[c].tidy
    BY <1>1, <2>4 DEF CallState
  <2>6. caller'[c] \in CallState
    <3>1. i \in FileIds \cup {NoFile} /\ 0 \in 0 .. MaxChunks
      BY GridFSAssumption DEF FileIds
    <3>2. p \in CallPhases
      BY DEF CallPhases
    <3> QED BY <1>1, <2>2, <2>4, <3>1, <3>2 DEF CallState
  <2>7. GridTypeOK' /\ OthersStand(c)
    BY <1>0, <1>1, <2>1, <2>4, <2>6 DEF GridTypeOK, OthersStand
  <2>8. caller[c].found = Nobody /\ caller[c].tidy
    BY <1>0, <1>1 DEF IdsRight, DeleteRight, CallState
  <2>9. SameDelete(c) /\ i # NoFile /\ i \notin Callers
    BY <2>8, GridFSAssumption DEF SameDelete
  <2>10. IdsRight(c)' /\ LeftRight(c)'
    BY <1>0, <2>1, <2>5, <2>8, <2>9 DEF IdsRight, LeftRight
  <2>11. DeleteRight(c)'
    BY <1>1, <2>1, <2>5, <2>8 DEF DeleteRight
  <2>12. LengthOf(c)' = LengthOf(c) /\ OnceId(c)' = i /\ LengthOf(c) \in Nat
    BY <1>1, <2>3, <2>5, GridFSAssumption DEF LengthOf, OnceId, CallState
  <2>13. LiesAside(c, LengthOf(c), OnceId(c))'
    BY <1>0, <1>1, <2>3, <2>7, <2>9, <2>12, OwnStays
  <2>14. LengthOf(c) = 0 => LiesUpTo(c, LengthOf(c), caller[c].id)'
    BY <1>1, <2>5, <2>12 DEF LiesAside, LiesUpTo, Numbers
  <2>15. PutRight(c)'
    <3>1. CASE p = "claiming"
      BY <3>1, <1>1, <2>1, <2>5, <2>12, <2>13 DEF PutRight
    <3>2. CASE p = "inserting"
      BY <3>2, <1>1, <2>1, <2>5, <2>12, <2>14 DEF PutRight
    <3> QED BY <3>1, <3>2
  <2> QED
    BY <1>1, <2>7, <2>8, <2>9, <2>10, <2>11, <2>15, GridPlain
<1> QED BY <1>2, <1>3

\* A step of a call that moves its own chunks and writes no document.
LEMMA GridOwn ==
  ASSUME GridInv, GridTypeOK', NEW c \in Callers, caller[c].phase \notin {"over", "sweeping"}, caller[c].tidy,
         UNCHANGED document, OthersStand(c), SameDelete(c), ChunksStand(c),
         IdsRight(c)', DeleteRight(c)', PutRight(c)', LeftRight(c)'
  PROVE  GridInv'
<1>2. \A o \in Callers : IdsRight(o)' /\ DeleteRight(o)' /\ PutRight(o)' /\ LeftRight(o)'
  BY GridFrame
<1>3. \A f \in FileIds : DocumentRight(f)'
  BY GridFrame
<1> QED
  BY <1>2, <1>3 DEF GridInv

\* One chunk of a call is put somewhere.
LEMMA OneChunk ==
  ASSUME GridTypeOK, NEW c \in Callers, NEW n \in Numbers, NEW v \in FileIds \cup {NoFile},
         fileOf' = [fileOf EXCEPT ![<<c, n>>] = v]
  PROVE  /\ fileOf' \in [Chunks -> FileIds \cup {NoFile}]
         /\ ChunksStand(c)
         /\ fileOf'[<<c, n>>] = v
         /\ \A m \in Numbers \ {n} : fileOf'[<<c, m>>] = fileOf[<<c, m>>]
  BY DEF GridTypeOK, Chunks, Numbers, ChunksStand

\* A call of its own, that is no delete: nobody needs to ask what it found.
LEMMA NoDelete ==
  ASSUME GridInv, NEW c \in Callers, caller[c].op # "delete", caller[c].phase \notin {"over", "crashed"}
  PROVE  caller[c].found = Nobody /\ caller[c].tidy /\ SameDelete(c)
  BY DEF GridInv, DeleteRight, IdsRight, SameDelete, GridTypeOK, CallState

\* A chunk is written under the id of its call.
LEMMA WriteChunkKeeps == ASSUME GridInv, NEW c \in Callers, WriteChunk(c) PROVE GridInv'
<1>0. GridTypeOK /\ IdsRight(c) /\ DeleteRight(c) /\ PutRight(c)
  BY DEF GridInv
<1>1. /\ caller[c].phase = "writing" /\ caller[c].n < LengthOf(c) /\ UNCHANGED document /\ caller[c] \in CallState
      /\ caller[c].op # "delete" /\ LiesUpTo(c, caller[c].n, caller[c].id)
      /\ caller[c].op = "putOnce" => caller[c].id = c
  BY <1>0 DEF WriteChunk, At, GridTypeOK, PutRight
<1>2. CASE Goes(c, "dropping") /\ UNCHANGED fileOf
  BY <1>1, <1>2, GoesKeeps DEF CallPhases
<1>3. CASE /\ fileOf' = [fileOf EXCEPT ![Chunk(c)] = caller[c].id]
           /\ caller' = [caller EXCEPT ![c].n = @ + 1]
  <2>1. PICK n \in Numbers : n = caller[c].n /\ n + 1 <= LengthOf(c) /\ n + 1 \in 0 .. MaxChunks
    <3>1. LengthOf(c) \in 0 .. MaxChunks /\ caller[c].n \in 0 .. MaxChunks
      BY <1>1, GridFSAssumption DEF LengthOf, CallState
    <3> QED BY <3>1, <1>1, GridFSAssumption DEF Numbers
  <2>2. PICK i \in FileIds : i = caller[c].id
    BY <1>0, <1>1 DEF IdsRight, CallState
  <2>3. /\ fileOf' \in [Chunks -> FileIds \cup {NoFile}] /\ ChunksStand(c) /\ fileOf'[<<c, n>>] = i
        /\ \A m \in Numbers \ {n} : fileOf'[<<c, m>>] = fileOf[<<c, m>>]
    <3>1. fileOf' = [fileOf EXCEPT ![<<c, n>>] = i]
      BY <1>3, <2>1, <2>2 DEF Chunk
    <3>2. i \in FileIds \cup {NoFile}
      OBVIOUS
    <3> QED BY <3>1, <3>2, <1>0, OneChunk
  <2>4. caller'[c] = [caller[c] EXCEPT !.n = n + 1] /\ caller' = [caller EXCEPT ![c] = [caller[c] EXCEPT !.n = n + 1]]
    BY <1>0, <1>3, <2>1 DEF GridTypeOK
  <2>5. /\ caller'[c].phase = caller[c].phase /\ caller'[c].op = caller[c].op /\ caller'[c].content = caller[c].content
        /\ caller'[c].id = i /\ caller'[c].n = n + 1 /\ caller'[c].left = caller[c].left
        /\ caller'[c].found = caller[c].found /\ caller'[c].tidy = caller[c].tidy
    BY <1>1, <2>2, <2>4 DEF CallState
  <2>6. caller'[c] \in CallState
    BY <1>1, <2>1, <2>4 DEF CallState
  <2>7. GridTypeOK' /\ OthersStand(c)
    BY <1>0, <1>1, <2>3, <2>4, <2>6 DEF GridTypeOK, OthersStand
  <2>8. caller[c].found = Nobody /\ caller[c].tidy /\ SameDelete(c)
    BY <1>1, NoDelete
  <2>9. IdsRight(c)' /\ LeftRight(c)'
    BY <1>0, <1>1, <2>2, <2>5 DEF IdsRight, LeftRight
  <2>10. DeleteRight(c)'
    BY <1>1, <2>5, <2>8 DEF DeleteRight
  <2>11. \A m \in Numbers : IF m < n + 1 THEN Lies(c, m, i)' ELSE fileOf'[<<c, m>>] = NoFile
    <3> SUFFICES ASSUME NEW m \in Numbers PROVE IF m < n + 1 THEN Lies(c, m, i)' ELSE fileOf'[<<c, m>>] = NoFile
      OBVIOUS
    <3>0. IF m < n THEN Lies(c, m, i) ELSE fileOf[<<c, m>>] = NoFile
      BY <1>1, <2>1, <2>2 DEF LiesUpTo
    <3>1. CASE m = n
      BY <3>1, <2>3 DEF Lies, Numbers
    <3>2. CASE m < n
      <4>1. fileOf'[<<c, m>>] = fileOf[<<c, m>>] /\ (TakenBy(i, c) => TakenBy(i, c)')
        BY <3>2, <2>3, <1>0, <2>7, <2>8, TakenStays DEF Numbers
      <4>2. Lies(c, m, i)'
        BY <3>0, <3>2, <4>1, LiesStays
      <4> QED BY <4>2, <3>2 DEF Numbers
    <3>3. CASE m > n
      BY <3>0, <3>3, <2>3 DEF Numbers
    <3> QED BY <3>1, <3>2, <3>3 DEF Numbers
  <2>12. LiesUpTo(c, caller[c].n, caller[c].id)'
    BY <2>5, <2>11 DEF LiesUpTo
  <2>13. LengthOf(c)' = LengthOf(c)
    BY <2>5 DEF LengthOf
  <2>14. PutRight(c)'
    BY <1>1, <2>1, <2>2, <2>5, <2>12, <2>13 DEF PutRight
  <2> QED
    BY <1>1, <2>3, <2>7, <2>8, <2>9, <2>10, <2>14, GridOwn
<1> QED
  BY <1>2, <1>3 DEF WriteChunk

\* A chunk of its own is removed.
LEMMA DropChunkKeeps == ASSUME GridInv, NEW c \in Callers, DropChunk(c) PROVE GridInv'
<1>0. GridTypeOK /\ IdsRight(c) /\ DeleteRight(c) /\ PutRight(c)
  BY DEF GridInv
<1>1. caller[c].phase = "dropping" /\ UNCHANGED document
  BY DEF DropChunk, At
<1>2. CASE Own(c) = {}
  <2>1. Goes(c, "over") /\ UNCHANGED fileOf
    BY <1>2 DEF DropChunk, ChunkDropped
  <2>2. NoChunks(c)
    BY <1>2, <1>0 DEF Own, NoChunks, Numbers, Chunks
  <2> QED BY <1>1, <2>1, <2>2, GoesOver
<1>3. CASE Own(c) # {}
  <2>1. PICK k \in Own(c) : fileOf' = [fileOf EXCEPT ![k] = NoFile]
    BY <1>3 DEF DropChunk, ChunkDropped
  <2>2. PICK n \in Numbers : k = <<c, n>>
    BY <2>1 DEF Own, Chunks, Numbers
  <2>3. UNCHANGED caller
    BY <1>3 DEF DropChunk, ChunkDropped
  <2>4. fileOf' \in [Chunks -> FileIds \cup {NoFile}] /\ ChunksStand(c)
    BY <1>0, <2>1, <2>2, OneChunk
  <2>5. GridTypeOK' /\ OthersStand(c)
    BY <1>0, <1>1, <2>3, <2>4 DEF GridTypeOK, OthersStand
  <2>6. caller[c].op # "delete"
    BY <1>0, <1>1 DEF DeleteRight
  <2>7. caller[c].found = Nobody /\ caller[c].tidy /\ SameDelete(c)
    BY <1>1, <2>6, NoDelete
  <2>8. IdsRight(c)' /\ LeftRight(c)' /\ PutRight(c)'
    BY <1>0, <1>1, <2>3 DEF IdsRight, LeftRight, PutRight
  <2>9. DeleteRight(c)'
    BY <1>1, <2>3, <2>6, <2>7 DEF DeleteRight
  <2> QED
    BY <1>1, <2>4, <2>5, <2>7, <2>8, <2>9, GridOwn
<1> QED BY <1>2, <1>3

\* A call that comes to its next chunk, or has no other.
ComesToNext(c, p) ==
  /\ p = IF caller[c].n + 1 = LengthOf(c) THEN "inserting" ELSE "moving"
  /\ caller' = [caller EXCEPT ![c].n = caller[c].n + 1, ![c].phase = p]

\* A chunk that is there is moved, and no other.
LEMMA ChunkMoved ==
  ASSUME GridTypeOK, NEW c \in Callers, NEW n \in Numbers, NEW i \in Contents,
         n = caller[c].n, i = OnceId(c), fileOf' = Moved(c)
  PROVE  /\ fileOf' \in [Chunks -> FileIds \cup {NoFile}] /\ ChunksStand(c)
         /\ fileOf'[<<c, n>>] = IF fileOf[<<c, n>>] = NoFile THEN NoFile ELSE i
         /\ \A m \in Numbers \ {n} : fileOf'[<<c, m>>] = fileOf[<<c, m>>]
<1>1. fileOf' = IF fileOf[<<c, n>>] = NoFile THEN fileOf ELSE [fileOf EXCEPT ![<<c, n>>] = i]
  BY DEF Moved, Chunk
<1>2. i \in FileIds /\ <<c, n>> \in Chunks
  BY DEF FileIds, Chunks, Numbers
<1>3. fileOf \in [Chunks -> FileIds \cup {NoFile}]
  BY DEF GridTypeOK
<1>4. CASE fileOf[<<c, n>>] = NoFile
  BY <1>1, <1>3, <1>4 DEF ChunksStand
<1>5. CASE fileOf[<<c, n>>] # NoFile
  <2>1. fileOf' = [fileOf EXCEPT ![<<c, n>>] = i]
    BY <1>1, <1>5
  <2>2. \A o \in Callers, m \in Numbers : <<o, m>> \in Chunks
    BY DEF Chunks, Numbers
  <2>3. \A k \in Chunks : fileOf'[k] = IF k = <<c, n>> THEN i ELSE fileOf[k]
    BY <2>1, <1>3
  <2>4. fileOf' \in [Chunks -> FileIds \cup {NoFile}]
    BY <2>1, <1>2, <1>3
  <2>5. ChunksStand(c) /\ \A m \in Numbers \ {n} : fileOf'[<<c, m>>] = fileOf[<<c, m>>]
    BY <2>2, <2>3 DEF ChunksStand
  <2> QED BY <1>2, <1>5, <2>3, <2>4, <2>5
<1> QED BY <1>4, <1>5

\* The next chunk of a putOnce is moved under the id its bytes decide.
LEMMA MovesOn ==
  ASSUME GridInv, NEW c \in Callers, caller[c].phase \in {"claiming", "moving"}, fileOf' = Moved(c),
         UNCHANGED document, NEW p \in {"inserting", "moving"},
         ComesToNext(c, p)
  PROVE  GridInv'
<1>0. GridTypeOK /\ IdsRight(c) /\ DeleteRight(c) /\ PutRight(c)
  BY DEF GridInv
<1>1. /\ caller[c] \in CallState /\ caller[c].op = "putOnce" /\ LiesAside(c, LengthOf(c), OnceId(c))
      /\ caller[c].n < LengthOf(c) /\ caller[c].id = OnceId(c) /\ caller[c].n \in Nat
      /\ \A m \in Numbers : m < caller[c].n => Lies(c, m, OnceId(c))
  <2>1. caller[c] \in CallState /\ LengthOf(c) \in Nat /\ caller[c].n \in Nat
    BY <1>0, GridFSAssumption DEF GridTypeOK, CallState, LengthOf
  <2> QED BY <1>0, <2>1 DEF PutRight, Numbers
<1>2. PICK n \in Numbers : n = caller[c].n /\ n < LengthOf(c) /\ n + 1 \in 0 .. MaxChunks
  <2>1. LengthOf(c) \in 0 .. MaxChunks
    BY <1>1, GridFSAssumption DEF LengthOf, CallState
  <2> QED BY <2>1, <1>1, GridFSAssumption DEF Numbers
<1>3. PICK i \in Contents : i = OnceId(c) /\ i \in FileIds /\ i # NoFile /\ i \notin Callers
  BY <1>1, GridFSAssumption DEF OnceId, CallState, FileIds
<1>4. /\ fileOf' \in [Chunks -> FileIds \cup {NoFile}] /\ ChunksStand(c)
      /\ fileOf'[<<c, n>>] = IF fileOf[<<c, n>>] = NoFile THEN NoFile ELSE i
      /\ \A m \in Numbers \ {n} : fileOf'[<<c, m>>] = fileOf[<<c, m>>]
  BY <1>0, <1>2, <1>3, ChunkMoved
<1>5. PICK next \in 0 .. MaxChunks : next = n + 1 /\ caller'[c] = [caller[c] EXCEPT !.n = next, !.phase = p]
  BY <1>0, <1>2 DEF GridTypeOK, ComesToNext
<1>6. /\ caller'[c].phase = p /\ caller'[c].op = caller[c].op /\ caller'[c].content = caller[c].content
      /\ caller'[c].id = caller[c].id /\ caller'[c].n = n + 1 /\ caller'[c].left = caller[c].left
      /\ caller'[c].found = caller[c].found /\ caller'[c].tidy = caller[c].tidy
  <2>1. caller[c] \in CallState /\ caller'[c] = [caller[c] EXCEPT !.n = next, !.phase = p]
    BY <1>1, <1>5
  <2>2. /\ caller'[c].phase = p /\ caller'[c].op = caller[c].op /\ caller'[c].content = caller[c].content
        /\ caller'[c].id = caller[c].id /\ caller'[c].n = next /\ caller'[c].left = caller[c].left
        /\ caller'[c].found = caller[c].found /\ caller'[c].tidy = caller[c].tidy
    BY <2>1 DEF CallState
  <2> QED BY <2>2, <1>5
<1>7. caller'[c] \in CallState
  <2>1. caller[c] \in CallState /\ caller'[c] = [caller[c] EXCEPT !.n = next, !.phase = p]
    BY <1>1, <1>5
  <2>2. p \in CallPhases
    BY DEF CallPhases
  <2> QED BY <2>1, <2>2 DEF CallState
<1>8. GridTypeOK' /\ OthersStand(c)
  BY <1>0, <1>4, <1>5, <1>7 DEF GridTypeOK, OthersStand, ComesToNext
<1>9. caller[c].found = Nobody /\ caller[c].tidy /\ SameDelete(c)
  BY <1>1, NoDelete
<1>10. IdsRight(c)' /\ LeftRight(c)'
  BY <1>0, <1>6, <1>9 DEF IdsRight, LeftRight
<1>11. DeleteRight(c)'
  BY <1>1, <1>6, <1>9 DEF DeleteRight
<1>12. \A m \in Numbers : Lies(c, m, i) => Lies(c, m, i)'
  <2> SUFFICES ASSUME NEW m \in Numbers, Lies(c, m, i) PROVE Lies(c, m, i)'
    OBVIOUS
  <2>0. TakenBy(i, c) => TakenBy(i, c)'
    BY <1>0, <1>8, <1>9, TakenStays
  <2>1. CASE m = n
    BY <2>0, <2>1, <1>4 DEF Lies
  <2>2. CASE m # n
    BY <2>0, <2>2, <1>4, LiesStays
  <2> QED BY <2>1, <2>2
<1>13. Lies(c, n, i)'
  <2>1. fileOf[<<c, n>>] = c \/ Lies(c, n, i)
    BY <1>1, <1>2, <1>3 DEF LiesAside
  <2>2. CASE fileOf[<<c, n>>] = c
    BY <2>2, <1>4, GridFSAssumption DEF Lies
  <2> QED BY <2>1, <2>2, <1>12
<1>14. LengthOf(c)' = LengthOf(c) /\ OnceId(c)' = i /\ LengthOf(c) \in Nat
  BY <1>1, <1>3, <1>6, GridFSAssumption DEF LengthOf, OnceId, CallState
<1>15. \A m \in Numbers : m < n + 1 => Lies(c, m, i)'
  <2> SUFFICES ASSUME NEW m \in Numbers, m < n + 1 PROVE Lies(c, m, i)'
    OBVIOUS
  <2>1. CASE m = n
    BY <2>1, <1>13
  <2>2. CASE m < n
    BY <2>2, <1>1, <1>2, <1>3, <1>12
  <2> QED BY <2>1, <2>2 DEF Numbers
<1>16. \A m \in Numbers : ~(m < LengthOf(c)) => fileOf'[<<c, m>>] = NoFile
  BY <1>1, <1>2, <1>4 DEF LiesAside
<1>17. LiesAside(c, LengthOf(c), OnceId(c))'
  <2>1. \A m \in Numbers : m < LengthOf(c) => fileOf'[<<c, m>>] = c \/ Lies(c, m, i)'
    <3> SUFFICES ASSUME NEW m \in Numbers, m < LengthOf(c) PROVE fileOf'[<<c, m>>] = c \/ Lies(c, m, i)'
      OBVIOUS
    <3>1. CASE m = n
      BY <3>1, <1>13
    <3>2. CASE m # n
      BY <3>2, <1>1, <1>3, <1>4, <1>12 DEF LiesAside
    <3> QED BY <3>1, <3>2
  <2> QED BY <2>1, <1>14, <1>16 DEF LiesAside
<1>18. PutRight(c)'
  <2>1. CASE p = "moving"
    <3>1. n + 1 < LengthOf(c) /\ n + 1 > 0
      BY <2>1, <1>2, <1>14 DEF Numbers, ComesToNext
    <3>2. \A m \in Numbers : m < caller'[c].n => Lies(c, m, OnceId(c))'
      BY <1>6, <1>14, <1>15
    <3>3. caller'[c].id = OnceId(c)'
      BY <1>1, <1>3, <1>6, <1>14
    <3> QED BY <2>1, <3>1, <3>2, <3>3, <1>1, <1>6, <1>14, <1>17 DEF PutRight
  <2>2. CASE p = "inserting"
    <3>1. n + 1 = LengthOf(c)
      BY <2>2, <1>2 DEF ComesToNext
    <3>2. LiesUpTo(c, LengthOf(c), caller[c].id)'
      BY <3>1, <1>1, <1>3, <1>6, <1>14, <1>15, <1>16 DEF LiesUpTo
    <3>3. caller'[c].id = OnceId(c)'
      BY <1>1, <1>3, <1>6, <1>14
    <3> QED BY <2>2, <3>2, <3>3, <1>1, <1>6 DEF PutRight
  <2> QED BY <2>1, <2>2
<1> QED
  BY <1>4, <1>8, <1>9, <1>10, <1>11, <1>18, GridOwn

\* The first chunk is moved, or another's is there.
LEMMA ClaimKeeps == ASSUME GridInv, NEW c \in Callers, Claim(c) PROVE GridInv'
<1>1. caller[c].phase = "claiming" /\ UNCHANGED document /\ caller[c].n = 0 /\ LengthOf(c) > 0 /\ caller[c].op = "putOnce"
  BY DEF Claim, At, GridInv, PutRight
<1>2. CASE Elsewhere(c) /\ fileOf[Chunk(c)] # NoFile
  <2>1. Goes(c, "looking") /\ UNCHANGED fileOf
    BY <1>2 DEF Claim
  <2> QED BY <1>1, <2>1, GoesKeeps DEF CallPhases
<1>3. CASE ~(Elsewhere(c) /\ fileOf[Chunk(c)] # NoFile)
  <2>1. PICK p \in {"inserting", "moving"} :
          /\ p = IF caller[c].n + 1 = LengthOf(c) THEN "inserting" ELSE "moving"
          /\ caller' = [caller EXCEPT ![c].n = caller[c].n + 1, ![c].phase = p]
    BY <1>1, <1>3 DEF Claim
  <2>2. fileOf' = Moved(c)
    BY <1>3 DEF Claim
  <2> QED BY <1>1, <2>1, <2>2, MovesOn DEF ComesToNext
<1> QED BY <1>2, <1>3

\* The others follow.
LEMMA MoveRestKeeps == ASSUME GridInv, NEW c \in Callers, MoveRest(c) PROVE GridInv'
<1>1. caller[c].phase = "moving" /\ UNCHANGED document /\ caller[c].op = "putOnce" /\ caller \in [Callers -> CallState]
  BY DEF MoveRest, At, GridInv, PutRight, GridTypeOK
<1>2. CASE Elsewhere(c) /\ fileOf[Chunk(c)] # NoFile
  <2>1. Goes(c, "dropping") /\ UNCHANGED fileOf
    BY <1>2 DEF MoveRest
  <2> QED BY <1>1, <2>1, GoesKeeps DEF CallPhases
<1>3. CASE ~(Elsewhere(c) /\ fileOf[Chunk(c)] # NoFile)
  <2>1. PICK p \in {"inserting", "moving"} : p = IF caller[c].n + 1 = LengthOf(c) THEN "inserting" ELSE "moving"
    OBVIOUS
  <2>2. /\ fileOf' = Moved(c)
        /\ caller' = [caller EXCEPT ![c].n = @ + 1,
                                    ![c].phase = IF caller[c].n + 1 = LengthOf(c) THEN "inserting" ELSE @]
    BY <1>3 DEF MoveRest
  <2>3. caller' = [caller EXCEPT ![c].n = caller[c].n + 1, ![c].phase = p]
    BY <1>1, <2>1, <2>2 DEF CallState
  <2> QED BY <1>1, <2>1, <2>2, <2>3, MovesOn DEF ComesToNext
<1> QED BY <1>2, <1>3

\* What is left of a call, chunk by chunk.
LEMMA LeftByChunk ==
  ASSUME GridTypeOK', NEW o \in Callers,
         \A m \in Numbers, g \in FileIds :
           caller'[o].phase = "over" /\ caller'[o].tidy /\ fileOf'[<<o, m>>] = g =>
             document'[g].by = o \/ OnItsWay(g, m)'
  PROVE  LeftRight(o)'
<1> SUFFICES ASSUME caller'[o].phase = "over", caller'[o].tidy, NEW m \in Numbers, fileOf'[<<o, m>>] # NoFile
             PROVE  (document[fileOf[<<o, m>>]].by = o \/ OnItsWay(fileOf[<<o, m>>], m))'
  BY DEF LeftRight
<1>1. PICK g \in FileIds : g = fileOf'[<<o, m>>]
  BY DEF GridTypeOK, Chunks, Numbers
<1>2. document'[g].by = o \/ OnItsWay(g, m)'
  BY <1>1
<1> QED BY <1>1, <1>2 DEF OnItsWay

\* The document of a call that stored everything goes in.
LEMMA InsertKeeps == ASSUME GridInv, NEW c \in Callers, InsertDocument(c) PROVE GridInv'
<1>0. GridTypeOK /\ IdsRight(c) /\ DeleteRight(c) /\ PutRight(c)
  BY DEF GridInv
<1>1. /\ caller[c].phase = "inserting" /\ UNCHANGED fileOf /\ caller[c] \in CallState
      /\ caller[c].op # "delete" /\ LiesUpTo(c, LengthOf(c), caller[c].id)
  BY <1>0 DEF InsertDocument, At, GridTypeOK, PutRight
<1>2. CASE Has(caller[c].id)
  <2>1. CASE caller[c].op = "put"
    <3>1. Goes(c, "dropping") /\ UNCHANGED document
      BY <1>2, <2>1 DEF InsertDocument
    <3> QED BY <1>1, <3>1, GoesKeeps DEF CallPhases
  <2>2. CASE caller[c].op = "putOnce"
    <3>1. Goes(c, "looking") /\ UNCHANGED document
      BY <1>2, <2>2 DEF InsertDocument
    <3> QED BY <1>1, <2>2, <3>1, GoesKeeps DEF CallPhases
  <2> QED BY <1>1, <2>1, <2>2 DEF CallState
<1>3. CASE ~Has(caller[c].id)
  <2>1. PICK f \in FileIds : f = caller[c].id
    BY <1>0, <1>1 DEF IdsRight, CallState
  <2>2. PICK b \in Contents : b = caller[c].content
    BY <1>1 DEF CallState
  <2>3. document' = [document EXCEPT ![f] = [by |-> c, content |-> b]] /\ Goes(c, "over")
    BY <1>3, <2>1, <2>2 DEF InsertDocument
  <2>4. caller' = [caller EXCEPT ![c].phase = "over"] /\ caller'[c] = [caller[c] EXCEPT !.phase = "over"]
    BY <1>0, <2>3 DEF Goes, GridTypeOK
  <2>5. /\ caller'[c].phase = "over" /\ caller'[c].op = caller[c].op /\ caller'[c].content = b
        /\ caller'[c].id = f /\ caller'[c].n = caller[c].n /\ caller'[c].left = caller[c].left
        /\ caller'[c].found = caller[c].found /\ caller'[c].tidy = caller[c].tidy
    BY <1>1, <2>1, <2>2, <2>4 DEF CallState
  <2>6. caller'[c] \in CallState
    BY <1>1, <2>4 DEF CallState, CallPhases
  <2>7. /\ document'[f] = [by |-> c, content |-> b]
        /\ \A g \in FileIds \ {f} : document'[g] = document[g]
        /\ document' \in [FileIds -> Documents]
    BY <1>0, <2>3 DEF GridTypeOK, Documents
  <2>8. GridTypeOK' /\ OthersStand(c) /\ ChunksStand(c)
    BY <1>0, <1>1, <2>4, <2>6, <2>7 DEF GridTypeOK, OthersStand, ChunksStand
  <2>9. caller[c].found = Nobody /\ caller[c].tidy /\ SameDelete(c)
    BY <1>1, NoDelete
  <2>10. ChunksLie(c)
    BY <1>0, <2>8, <2>9, StandingLie
  <2>11. document[f] = NoDocument
    BY <1>3, <2>1 DEF Has
  <2>12. \A o \in Callers \ {c} : IdsRight(o)' /\ PutRight(o)'
    BY <1>1, <2>8, <2>10, OthersKeep
  <2>13. ASSUME NEW o \in Callers \ {c}
         PROVE  DeleteRight(o)'
    <3>1. DeleteRight(o) /\ caller[o] \in CallState /\ IdsRight(o)
      BY <1>0 DEF GridInv, GridTypeOK
    <3>2. caller[o].phase = "sweeping" => document'[caller[o].id].by # caller[o].found
      <4> SUFFICES ASSUME caller[o].phase = "sweeping" PROVE document'[caller[o].id].by # caller[o].found
        OBVIOUS
      <4>1. CASE caller[o].id = f
        <5>1. caller[o].found # Nobody /\ caller[caller[o].found].phase = "over"
          BY <3>1 DEF DeleteRight
        <5>2. caller[o].found # c
          BY <5>1, <1>1
        <5> QED BY <4>1, <5>2, <2>7
      <4>2. CASE caller[o].id # f
        <5>1. caller[o].id \in FileIds \ {f}
          BY <4>2, <3>1 DEF CallState, IdsRight
        <5> QED BY <5>1, <3>1, <2>7 DEF DeleteRight
      <4> QED BY <4>1, <4>2
    <3> QED BY <3>2, <1>1, <2>8, <2>10, OthersKeep
  <2>14. \A g, m : OnItsWay(g, m) => OnItsWay(g, m)'
    BY <1>1, <2>8, <2>9, WayStays
  <2>15. ASSUME NEW o \in Callers \ {c}
         PROVE  LeftRight(o)'
    <3> SUFFICES ASSUME NEW m \in Numbers, NEW g \in FileIds,
                        caller'[o].phase = "over", caller'[o].tidy, fileOf'[<<o, m>>] = g
                 PROVE  document'[g].by = o \/ OnItsWay(g, m)'
      BY <2>8, LeftByChunk
    <3>1. caller[o].phase = "over" /\ caller[o].tidy /\ fileOf[<<o, m>>] = g /\ g # NoFile
      BY <1>1, <2>8, GridFSAssumption DEF OthersStand, FileIds
    <3>2. document[g].by = o \/ OnItsWay(g, m)
      BY <3>1 DEF GridInv, LeftRight
    <3>3. document[g].by = o => g # f
      BY <2>11, GridFSAssumption DEF NoDocument
    <3> QED BY <3>2, <3>3, <2>7, <2>14
  <2>16. \A n, g : LiesUpTo(c, n, g) => LiesUpTo(c, n, g)'
    BY <1>0, <1>1, <2>8, <2>9, OwnStays
  <2>17. LengthOf(c)' = LengthOf(c)
    BY <2>2, <2>5 DEF LengthOf
  <2>18. LiesUpTo(c, LengthOf(c), f)'
    BY <1>1, <2>1, <2>16, <2>17
  <2>19. ASSUME NEW g \in FileIds
         PROVE  DocumentRight(g)'
    <3>1. CASE g # f
      BY <3>1, <1>1, <2>7, <2>8, <2>10, OthersKeep
    <3>2. CASE g = f
      BY <3>2, <1>1, <2>5, <2>7, <2>18 DEF DocumentRight
    <3> QED BY <3>1, <3>2
  <2>20. IdsRight(c)' /\ DeleteRight(c)' /\ PutRight(c)'
    <3>1. IdsRight(c)'
      BY <1>0, <1>1, <2>1, <2>5 DEF IdsRight
    <3>2. DeleteRight(c)'
      BY <1>1, <2>5, <2>9 DEF DeleteRight
    <3>3. PutRight(c)'
      BY <2>5 DEF PutRight
    <3> QED BY <3>1, <3>2, <3>3
  <2>21. LeftRight(c)'
    <3>1. \A m \in Numbers : fileOf[<<c, m>>] # NoFile => fileOf[<<c, m>>] = f
      BY <1>1, <2>1 DEF LiesUpTo, Lies
    <3> QED BY <3>1, <1>1, <2>7 DEF LeftRight
  <2> QED
    BY <2>8, <2>12, <2>13, <2>15, <2>19, <2>20, <2>21 DEF GridInv
<1> QED BY <1>2, <1>3

\* A delete takes the document, and goes on to the chunks.
LEMMA UnlinkKeeps == ASSUME GridInv, NEW c \in Callers, Unlink(c) PROVE GridInv'
<1>0. GridTypeOK /\ IdsRight(c) /\ DeleteRight(c) /\ PutRight(c)
  BY DEF GridInv
<1>1. /\ caller[c].phase = "unlinking" /\ UNCHANGED fileOf /\ caller[c] \in CallState /\ caller[c].tidy
      /\ caller[c].op = "delete" /\ caller[c].n = 0 /\ caller[c].found # Nobody
      /\ caller[caller[c].found].phase = "over" /\ caller[c].found \in Callers
      /\ \A m \in Numbers : fileOf[<<c, m>>] = NoFile
  BY <1>0 DEF Unlink, At, GridTypeOK, DeleteRight, IdsRight, CallState
<1>2. PICK f \in FileIds : f = caller[c].id
  BY <1>0, <1>1 DEF IdsRight, CallState
<1>3. document' = [document EXCEPT ![f] = NoDocument] /\ Goes(c, "sweeping")
  BY <1>2 DEF Unlink
<1>4. caller' = [caller EXCEPT ![c].phase = "sweeping"] /\ caller'[c] = [caller[c] EXCEPT !.phase = "sweeping"]
  BY <1>0, <1>3 DEF Goes, GridTypeOK
<1>5. /\ caller'[c].phase = "sweeping" /\ caller'[c].op = caller[c].op /\ caller'[c].content = caller[c].content
      /\ caller'[c].id = f /\ caller'[c].n = caller[c].n /\ caller'[c].left = caller[c].left
      /\ caller'[c].found = caller[c].found /\ caller'[c].tidy = caller[c].tidy
  <2>1. caller[c] \in CallState /\ caller'[c] = [caller[c] EXCEPT !.phase = "sweeping"]
    BY <1>1, <1>4
  <2> QED BY <2>1, <1>2 DEF CallState
<1>6. caller'[c] \in CallState
  BY <1>1, <1>4 DEF CallState, CallPhases
<1>7. /\ document'[f] = NoDocument /\ \A g \in FileIds \ {f} : document'[g] = document[g]
      /\ document' \in [FileIds -> Documents]
  BY <1>0, <1>3 DEF GridTypeOK, Documents
<1>8. GridTypeOK' /\ OthersStand(c) /\ ChunksStand(c)
  BY <1>0, <1>1, <1>4, <1>6, <1>7 DEF GridTypeOK, OthersStand, ChunksStand
<1>9. SameDelete(c)
  BY <1>2, <1>5 DEF SameDelete
<1>10. ChunksLie(c)
  BY <1>0, <1>8, <1>9, StandingLie
<1>11. \A o \in Callers \ {c} : IdsRight(o)' /\ PutRight(o)'
  BY <1>1, <1>8, <1>10, OthersKeep
<1>12. ASSUME NEW o \in Callers \ {c}
       PROVE  DeleteRight(o)'
  <2>1. DeleteRight(o) /\ caller[o] \in CallState /\ IdsRight(o)
    BY <1>0 DEF GridInv, GridTypeOK
  <2>2. caller[o].phase = "sweeping" => document'[caller[o].id].by # caller[o].found
    <3> SUFFICES ASSUME caller[o].phase = "sweeping" PROVE document'[caller[o].id].by # caller[o].found
      OBVIOUS
    <3>1. CASE caller[o].id = f
      BY <3>1, <2>1, <1>7 DEF DeleteRight, NoDocument
    <3>2. CASE caller[o].id # f
      <4>1. caller[o].id \in FileIds \ {f}
        BY <3>2, <2>1 DEF CallState, IdsRight
      <4> QED BY <4>1, <2>1, <1>7 DEF DeleteRight
    <3> QED BY <3>1, <3>2
  <2> QED BY <2>2, <1>1, <1>8, <1>10, OthersKeep
<1>13. \A g, m : OnItsWay(g, m) => OnItsWay(g, m)'
  BY <1>1, <1>8, <1>9, WayStays
<1>14. \A m \in Numbers : OnItsWay(f, m)'
  <2>1. \A m \in Numbers : 0 <= m
    BY DEF Numbers
  <2> QED BY <2>1, <1>1, <1>5 DEF OnItsWay
<1>15. ASSUME NEW o \in Callers \ {c}
       PROVE  LeftRight(o)'
  <2> SUFFICES ASSUME NEW m \in Numbers, NEW g \in FileIds,
                      caller'[o].phase = "over", caller'[o].tidy, fileOf'[<<o, m>>] = g
               PROVE  document'[g].by = o \/ OnItsWay(g, m)'
    BY <1>8, LeftByChunk
  <2>1. caller[o].phase = "over" /\ caller[o].tidy /\ fileOf[<<o, m>>] = g /\ g # NoFile
    BY <1>1, <1>8, GridFSAssumption DEF OthersStand, FileIds
  <2>2. document[g].by = o \/ OnItsWay(g, m)
    BY <2>1 DEF GridInv, LeftRight
  <2> QED BY <2>2, <1>7, <1>13, <1>14
<1>16. ASSUME NEW g \in FileIds
       PROVE  DocumentRight(g)'
  <2>1. CASE g # f
    BY <2>1, <1>1, <1>7, <1>8, <1>10, OthersKeep
  <2>2. CASE g = f
    BY <2>2, <1>7 DEF DocumentRight, Has
  <2> QED BY <2>1, <2>2
<1>17. IdsRight(c)' /\ PutRight(c)' /\ LeftRight(c)'
  BY <1>0, <1>1, <1>2, <1>5 DEF IdsRight, PutRight, LeftRight
<1>18. DeleteRight(c)'
  <2>1. caller'[caller[c].found].phase = "over"
    <3>1. caller[c].found # c
      BY <1>1
    <3> QED BY <3>1, <1>1, <1>8 DEF OthersStand
  <2>2. document'[f].by # caller[c].found
    BY <1>1, <1>7 DEF NoDocument
  <2>3. caller'[c].n < MaxChunks
    BY <1>1, <1>5, GridFSAssumption
  <2> QED BY <1>1, <1>5, <2>1, <2>2, <2>3 DEF DeleteRight
<1> QED
  BY <1>8, <1>11, <1>12, <1>15, <1>16, <1>17, <1>18 DEF GridInv

\* The chunks of one number that lie under the id go.
SweepsAt(c, n, f) ==
  fileOf' = [k \in Chunks |-> IF fileOf[k] = f /\ k[2] = n THEN NoFile ELSE fileOf[k]]

\* What a sweep leaves, chunk by chunk.
LEMMA SweepsChunks ==
  ASSUME GridTypeOK, NEW c, NEW n \in Numbers, NEW f \in FileIds, SweepsAt(c, n, f)
  PROVE  /\ fileOf' \in [Chunks -> FileIds \cup {NoFile}]
         /\ \A o \in Callers, m \in Numbers :
              fileOf'[<<o, m>>] = IF fileOf[<<o, m>>] = f /\ m = n THEN NoFile ELSE fileOf[<<o, m>>]
  BY DEF GridTypeOK, Chunks, Numbers, SweepsAt

\* It goes on to the next number, or is over.
SweepsOn(c, n, p) ==
  /\ p = IF n + 1 = MaxChunks THEN "over" ELSE "sweeping"
  /\ caller' = [caller EXCEPT ![c].n = n + 1, ![c].phase = p]

\* A delete takes the chunks of one number.
LEMMA SweepKeeps == ASSUME GridInv, NEW c \in Callers, Sweep(c) PROVE GridInv'
<1>0. GridTypeOK /\ IdsRight(c) /\ DeleteRight(c) /\ PutRight(c)
  BY DEF GridInv
<1>1. /\ caller[c].phase = "sweeping" /\ UNCHANGED document /\ caller[c] \in CallState /\ caller[c].tidy
      /\ caller[c].op = "delete" /\ caller[c].n < MaxChunks /\ caller[c].found # Nobody
      /\ caller[caller[c].found].phase = "over" /\ caller[c].found \in Callers
      /\ document[caller[c].id].by # caller[c].found
      /\ \A m \in Numbers : fileOf[<<c, m>>] = NoFile
  BY <1>0 DEF Sweep, At, GridTypeOK, DeleteRight, IdsRight, CallState
<1>2. PICK f \in FileIds : f = caller[c].id /\ (f \in Callers => f = c)
  BY <1>0, <1>1 DEF IdsRight, CallState
<1>3. PICK n \in Numbers : n = caller[c].n
  BY <1>1, GridFSAssumption DEF Numbers, CallState
<1>4. PICK p \in {"over", "sweeping"} : p = IF n + 1 = MaxChunks THEN "over" ELSE "sweeping"
  OBVIOUS
<1>5. SweepsAt(c, n, f) /\ SweepsOn(c, n, p)
  BY <1>0, <1>1, <1>2, <1>3, <1>4 DEF Sweep, SweepsAt, SweepsOn, GridTypeOK, CallState
<1>6. /\ fileOf' \in [Chunks -> FileIds \cup {NoFile}]
      /\ \A o \in Callers, m \in Numbers :
           fileOf'[<<o, m>>] = IF fileOf[<<o, m>>] = f /\ m = n THEN NoFile ELSE fileOf[<<o, m>>]
  BY <1>0, <1>5, SweepsChunks
<1>7. PICK next \in 0 .. MaxChunks : next = n + 1 /\ caller'[c] = [caller[c] EXCEPT !.n = next, !.phase = p]
  <2>1. n + 1 \in 0 .. MaxChunks
    BY GridFSAssumption DEF Numbers
  <2>2. caller'[c] = [caller[c] EXCEPT !.n = n + 1, !.phase = p]
    BY <1>0, <1>5 DEF GridTypeOK, SweepsOn
  <2> QED BY <2>1, <2>2
<1>8. caller[c] \in CallState /\ caller'[c] = [caller[c] EXCEPT !.n = next, !.phase = p]
  BY <1>1, <1>7
<1>9. /\ caller'[c].phase = p /\ caller'[c].op = caller[c].op /\ caller'[c].content = caller[c].content
      /\ caller'[c].id = caller[c].id /\ caller'[c].n = next /\ caller'[c].left = caller[c].left
      /\ caller'[c].found = caller[c].found /\ caller'[c].tidy = caller[c].tidy
  BY <1>8 DEF CallState
<1>10. caller'[c] \in CallState
  BY <1>8 DEF CallState, CallPhases
<1>11. GridTypeOK' /\ OthersStand(c) /\ SameDelete(c)
  BY <1>0, <1>1, <1>5, <1>6, <1>8, <1>9, <1>10 DEF GridTypeOK, OthersStand, SameDelete, SweepsOn
<1>12. \A g, o : TakenBy(g, o) => TakenBy(g, o)'
  BY <1>0, <1>11, TakenStays
<1>13. \A o \in Callers \ {caller[c].found} : TakenBy(f, o)
  BY <1>1, <1>2 DEF TakenBy
<1>14. ChunksLie(c)
  <2> SUFFICES ASSUME NEW o \in Callers \ {c}, NEW m \in Numbers
               PROVE  /\ \A g \in FileIds : caller[o].phase # "over" \/ document[g].by = o =>
                           (Lies(o, m, g) => Lies(o, m, g)')
                      /\ fileOf[<<o, m>>] = NoFile => fileOf'[<<o, m>>] = NoFile
                      /\ fileOf[<<o, m>>] = o => fileOf'[<<o, m>>] = o
    BY DEF ChunksLie
  <2>1. CASE fileOf[<<o, m>>] = f /\ m = n
    <3>1. fileOf'[<<o, m>>] = NoFile /\ f # o
      BY <2>1, <1>2, <1>6
    <3>2. f # NoFile
      BY GridFSAssumption DEF FileIds
    <3>3. ASSUME NEW g \in FileIds, caller[o].phase # "over" \/ document[g].by = o, Lies(o, m, g)
          PROVE  Lies(o, m, g)'
      <4>1. g = f
        BY <2>1, <3>2, <3>3 DEF Lies
      <4>2. o # caller[c].found
        BY <1>1, <1>2, <3>3, <4>1
      <4> QED BY <1>12, <1>13, <3>1, <4>1, <4>2 DEF Lies
    <3> QED BY <2>1, <3>1, <3>2, <3>3
  <2>2. CASE ~(fileOf[<<o, m>>] = f /\ m = n)
    <3>1. fileOf'[<<o, m>>] = fileOf[<<o, m>>]
      BY <2>2, <1>6
    <3> QED BY <3>1, <1>12, LiesStays
  <2> QED BY <2>1, <2>2
<1>15. \A o \in Callers \ {c} : IdsRight(o)' /\ PutRight(o)' /\ DeleteRight(o)'
  BY <1>1, <1>11, <1>14, OthersKeep DEF GridInv, DeleteRight
<1>16. \A g \in FileIds : DocumentRight(g)'
  BY <1>1, <1>11, <1>14, OthersKeep
<1>17. ASSUME NEW g \in FileIds, NEW m \in Numbers, OnItsWay(g, m), g # f \/ m # n
       PROVE  OnItsWay(g, m)'
  <2>1. PICK d \in Callers : caller[d].op = "delete" /\ caller[d].id = g /\
                             ((caller[d].phase = "sweeping" /\ caller[d].n <= m) \/ ~caller[d].tidy)
    BY <1>17 DEF OnItsWay
  <2>2. CASE d # c
    BY <2>1, <2>2, <1>11 DEF OnItsWay, OthersStand
  <2>3. CASE d = c
    <3>1. g = f /\ n <= m /\ m # n
      BY <1>1, <1>2, <1>3, <1>17, <2>1, <2>3
    <3>2. next <= m /\ n + 1 # MaxChunks
      BY <3>1, <1>7, GridFSAssumption DEF Numbers
    <3>3. p = "sweeping"
      BY <3>2, <1>4
    <3> QED BY <3>2, <3>3, <2>1, <2>3, <1>9 DEF OnItsWay
  <2> QED BY <2>2, <2>3
<1>18. ASSUME NEW o \in Callers \ {c}
       PROVE  LeftRight(o)'
  <2> SUFFICES ASSUME NEW m \in Numbers, NEW g \in FileIds,
                      caller'[o].phase = "over", caller'[o].tidy, fileOf'[<<o, m>>] = g
               PROVE  document'[g].by = o \/ OnItsWay(g, m)'
    BY <1>11, LeftByChunk
  <2>1. g # NoFile
    BY GridFSAssumption DEF FileIds
  <2>2. fileOf[<<o, m>>] = g /\ (g # f \/ m # n)
    BY <2>1, <1>6
  <2>3. document[g].by = o \/ OnItsWay(g, m)
    BY <2>1, <2>2, <1>11 DEF GridInv, LeftRight, OthersStand
  <2> QED BY <2>2, <2>3, <1>1, <1>17
<1>19. \A m \in Numbers : fileOf'[<<c, m>>] = NoFile
  BY <1>1, <1>6
<1>20. IdsRight(c)' /\ PutRight(c)' /\ LeftRight(c)'
  BY <1>0, <1>1, <1>9, <1>19 DEF IdsRight, PutRight, LeftRight
<1>21. DeleteRight(c)'
  <2>1. caller'[caller[c].found].phase = "over"
    <3>1. caller[c].found # c
      BY <1>1
    <3> QED BY <3>1, <1>1, <1>11 DEF OthersStand
  <2>2. p = "sweeping" => caller'[c].n < MaxChunks
    <3>1. n + 1 # MaxChunks => next < MaxChunks
      BY <1>7, GridFSAssumption
    <3> QED BY <3>1, <1>4, <1>9
  <2> QED BY <1>1, <1>9, <1>19, <2>1, <2>2 DEF DeleteRight
<1> QED
  BY <1>11, <1>15, <1>16, <1>18, <1>20, <1>21 DEF GridInv

\* At first nothing is stored and nobody asks.
LEMMA GridStarts == GridInit => GridInv
<1> SUFFICES ASSUME GridInit PROVE GridInv
  OBVIOUS
<1>1. PICK b \in Contents : b = CHOOSE e \in Contents : TRUE
  BY GridFSAssumption
<1>2. caller = [c \in Callers |->
        [phase |-> "new", op |-> "put", content |-> b, id |-> NoFile,
         n |-> 0, left |-> Retries, found |-> Nobody, tidy |-> TRUE]]
  BY <1>1 DEF GridInit
<1>3. ASSUME NEW c \in Callers
      PROVE  /\ caller[c].phase = "new" /\ caller[c].op = "put" /\ caller[c].id = NoFile /\ caller[c].n = 0
             /\ caller[c].found = Nobody /\ caller[c].tidy
  BY <1>2
<1>4. \A c \in Callers, m \in Numbers : fileOf[<<c, m>>] = NoFile
  BY DEF GridInit, Chunks, Numbers
<1>5. GridTypeOK
  <2>1. 0 \in 0 .. MaxChunks /\ Retries \in 0 .. Retries
    BY GridFSAssumption
  <2>2. caller \in [Callers -> CallState]
    BY <2>1, <1>2 DEF CallState, CallPhases
  <2> QED BY <2>2 DEF GridTypeOK, GridInit, Documents
<1>6. ASSUME NEW c \in Callers
      PROVE  IdsRight(c) /\ DeleteRight(c) /\ LeftRight(c)
  BY <1>3, GridFSAssumption DEF IdsRight, DeleteRight, LeftRight
<1>7. ASSUME NEW c \in Callers
      PROVE  PutRight(c)
  <2>1. LiesUpTo(c, 0, c)
    BY <1>4 DEF LiesUpTo, Numbers
  <2> QED BY <2>1, <1>3 DEF PutRight
<1>8. \A f \in FileIds : DocumentRight(f)
  BY DEF DocumentRight, Has, GridInit
<1> QED BY <1>5, <1>6, <1>7, <1>8 DEF GridInv

\* What is stored is whole.
LEMMA GridWhole == ASSUME GridInv, NEW f \in FileIds, Has(f) PROVE Whole(f) \/ DeletedBefore(f)
<1>1. PICK c \in Callers : /\ c = document[f].by /\ caller[c].content = document[f].content
                           /\ LiesUpTo(c, LengthOf(c), f)
  BY DEF GridInv, DocumentRight
<1>2. CASE TakenBy(f, c)
  BY <1>1, <1>2 DEF TakenBy, DeletedBefore
<1>3. CASE ~TakenBy(f, c)
  <2>1. LengthOf(c) = Size[document[f].content] /\ LengthOf(c) \in 0 .. MaxChunks
    BY <1>1, GridFSAssumption DEF LengthOf, GridInv, GridTypeOK, CallState
  <2>2. ASSUME NEW n \in 0 .. Size[document[f].content] - 1
        PROVE  \E k \in Chunks : fileOf[k] = f /\ k[2] = n /\ ContentOf(k) = document[f].content
    <3>1. n \in Numbers /\ n < LengthOf(c)
      BY <2>1, <2>2, GridFSAssumption DEF Numbers
    <3>2. fileOf[<<c, n>>] = f
      BY <3>1, <1>1, <1>3 DEF LiesUpTo, Lies
    <3>3. <<c, n>> \in Chunks
      BY <3>1 DEF Chunks, Numbers
    <3> QED BY <3>2, <3>3, <1>1 DEF ContentOf
  <2> QED BY <2>2 DEF Whole
<1> QED BY <1>2, <1>3

\* A file that is there has every byte of it there, unless a delete that found an
\* earlier file under its id is on its way, and a call that ended left no chunk that
\* is no file's but one a delete has not come to (chunks.ts dropChunks, writeChunks;
\* claim.ts claim; put-once.ts putFileOnce): for any calls, contents, lengths and
\* number of retries.
THEOREM StoredWholeHolds == GridSpec => []StoredWhole
<1>1. GridInv /\ [GridNext]_gridVars => GridInv'
  <2> SUFFICES ASSUME GridInv, [GridNext]_gridVars PROVE GridInv'
    OBVIOUS
  <2>1. CASE UNCHANGED gridVars
    <3>1. fileOf' = fileOf /\ document' = document /\ caller' = caller
      BY <2>1 DEF gridVars
    <3>2. \A f, o : TakenBy(f, o)' <=> TakenBy(f, o)
      BY <3>1 DEF TakenBy
    <3>3. \A c, m, f : Lies(c, m, f)' <=> Lies(c, m, f)
      BY <3>1, <3>2 DEF Lies
    <3>4. \A c, n, f : (LiesUpTo(c, n, f)' <=> LiesUpTo(c, n, f)) /\ (LiesAside(c, n, f)' <=> LiesAside(c, n, f))
      BY <3>1, <3>3 DEF LiesUpTo, LiesAside
    <3>5. GridTypeOK'
      BY <3>1 DEF GridInv, GridTypeOK
    <3>6. \A c \in Callers : IdsRight(c)' /\ DeleteRight(c)'
      BY <3>1 DEF GridInv, IdsRight, DeleteRight
    <3>7. ASSUME NEW c \in Callers
          PROVE  PutRight(c)'
      BY <3>1, <3>3, <3>4 DEF GridInv, PutRight, LengthOf, OnceId
    <3>8. \A c \in Callers : LeftRight(c)'
      BY <3>1 DEF GridInv, LeftRight, OnItsWay
    <3>9. \A f \in FileIds : DocumentRight(f)'
      BY <3>1, <3>4 DEF GridInv, DocumentRight, LengthOf, Has
    <3> QED BY <3>5, <3>6, <3>7, <3>8, <3>9 DEF GridInv
  <2>2. CASE GridNext
    <3>1. PICK c \in Callers :
            \/ \E q \in Requests : Ask(c, q)
            \/ CheckId(c) \/ WriteChunk(c) \/ Written(c) \/ AskDigest(c)
            \/ Claim(c) \/ MoveRest(c) \/ InsertDocument(c) \/ Look(c) \/ Peek(c)
            \/ DropChunk(c) \/ CallFails(c) \/ DropFails(c) \/ CallCrashes(c)
            \/ FindFile(c) \/ Unlink(c) \/ Sweep(c)
      BY <2>2 DEF GridNext
    <3> QED
      BY <3>1, AskKeeps, CheckIdKeeps, WriteChunkKeeps, WrittenKeeps, AskDigestKeeps, ClaimKeeps,
         MoveRestKeeps, InsertKeeps, LookKeeps, PeekKeeps, DropChunkKeeps, CallFailsKeeps, UntidyKeeps,
         FindFileKeeps, UnlinkKeeps, SweepKeeps
  <2> QED BY <2>1, <2>2
<1>2. GridInv => StoredWhole
  <2> SUFFICES ASSUME GridInv PROVE StoredWhole
    OBVIOUS
  <2>1. \A f \in FileIds : Has(f) => Whole(f) \/ DeletedBefore(f)
    BY GridWhole
  <2>2. ASSUME NEW k \in Chunks, fileOf[k] # NoFile, caller[k[1]].phase = "over", caller[k[1]].tidy
        PROVE  \/ document[fileOf[k]].by = k[1]
               \/ \E c \in Callers : /\ caller[c].op = "delete" /\ caller[c].id = fileOf[k]
                                     /\ At(c, "sweeping") \/ ~caller[c].tidy
    <3>1. PICK o \in Callers, m \in Numbers : k = <<o, m>>
      BY DEF Chunks, Numbers
    <3>2. document[fileOf[k]].by = o \/ OnItsWay(fileOf[k], m)
      BY <2>2, <3>1 DEF GridInv, LeftRight
    <3> QED BY <3>1, <3>2 DEF OnItsWay, At
  <2> QED BY <2>1, <2>2 DEF StoredWhole
<1> QED BY <1>1, <1>2, GridStarts, PTL DEF GridSpec

(***************************************************************************)
(* Lists read page by page                                                 *)
(***************************************************************************)

\* How many of some documents come before one.
RankOf(ks, k, o) == Cardinality({j \in ks : Ahead(j, k, o)})

ListedOK == listed \in [Rows -> [shown : BOOLEAN, value : Values \cup {Null}]]

\* Ascending, or descending.
Rises(o) == o.direction = "asc"

\* Places, of natural numbers, are totally ordered.
LEMMA LeastOrders ==
  ASSUME NEW a \in Nat, NEW b \in Nat, NEW c \in Nat, NEW x \in Nat, NEW y \in Nat, NEW z \in Nat
  PROVE  /\ ~Least(<<a, x>>, <<a, x>>)
         /\ Least(<<a, x>>, <<b, y>>) /\ Least(<<b, y>>, <<c, z>>) => Least(<<a, x>>, <<c, z>>)
         /\ x # y => Least(<<a, x>>, <<b, y>>) \/ Least(<<b, y>>, <<a, x>>)
BY DEF Least

\* The first part of a document's place.
SortsBy(k, o) == IF o.field = "id" THEN 0 ELSE listed[k].value

\* The sort, by places.
LEMMA AheadBy ==
  ASSUME NEW o, NEW j, NEW k
  PROVE  Ahead(j, k, o) <=> IF Rises(o) THEN Least(<<SortsBy(j, o), j>>, <<SortsBy(k, o), k>>)
                                        ELSE Least(<<SortsBy(k, o), k>>, <<SortsBy(j, o), j>>)
BY DEF Ahead, Place, SortsBy, Rises

\* A value or a null, as a number.
LEMMA SortsByType ==
  ASSUME ListedOK, NEW o, NEW k \in Rows PROVE SortsBy(k, o) \in Nat
<1>1. listed[k].value \in Nat
  <2>1. listed[k].value \in Values \cup {0}
    BY DEF ListedOK, Null
  <2>2. \A v \in Values \cup {0} : v \in Nat
    BY PagesAssumption
  <2> QED BY <2>1, <2>2
<1>2. CASE o.field = "id"
  BY <1>2 DEF SortsBy
<1>3. CASE o.field # "id"
  BY <1>1, <1>3 DEF SortsBy
<1> QED BY <1>2, <1>3

\* The sort of a list is a strict total order.
LEMMA AheadOrders ==
  ASSUME ListedOK, NEW o, NEW a \in Rows, NEW b \in Rows, NEW c \in Rows
  PROVE  /\ ~Ahead(a, a, o)
         /\ Ahead(a, b, o) /\ Ahead(b, c, o) => Ahead(a, c, o)
         /\ a # b => Ahead(a, b, o) \/ Ahead(b, a, o)
<1>1. SortsBy(a, o) \in Nat /\ SortsBy(b, o) \in Nat /\ SortsBy(c, o) \in Nat
  BY SortsByType
<1>2. a \in Nat /\ b \in Nat /\ c \in Nat
  BY PagesAssumption
<1> DEFINE u == SortsBy(a, o)
           v == SortsBy(b, o)
           w == SortsBy(c, o)
<1> HIDE DEF u, v, w
<1>3. /\ ~Least(<<u, a>>, <<u, a>>)
      /\ Least(<<u, a>>, <<v, b>>) /\ Least(<<v, b>>, <<w, c>>) => Least(<<u, a>>, <<w, c>>)
      /\ Least(<<w, c>>, <<v, b>>) /\ Least(<<v, b>>, <<u, a>>) => Least(<<w, c>>, <<u, a>>)
      /\ a # b => Least(<<u, a>>, <<v, b>>) \/ Least(<<v, b>>, <<u, a>>)
  BY <1>1, <1>2, LeastOrders DEF u, v, w
<1> QED BY <1>3, AheadBy DEF u, v, w

\* The ranks of documents are those below their number, each of one of them.
LEMMA RanksOfSome ==
  ASSUME ListedOK, NEW o, NEW ks \in SUBSET Rows
  PROVE  /\ IsFiniteSet(ks) /\ Cardinality(ks) \in Nat
         /\ \A k \in ks : RankOf(ks, k, o) \in Nat /\ RankOf(ks, k, o) < Cardinality(ks)
         /\ \A a, b \in ks : Ahead(a, b, o) => RankOf(ks, a, o) < RankOf(ks, b, o)
<1>1. /\ IsFiniteSet(ks) /\ Cardinality(ks) \in Nat
  BY PagesAssumption, FS_Subset, FS_CardinalityType
<1>2. ASSUME NEW k \in ks PROVE RankOf(ks, k, o) \in Nat /\ RankOf(ks, k, o) < Cardinality(ks)
  <2> DEFINE T == {j \in ks : Ahead(j, k, o)}
  <2>1. T \in SUBSET ks /\ k \notin T
    BY AheadOrders
  <2>2. /\ IsFiniteSet(T) /\ Cardinality(T) <= Cardinality(ks)
        /\ Cardinality(T) \in Nat /\ Cardinality(ks) # Cardinality(T)
    BY <1>1, <2>1, FS_Subset, FS_CardinalityType
  <2> QED BY <1>1, <2>2 DEF RankOf
<1>3. ASSUME NEW a \in ks, NEW b \in ks, Ahead(a, b, o) PROVE RankOf(ks, a, o) < RankOf(ks, b, o)
  <2> DEFINE S == {j \in ks : Ahead(j, a, o)}
             T == {j \in ks : Ahead(j, b, o)}
  <2>1. S \in SUBSET T /\ a \in T /\ a \notin S
    BY <1>3, AheadOrders
  <2>2. IsFiniteSet(T)
    BY <1>1, FS_Subset
  <2>3. Cardinality(S) <= Cardinality(T) /\ Cardinality(T) # Cardinality(S) /\ IsFiniteSet(S)
    BY <2>1, <2>2, FS_Subset
  <2>4. Cardinality(S) \in Nat /\ Cardinality(T) \in Nat
    BY <2>2, <2>3, FS_CardinalityType
  <2> QED BY <2>3, <2>4 DEF RankOf
<1> QED BY <1>1, <1>2, <1>3

\* Every rank below their number is that of one of them.
LEMMA EveryRank ==
  ASSUME ListedOK, NEW o, NEW ks \in SUBSET Rows, NEW n \in Nat, n < Cardinality(ks)
  PROVE  \E k \in ks : RankOf(ks, k, o) = n
<1> DEFINE T == 0 .. (Cardinality(ks) - 1)
           f == [k \in ks |-> RankOf(ks, k, o)]
<1>1. /\ IsFiniteSet(ks) /\ Cardinality(ks) \in Nat
      /\ \A k \in ks : RankOf(ks, k, o) \in Nat /\ RankOf(ks, k, o) < Cardinality(ks)
      /\ \A a, b \in ks : Ahead(a, b, o) => RankOf(ks, a, o) < RankOf(ks, b, o)
  BY RanksOfSome
<1>2. f \in [ks -> T]
  BY <1>1
<1>3. \A a, b \in ks : a # b => f[a] # f[b]
  BY <1>1, AheadOrders
<1>4. f \in Injection(ks, T)
  BY <1>2, <1>3 DEF Injection, IsInjective
<1>5. IsFiniteSet(T) /\ Cardinality(T) = Cardinality(ks)
  <2>1. Cardinality(ks) - 1 \in Int
    BY <1>1
  <2>2. IsFiniteSet(T) /\ Cardinality(T) = IF 0 > Cardinality(ks) - 1 THEN 0 ELSE Cardinality(ks) - 1 - 0 + 1
    BY <2>1, FS_Interval
  <2> QED BY <1>1, <2>2
<1>6. f \in Surjection(ks, T)
  <2> HIDE DEF f, T
  <2> QED BY <1>4, <1>5, FS_Injection
<1>7. n \in T
  BY <1>1
<1> QED BY <1>6, <1>7 DEF Surjection

\* The first of some documents come before the others.
LEMMA TheFirstCuts ==
  ASSUME ListedOK, NEW o, NEW ks \in SUBSET Rows, NEW n \in Nat
  PROVE  /\ TheFirst(ks, n, o) = {k \in ks : RankOf(ks, k, o) < n}
         /\ TheFirst(ks, n, o) \in SUBSET ks
         /\ \A a \in TheFirst(ks, n, o), b \in ks \ TheFirst(ks, n, o) : Ahead(a, b, o)
<1>1. TheFirst(ks, n, o) = {k \in ks : RankOf(ks, k, o) < n}
  BY DEF TheFirst, RankOf
<1>2. ASSUME NEW a \in ks, NEW b \in ks, RankOf(ks, a, o) < n, ~(RankOf(ks, b, o) < n), ~Ahead(a, b, o)
      PROVE  FALSE
  <2>1. Ahead(b, a, o)
    BY <1>2, AheadOrders
  <2>2. RankOf(ks, b, o) < RankOf(ks, a, o) /\ RankOf(ks, a, o) \in Nat /\ RankOf(ks, b, o) \in Nat
    BY <2>1, RanksOfSome
  <2> QED BY <1>2, <2>2
<1> QED BY <1>1, <1>2

\* The first `n' are n documents, or all of them if there are fewer.
LEMMA HowManyFirst ==
  ASSUME ListedOK, NEW o, NEW ks \in SUBSET Rows, NEW n \in Nat
  PROVE  /\ n <= Cardinality(ks) => Cardinality(TheFirst(ks, n, o)) = n
         /\ Cardinality(ks) <= n => TheFirst(ks, n, o) = ks
<1>1. /\ IsFiniteSet(ks) /\ Cardinality(ks) \in Nat
      /\ \A k \in ks : RankOf(ks, k, o) \in Nat /\ RankOf(ks, k, o) < Cardinality(ks)
      /\ \A a, b \in ks : Ahead(a, b, o) => RankOf(ks, a, o) < RankOf(ks, b, o)
  BY RanksOfSome
<1>2. TheFirst(ks, n, o) = {k \in ks : RankOf(ks, k, o) < n}
  BY TheFirstCuts
<1>3. ASSUME Cardinality(ks) <= n PROVE TheFirst(ks, n, o) = ks
  BY <1>1, <1>2, <1>3
<1>4. ASSUME n <= Cardinality(ks) PROVE Cardinality(TheFirst(ks, n, o)) = n
  <2> DEFINE S == {k \in ks : RankOf(ks, k, o) < n}
             T == 0 .. (n - 1)
             f == [k \in S |-> RankOf(ks, k, o)]
  <2>1. f \in [S -> T]
    BY <1>1
  <2>2. \A a, b \in S : a # b => f[a] # f[b]
    BY <1>1, AheadOrders
  <2>3. \A t \in T : \E s \in S : f[s] = t
    <3> SUFFICES ASSUME NEW t \in T PROVE \E s \in S : f[s] = t
      OBVIOUS
    <3>1. t \in Nat /\ t < n /\ t < Cardinality(ks)
      BY <1>1, <1>4
    <3>2. PICK k \in ks : RankOf(ks, k, o) = t
      BY <3>1, EveryRank
    <3> QED BY <3>1, <3>2
  <2>4. f \in Injection(S, T) /\ f \in Surjection(S, T)
    BY <2>1, <2>2, <2>3 DEF Injection, IsInjective, Surjection
  <2>5. IsFiniteSet(S)
    BY <1>1, FS_Subset
  <2>6. IsFiniteSet(T) /\ Cardinality(T) = Cardinality(S)
    <3> HIDE DEF S, T, f
    <3> QED BY <2>4, <2>5, FS_Surjection
  <2>7. Cardinality(T) = n
    <3>1. n - 1 \in Int
      OBVIOUS
    <3>2. Cardinality(T) = IF 0 > n - 1 THEN 0 ELSE n - 1 - 0 + 1
      BY <3>1, FS_Interval
    <3> QED BY <3>2
  <2> QED BY <1>2, <2>6, <2>7
<1> QED BY <1>3, <1>4

\* There is a last of some documents.
LEMMA TheLastIsLast ==
  ASSUME ListedOK, NEW o, NEW ks \in SUBSET Rows, ks # {}
  PROVE  TheLast(ks, o) \in ks /\ \A k \in ks \ {TheLast(ks, o)} : Ahead(k, TheLast(ks, o), o)
<1>1. /\ IsFiniteSet(ks) /\ Cardinality(ks) \in Nat
      /\ \A k \in ks : RankOf(ks, k, o) \in Nat /\ RankOf(ks, k, o) < Cardinality(ks)
      /\ \A a, b \in ks : Ahead(a, b, o) => RankOf(ks, a, o) < RankOf(ks, b, o)
  BY RanksOfSome
<1>2. Cardinality(ks) # 0
  BY <1>1, FS_EmptySet
<1>3. Cardinality(ks) - 1 \in Nat /\ Cardinality(ks) - 1 < Cardinality(ks)
  BY <1>1, <1>2
<1>4. PICK last \in ks : RankOf(ks, last, o) = Cardinality(ks) - 1
  BY <1>3, EveryRank
<1>5. ASSUME NEW k \in ks \ {last}, ~Ahead(k, last, o) PROVE FALSE
  <2>1. Ahead(last, k, o)
    BY <1>5, AheadOrders
  <2>2. RankOf(ks, last, o) < RankOf(ks, k, o)
    BY <1>1, <2>1
  <2> QED BY <1>1, <1>4, <2>2
<1>6. \E k \in ks : \A j \in ks \ {k} : Ahead(j, k, o)
  BY <1>5
<1> QED BY <1>6 DEF TheLast

\* What a page reads of the documents after its cursor: the first of them; and
\* when there are no more, all of them.
LEMMA PageOfSome ==
  ASSUME ListedOK, NEW o, NEW ks \in SUBSET Rows,
         NEW found, found = TheFirst(ks, Limit + 1, o), NEW items, items = TheFirst(found, Limit, o)
  PROVE  /\ found \in SUBSET ks /\ items \in SUBSET ks
         /\ \A a \in items, b \in ks \ items : Ahead(a, b, o)
         /\ ~(Cardinality(found) > Limit) => items = ks
         /\ Cardinality(found) > Limit => items # {}
<1>0. Limit \in Nat /\ Limit > 0 /\ Limit + 1 \in Nat
  BY PagesAssumption
<1>1. found \in SUBSET ks /\ \A a \in found, b \in ks \ found : Ahead(a, b, o)
  BY <1>0, TheFirstCuts
<1>2. found \in SUBSET Rows
  BY <1>1
<1>3. items \in SUBSET found /\ \A a \in items, b \in found \ items : Ahead(a, b, o)
  BY <1>0, <1>2, TheFirstCuts
<1>4. /\ Limit <= Cardinality(found) => Cardinality(items) = Limit
      /\ Cardinality(found) <= Limit => items = found
  BY <1>0, <1>2, HowManyFirst
<1>5. /\ Limit + 1 <= Cardinality(ks) => Cardinality(found) = Limit + 1
      /\ Cardinality(ks) <= Limit + 1 => found = ks
  BY <1>0, HowManyFirst
<1>6. Cardinality(ks) \in Nat /\ Cardinality(found) \in Nat
  BY <1>2, RanksOfSome
<1>7. ASSUME ~(Cardinality(found) > Limit) PROVE items = ks
  BY <1>0, <1>4, <1>5, <1>6, <1>7
<1>8. ASSUME Cardinality(found) > Limit PROVE items # {}
  BY <1>0, <1>4, <1>6, <1>8, FS_EmptySet
<1> QED BY <1>1, <1>3, <1>7, <1>8

BeyondUp(x, y) == x # Null /\ y # Null /\ x > y
BeyondDown(x, y) == x # Null /\ y # Null /\ x < y

\* A range operator, in either direction.
LEMMA BeyondBy ==
  ASSUME NEW x, NEW y, NEW o PROVE Beyond(x, y, o) <=> IF Rises(o) THEN BeyondUp(x, y) ELSE BeyondDown(x, y)
BY Zenon DEF Beyond, Rises, BeyondUp, BeyondDown

\* The two forms of a keyset say what comes after a place.
LEMMA KeysetsTell ==
  ASSUME NEW v \in Nat, NEW w \in Nat, NEW i \in Nat \ {0}, NEW k \in Nat \ {0}
  PROVE  /\ (v # Null /\ BeyondUp(w, v)) \/ (v = Null /\ w # Null) \/ (w = v /\ BeyondUp(k, i))
              <=> Least(<<v, i>>, <<w, k>>)
         /\ (v # Null /\ BeyondDown(w, v)) \/ (v # Null /\ w = Null) \/ (w = v /\ BeyondDown(k, i))
              <=> Least(<<w, k>>, <<v, i>>)
         /\ v # Null /\ w # Null =>
              /\ BeyondUp(w, v) \/ (w = v /\ BeyondUp(k, i)) <=> Least(<<v, i>>, <<w, k>>)
              /\ BeyondDown(w, v) \/ (w = v /\ BeyondDown(k, i)) <=> Least(<<w, k>>, <<v, i>>)
         /\ BeyondUp(k, i) <=> Least(<<0, i>>, <<0, k>>)
         /\ BeyondDown(k, i) <=> Least(<<0, k>>, <<0, i>>)
BY DEF Null, BeyondUp, BeyondDown, Least

\* Whether the place a cursor holds comes before a document.
CursorBefore(c, k, o) ==
  LET first == IF o.field = "id" THEN 0 ELSE c.value IN
  IF Rises(o) THEN Least(<<first, c.id>>, <<SortsBy(k, o), k>>)
              ELSE Least(<<SortsBy(k, o), k>>, <<first, c.id>>)

\* What is asked for with a cursor is what comes after its place.
LEMMA AfterCursor ==
  ASSUME ListedOK, NEW o \in Orderings, NEW k \in Rows, walk.cursor # NoCursor,
         walk.cursor.value \in Values \cup {Null}, walk.cursor.id \in Rows,
         walk.by \in {"collection", "table", "files"}, walk.by = "files" => o.field = "value",
         walk.by # "collection" => walk.cursor.value # Null /\ listed[k].value # Null
  PROVE  After(k, o) <=> CursorBefore(walk.cursor, k, o)
<1> DEFINE v == walk.cursor.value
           i == walk.cursor.id
           w == listed[k].value
<1>1. v \in Nat /\ i \in Nat \ {0} /\ w \in Nat /\ k \in Nat \ {0}
  <2>1. w \in Values \cup {0}
    BY DEF ListedOK, Null
  <2>2. \A u \in Values \cup {0} : u \in Nat
    BY PagesAssumption
  <2>3. \A u \in Rows : u \in Nat \ {0}
    BY PagesAssumption
  <2>4. v \in Values \cup {0}
    BY DEF Null
  <2> QED BY <2>1, <2>2, <2>3, <2>4
<1>2. /\ (v # Null /\ BeyondUp(w, v)) \/ (v = Null /\ w # Null) \/ (w = v /\ BeyondUp(k, i))
           <=> Least(<<v, i>>, <<w, k>>)
      /\ (v # Null /\ BeyondDown(w, v)) \/ (v # Null /\ w = Null) \/ (w = v /\ BeyondDown(k, i))
           <=> Least(<<w, k>>, <<v, i>>)
      /\ v # Null /\ w # Null =>
           /\ BeyondUp(w, v) \/ (w = v /\ BeyondUp(k, i)) <=> Least(<<v, i>>, <<w, k>>)
           /\ BeyondDown(w, v) \/ (w = v /\ BeyondDown(k, i)) <=> Least(<<w, k>>, <<v, i>>)
      /\ BeyondUp(k, i) <=> Least(<<0, i>>, <<0, k>>)
      /\ BeyondDown(k, i) <=> Least(<<0, k>>, <<0, i>>)
  <2> HIDE DEF v, i, w
  <2> QED BY <1>1, KeysetsTell
<1>3. CASE o.field = "id"
  <2>1. After(k, o) <=> Beyond(k, i, o)
    BY <1>3 DEF After
  <2>2. CursorBefore(walk.cursor, k, o) <=>
          IF Rises(o) THEN Least(<<0, i>>, <<0, k>>) ELSE Least(<<0, k>>, <<0, i>>)
    BY <1>3 DEF CursorBefore, SortsBy
  <2> QED BY <1>2, <2>1, <2>2, BeyondBy
<1>4. CASE o.field = "value"
  <2>2. CursorBefore(walk.cursor, k, o) <=>
          IF Rises(o) THEN Least(<<v, i>>, <<w, k>>) ELSE Least(<<w, k>>, <<v, i>>)
    BY <1>4 DEF CursorBefore, SortsBy
  <2>3. CASE walk.by = "collection"
    <3>1. After(k, o) <=> Keyset(k, v, i, o)
      BY <1>4, <2>3 DEF After
    <3>2. o.direction = "desc" <=> ~Rises(o)
      BY DEF Orderings, Rises
    <3>3. Keyset(k, v, i, o) <=>
            IF Rises(o)
            THEN (v # Null /\ BeyondUp(w, v)) \/ (v = Null /\ w # Null) \/ (w = v /\ BeyondUp(k, i))
            ELSE (v # Null /\ BeyondDown(w, v)) \/ (v # Null /\ w = Null) \/ (w = v /\ BeyondDown(k, i))
      <4> HIDE DEF v, i
      <4>1. CASE Rises(o)
        BY <3>2, <4>1, BeyondBy DEF Keyset, Rises
      <4>2. CASE ~Rises(o)
        BY <3>2, <4>2, BeyondBy DEF Keyset, Rises
      <4> QED BY <4>1, <4>2
    <3> QED BY <1>2, <2>2, <3>1, <3>3
  <2>4. CASE walk.by # "collection"
    <3>1. After(k, o) <=> Beyond(w, v, o) \/ (w = v /\ Beyond(k, i, o))
      <4>1. CASE walk.by = "table"
        BY <1>4, <4>1 DEF After, KeysetAfter
      <4>2. CASE walk.by = "files"
        BY <1>4, <4>2 DEF After, FilesAfter
      <4> QED BY <2>4, <4>1, <4>2
    <3> QED BY <1>2, <2>2, <2>4, <3>1, BeyondBy
  <2> QED BY <2>3, <2>4
<1> QED BY <1>3, <1>4 DEF Orderings

PagesTypeOK ==
  /\ ListedOK
  /\ walk \in [by : {"collection", "table", "files", "number", "query"}, ordering : Orderings,
               cursor : {NoCursor} \cup [key : Seq({"id", "value", "asc", "desc"} \cup Scopes),
                                         value : Values \cup {Null}, id : Rows],
               pages : Seq(SUBSET Rows), ended : BOOLEAN, page : Nat \ {0},
               items : {NotRead} \cup SUBSET Rows, total : {NotRead} \cup Nat]

\* A cursor is bound to the walk's list, and only a walk by number has items
\* that it did not take yet.
CursorOK ==
  /\ walk.by \notin {"number", "query"} => walk.items = NotRead
  /\ walk.cursor # NoCursor => walk.cursor.key = CursorKey(walk.ordering)
  /\ walk.by \in {"table", "files"} =>
       /\ \A k \in Rows : listed[k].shown => listed[k].value # Null
       /\ walk.cursor # NoCursor => walk.cursor.value # Null
  /\ walk.by = "files" => walk.ordering.field = "value"

\* What a walk by cursors has given: the still documents up to its cursor.
GivenSoFar ==
  walk.by \notin {"number", "query"} =>
    /\ \A i, j \in DOMAIN walk.pages :
         i < j => \A a \in SeenOn(i), b \in SeenOn(j) : Ahead(a, b, walk.ordering)
    /\ \A i \in DOMAIN walk.pages : walk.pages[i] \subseteq InScope[walk.ordering.scope]
    /\ walk.ended => walk.cursor = NoCursor /\ Still \subseteq Seen
    /\ ~walk.ended /\ walk.cursor = NoCursor => walk.pages = <<>>
    /\ walk.cursor # NoCursor =>
         \A k \in Still : k \in Seen <=> ~CursorBefore(walk.cursor, k, walk.ordering)

\* A page by its number.
PageOf(i, o) == TheFirst(Matching(o) \ TheFirst(Matching(o), Skip(i), o), Limit, o)

\* What a walk by number has given, while nothing is written.
NumbersSoFar ==
  walk.by \in {"number", "query"} =>
    /\ walk.cursor = NoCursor /\ walk.page = Len(walk.pages) + 1
    /\ moved = {} =>
         /\ \A i \in DOMAIN walk.pages : walk.pages[i] = PageOf(i, walk.ordering)
         /\ walk.items # NotRead => walk.items = PageOf(walk.page, walk.ordering)
         /\ walk.total # NotRead => walk.total = Cardinality(Matching(walk.ordering))
         /\ walk.ended => Len(walk.pages) >= PageCount(Cardinality(Matching(walk.ordering)))

PagesInv == PagesTypeOK /\ CursorOK /\ GivenSoFar /\ NumbersSoFar

\* The ordering of a cursor is the walk's, however it is asked for.
LEMMA AsksItsOwn ==
  ASSUME PagesInv, NEW o \in Askable, Accepted(o), walk.by # "collection" => o.scope = walk.ordering.scope
  PROVE  o = walk.ordering
<1>1. o \in Orderings /\ walk.ordering \in Orderings
  BY DEF Askable, PagesInv, PagesTypeOK
<1>2. CASE walk.cursor = NoCursor
  BY <1>2 DEF Askable
<1>3. CASE walk.cursor # NoCursor
  <2>1. CursorKey(o) = CursorKey(walk.ordering)
    BY <1>3 DEF Accepted, PagesInv, CursorOK
  <2>2. ASSUME NEW p \in Orderings PROVE CursorKey(p)[1] = p.field /\ CursorKey(p)[2] = p.direction
                                         /\ (walk.by = "collection" => CursorKey(p)[3] = p.scope)
    BY DEF CursorKey, BareKey
  <2>3. o.field = walk.ordering.field /\ o.direction = walk.ordering.direction
    BY <1>1, <2>1, <2>2
  <2>4. o.scope = walk.ordering.scope
    BY <1>1, <2>1, <2>2
  <2> QED BY <1>1, <2>3, <2>4 DEF Orderings
<1> QED BY <1>2, <1>3

\* A walk has given nothing when it begins.
LEMMA PagesInitInv == PagesInit => PagesInv
<1> SUFFICES ASSUME PagesInit PROVE PagesInv
  OBVIOUS
<1>1. PICK by \in {"collection", "table", "files", "number", "query"}, o \in Orderings :
        walk = [by |-> by, ordering |-> o, cursor |-> NoCursor, pages |-> <<>>, ended |-> FALSE,
                page |-> 1, items |-> NotRead, total |-> NotRead]
  BY DEF PagesInit, Walks
<1>2. PagesTypeOK
  BY <1>1 DEF PagesInit, PagesTypeOK, ListedOK
<1>3. CursorOK
  BY <1>1 DEF PagesInit, CursorOK
<1>4. GivenSoFar
  BY <1>1 DEF GivenSoFar
<1>5. NumbersSoFar
  BY <1>1 DEF NumbersSoFar
<1> QED BY <1>2, <1>3, <1>4, <1>5 DEF PagesInv

\* A still document, and its place, stay what they are.
LEMMA MovesKeepsInv == PagesInv /\ Moves => PagesInv'
<1> SUFFICES ASSUME PagesInv, Moves PROVE PagesInv'
  OBVIOUS
<1>1. PICK k \in Rows, shown \in BOOLEAN, v \in Values \cup {Null} :
        /\ walk.by \in {"table", "files"} /\ shown => v # Null
        /\ listed' = [listed EXCEPT ![k] = [shown |-> shown, value |-> v]]
        /\ moved' = moved \cup {k} /\ UNCHANGED walk /\ ~walk.ended
  BY DEF Moves
<1>2. ListedOK' /\ \A j \in Rows \ {k} : listed'[j] = listed[j]
  BY <1>1 DEF PagesInv, PagesTypeOK, ListedOK
<1>3. PagesTypeOK'
  BY <1>1, <1>2 DEF PagesInv, PagesTypeOK
<1>4. CursorOK'
  BY <1>1, <1>2 DEF PagesInv, PagesTypeOK, ListedOK, CursorOK, CursorKey
<1>5. Still' \subseteq Still /\ k \notin Still' /\ Still' \subseteq Rows
  <2>1. walk.ordering \in Orderings /\ walk'.ordering = walk.ordering
    BY <1>1 DEF PagesInv, PagesTypeOK
  <2>2. InScope[walk.ordering.scope] \subseteq Rows
    BY <2>1, PagesAssumption DEF Orderings
  <2> QED BY <1>1, <1>2, <2>1, <2>2 DEF Still, Matching
<1>6. GivenSoFar'
  <2> SUFFICES ASSUME walk.by \notin {"number", "query"} PROVE GivenSoFar'
    BY <1>1 DEF GivenSoFar
  <2>1. \A a, b \in Still' : Ahead(a, b, walk.ordering)' <=> Ahead(a, b, walk.ordering)
    BY <1>1, <1>2, <1>5 DEF Ahead, Place
  <2>2. \A a \in Still' : CursorBefore(walk.cursor, a, walk.ordering)' <=> CursorBefore(walk.cursor, a, walk.ordering)
    BY <1>1, <1>2, <1>5 DEF CursorBefore, SortsBy
  <2>3. /\ \A i \in DOMAIN walk.pages : SeenOn(i)' \subseteq SeenOn(i) /\ SeenOn(i)' \subseteq Still'
        /\ \A a \in Still' : a \in Seen' <=> a \in Seen
    BY <1>1, <1>5 DEF SeenOn, Seen
  <2> QED BY <1>1, <1>5, <2>1, <2>2, <2>3 DEF PagesInv, GivenSoFar
<1>7. NumbersSoFar'
  BY <1>1 DEF PagesInv, NumbersSoFar
<1> QED BY <1>3, <1>4, <1>6, <1>7 DEF PagesInv

\* What is not after a place is ahead of what is.
LEMMA BeforeSplits ==
  ASSUME ListedOK, NEW o, NEW c, c.value \in Values \cup {Null}, c.id \in Rows, NEW a \in Rows, NEW b \in Rows,
         ~CursorBefore(c, a, o), CursorBefore(c, b, o)
  PROVE  Ahead(a, b, o)
<1> DEFINE p == IF o.field = "id" THEN 0 ELSE c.value
           i == c.id
           u == SortsBy(a, o)
           v == SortsBy(b, o)
<1>1. c.value \in Nat
  <2>1. \A w \in Values \cup {0} : w \in Nat
    BY PagesAssumption
  <2> QED BY <2>1 DEF Null
<1>2. p \in Nat
  <2>1. CASE o.field = "id"
    BY <2>1
  <2>2. CASE o.field # "id"
    BY <1>1, <2>2
  <2> QED BY <2>1, <2>2
<1>3. i \in Nat /\ a \in Nat /\ b \in Nat
  <2>1. \A w \in Rows : w \in Nat
    BY PagesAssumption
  <2> QED BY <2>1
<1>4. u \in Nat /\ v \in Nat
  BY SortsByType
<1>5. CursorBefore(c, a, o) <=> IF Rises(o) THEN Least(<<p, i>>, <<u, a>>) ELSE Least(<<u, a>>, <<p, i>>)
  BY DEF CursorBefore
<1>6. CursorBefore(c, b, o) <=> IF Rises(o) THEN Least(<<p, i>>, <<v, b>>) ELSE Least(<<v, b>>, <<p, i>>)
  BY DEF CursorBefore
<1>7. Ahead(a, b, o) <=> IF Rises(o) THEN Least(<<u, a>>, <<v, b>>) ELSE Least(<<v, b>>, <<u, a>>)
  BY AheadBy
<1> HIDE DEF p, i, u, v
<1>8. /\ ~Least(<<p, i>>, <<u, a>>) /\ Least(<<p, i>>, <<v, b>>) => Least(<<u, a>>, <<v, b>>)
      /\ ~Least(<<u, a>>, <<p, i>>) /\ Least(<<v, b>>, <<p, i>>) => Least(<<v, b>>, <<u, a>>)
  BY <1>2, <1>3, <1>4 DEF Least
<1> QED BY <1>5, <1>6, <1>7, <1>8

\* A page after a cursor.
LEMMA ReadsAfterKeepsInv ==
  ASSUME PagesInv, walk.by \in {"collection", "table", "files"}, NEW o \in Askable,
         walk.by # "collection" => o.scope = walk.ordering.scope, ReadsAfter(o)
  PROVE  PagesInv'
<1>1. o = walk.ordering /\ o \in Orderings
  <2>1. o = walk.ordering
    BY AsksItsOwn DEF ReadsAfter
  <2> QED BY <2>1 DEF Askable
<1> DEFINE S == {k \in Matching(o) : After(k, o)}
           found == TheFirst(S, Limit + 1, o)
           items == TheFirst(found, Limit, o)
           more == Cardinality(found) > Limit
           last == TheLast(items, o)
           cursor == IF more THEN CursorAt(last, o) ELSE NoCursor
<1>2. /\ walk' = [walk EXCEPT !.pages = Append(@, items), !.ended = ~more, !.cursor = cursor]
      /\ UNCHANGED <<listed, moved>> /\ ~walk.ended
  BY DEF ReadsAfter
<1>3. ListedOK /\ InScope[o.scope] \in SUBSET Rows
  BY <1>1, PagesAssumption DEF PagesInv, PagesTypeOK, Orderings
<1>4. S \in SUBSET Rows
  BY <1>3 DEF Matching
<1>5. /\ items \in SUBSET S
      /\ \A a \in items, b \in S \ items : Ahead(a, b, o)
      /\ ~more => items = S
      /\ more => items # {}
  <2> HIDE DEF S
  <2> QED BY <1>3, <1>4, PageOfSome
<1>6. more => last \in items /\ \A k \in items \ {last} : Ahead(k, last, o)
  <2> HIDE DEF S
  <2>1. items \in SUBSET Rows
    BY <1>4, <1>5
  <2> HIDE DEF items, more
  <2> QED BY <1>3, <1>5, <2>1, TheLastIsLast
<1> HIDE DEF found, more
<1>7. CursorAt(last, o) = [key |-> CursorKey(o), value |-> listed[last].value, id |-> last]
  BY DEF CursorAt
<1>8. more => /\ last \in Rows /\ listed[last].value \in Values \cup {Null}
              /\ listed[last].shown
  BY <1>3, <1>4, <1>5, <1>6 DEF ListedOK, Matching
<1>9. CursorKey(o) \in Seq({"id", "value", "asc", "desc"} \cup Scopes)
  <2>1. o.field \in {"id", "value"} /\ o.direction \in {"asc", "desc"} /\ o.scope \in Scopes
    BY <1>1 DEF Orderings
  <2> DEFINE W == {"id", "value", "asc", "desc"} \cup Scopes
  <2>2. o.field \in W /\ o.direction \in W /\ o.scope \in W
    BY <2>1
  <2> HIDE DEF W
  <2>3. <<o.field, o.direction>> \in Seq(W) /\ <<o.scope>> \in Seq(W)
    BY <2>2
  <2>4. <<o.field, o.direction>> \o <<o.scope>> \in Seq(W)
    BY <2>3
  <2> QED BY <2>3, <2>4 DEF CursorKey, BareKey, W
<1>10. more => CursorAt(last, o) \in [key : Seq({"id", "value", "asc", "desc"} \cup Scopes),
                                      value : Values \cup {Null}, id : Rows]
  BY <1>7, <1>8, <1>9
<1>11. more => CursorAt(last, o) # NoCursor
  BY <1>10, CursorAssumption DEF Null
<1>12. items \in SUBSET Rows
  BY <1>4, <1>5
<1> HIDE DEF items, last
<1>13. cursor \in {NoCursor} \cup [key : Seq({"id", "value", "asc", "desc"} \cup Scopes),
                                   value : Values \cup {Null}, id : Rows]
  BY <1>10
<1>p. PICK cur : cur = cursor
  OBVIOUS
<1> HIDE DEF cursor
<1>14. /\ walk'.by = walk.by /\ walk'.items = walk.items /\ walk'.ordering = o
       /\ walk'.cursor = cur /\ walk'.ended = ~more
       /\ walk'.pages = Append(walk.pages, items) /\ walk.pages \in Seq(SUBSET Rows)
  BY <1>1, <1>2, <1>p DEF PagesInv, PagesTypeOK
<1> DEFINE next == Len(walk.pages) + 1
<1>0. PICK n : n = next
  OBVIOUS
<1>15. /\ DOMAIN walk'.pages = DOMAIN walk.pages \cup {n}
       /\ \A i \in DOMAIN walk.pages : walk'.pages[i] = walk.pages[i] /\ i < n
       /\ walk'.pages[n] = items
       /\ n \notin DOMAIN walk.pages
       /\ walk'.pages \in Seq(SUBSET Rows)
  <2> DEFINE pages == walk.pages
  <2>1. pages \in Seq(SUBSET Rows)
    BY <1>14
  <2> HIDE DEF pages
  <2>2. /\ DOMAIN Append(pages, items) = DOMAIN pages \cup {Len(pages) + 1}
        /\ \A i \in DOMAIN pages : Append(pages, items)[i] = pages[i] /\ i < Len(pages) + 1
        /\ Append(pages, items)[Len(pages) + 1] = items
        /\ Len(pages) + 1 \notin DOMAIN pages
        /\ Append(pages, items) \in Seq(SUBSET Rows)
    BY <1>12, <2>1
  <2> QED BY <1>0, <1>14, <2>2 DEF pages
<1>16. PagesTypeOK'
  <2>1. (~more) \in BOOLEAN
    OBVIOUS
  <2> QED BY <1>2, <1>13, <1>14, <1>15, <1>p, <2>1 DEF PagesInv, PagesTypeOK, ListedOK
<1>17. CursorOK'
  <2>1. cur # NoCursor => more /\ cur = CursorAt(last, o)
    BY <1>p DEF cursor
  <2>2. cur # NoCursor => cur.key = CursorKey(o) /\ cur.value = listed[last].value
    BY <1>7, <2>1
  <2>3. CursorKey(walk.ordering)' = CursorKey(o)
    BY <1>14 DEF CursorKey
  <2> QED BY <1>1, <1>2, <1>8, <1>14, <2>1, <2>2, <2>3 DEF PagesInv, CursorOK
<1>18. NumbersSoFar'
  BY <1>14 DEF NumbersSoFar
<1>19. /\ Still' = Still /\ Still = Matching(o) \ moved /\ Still \subseteq Rows
       /\ \A i \in DOMAIN walk.pages : SeenOn(i)' = SeenOn(i)
       /\ SeenOn(n)' = items \cap Still
       /\ Seen' = Seen \cup (items \cap Still)
  <2>1. Still' = Still /\ Still = Matching(o) \ moved
    BY <1>1, <1>2, <1>14 DEF Still, Matching
  <2>2. /\ \A i \in DOMAIN walk.pages : SeenOn(i)' = SeenOn(i)
        /\ SeenOn(n)' = items \cap Still
    BY <1>15, <2>1 DEF SeenOn
  <2>3. \A a : a \in Seen' <=> a \in Seen \/ a \in items \cap Still
    <3>1. \A a : a \in Seen' <=> \E i \in DOMAIN walk'.pages : a \in SeenOn(i)'
      BY DEF Seen
    <3>2. \A a : a \in Seen <=> \E i \in DOMAIN walk.pages : a \in SeenOn(i)
      BY DEF Seen
    <3> QED BY <1>15, <2>2, <3>1, <3>2
  <2> QED BY <1>3, <2>1, <2>2, <2>3 DEF Matching
\* Where the old cursor stands to the documents.
<1>20. ASSUME NEW k \in Matching(o), walk.cursor # NoCursor
       PROVE  k \in Rows /\ (After(k, o) <=> CursorBefore(walk.cursor, k, o))
  <2>1. k \in Rows /\ listed[k].shown
    BY <1>3 DEF Matching
  <2>2. walk.cursor.value \in Values \cup {Null} /\ walk.cursor.id \in Rows
    BY <1>20 DEF PagesInv, PagesTypeOK
  <2>3. walk.by # "collection" => walk.cursor.value # Null /\ listed[k].value # Null
    BY <1>20, <2>1 DEF PagesInv, CursorOK
  <2>4. walk.by = "files" => o.field = "value"
    BY <1>1 DEF PagesInv, CursorOK
  <2> QED BY <1>1, <1>3, <1>20, <2>1, <2>2, <2>3, <2>4, AfterCursor
<1>21. ASSUME NEW a \in Seen PROVE a \in Still /\ walk.cursor # NoCursor /\ ~CursorBefore(walk.cursor, a, o)
  <2>1. a \in Still /\ walk.pages # <<>>
    BY DEF Seen, SeenOn
  <2> QED BY <1>1, <1>2, <2>1 DEF PagesInv, GivenSoFar
<1>22. ASSUME NEW k \in Still PROVE k \in Seen \/ k \in S
  <2>1. k \in Matching(o)
    BY <1>19
  <2>2. CASE walk.cursor = NoCursor
    BY <2>1, <2>2 DEF After
  <2>3. CASE walk.cursor # NoCursor
    BY <1>1, <1>20, <2>1, <2>3 DEF PagesInv, GivenSoFar
  <2> QED BY <2>2, <2>3
<1>23. ASSUME NEW a \in Seen, NEW b \in S PROVE Ahead(a, b, o)
  <2>1. ~CursorBefore(walk.cursor, a, o) /\ CursorBefore(walk.cursor, b, o) /\ a \in Rows /\ b \in Rows
    BY <1>4, <1>19, <1>20, <1>21
  <2>2. walk.cursor.value \in Values \cup {Null} /\ walk.cursor.id \in Rows
    BY <1>21 DEF PagesInv, PagesTypeOK
  <2> QED BY <1>3, <2>1, <2>2, BeforeSplits
<1>24. \A i \in DOMAIN walk.pages : \A a \in SeenOn(i) : a \in Seen
  BY DEF Seen
<1>25. ASSUME more, NEW k \in Still PROVE k \in Seen' <=> ~CursorBefore(cur, k, o)
  <2>1. cur = CursorAt(last, o) /\ last \in items /\ last \in S /\ last \in Rows /\ k \in Rows
    BY <1>5, <1>6, <1>8, <1>19, <1>25, <1>p DEF cursor
  <2>2. CursorBefore(cur, k, o) <=> Ahead(last, k, o)
    BY <1>7, <2>1, AheadBy DEF CursorBefore, SortsBy
  <2>3. CASE k \in Seen
    <3>1. Ahead(k, last, o)
      BY <1>23, <2>1, <2>3
    <3> QED BY <1>3, <1>19, <2>1, <2>2, <2>3, <3>1, AheadOrders
  <2>4. CASE k \in items
    <3>1. k = last \/ Ahead(k, last, o)
      BY <1>6, <1>25, <2>4
    <3> QED BY <1>3, <1>19, <2>1, <2>2, <2>4, <3>1, AheadOrders
  <2>5. CASE k \notin Seen /\ k \notin items
    <3>1. k \in S \ items
      BY <1>22, <2>5
    <3> QED BY <1>5, <1>19, <2>1, <2>2, <2>5, <3>1
  <2> QED BY <2>3, <2>4, <2>5
<1>26. GivenSoFar'
  <2>1. ASSUME NEW i \in DOMAIN walk'.pages, NEW j \in DOMAIN walk'.pages, i < j,
               NEW a \in SeenOn(i)', NEW b \in SeenOn(j)'
        PROVE  Ahead(a, b, o)
    <3>1. i \in DOMAIN walk.pages
      <4>1. CASE j \in DOMAIN walk.pages
        BY <1>15, <2>1, <4>1, <1>14
      <4>2. CASE j = n
        BY <1>14, <1>15, <2>1, <4>2
      <4> QED BY <1>15, <4>1, <4>2
    <3>2. a \in SeenOn(i) /\ a \in Seen
      BY <1>19, <1>24, <3>1
    <3>3. CASE j \in DOMAIN walk.pages
      BY <1>1, <1>19, <2>1, <3>1, <3>2, <3>3 DEF PagesInv, GivenSoFar
    <3>4. CASE j = n
      BY <1>5, <1>19, <1>23, <3>2, <3>4
    <3> QED BY <1>15, <3>3, <3>4
  <2>2. \A i \in DOMAIN walk'.pages : walk'.pages[i] \subseteq InScope[o.scope]
    BY <1>1, <1>5, <1>15 DEF PagesInv, GivenSoFar, Matching
  <2>3. ~more => cur = NoCursor /\ Still \subseteq Seen'
    BY <1>5, <1>19, <1>22, <1>p DEF cursor
  <2>4. more => cur # NoCursor
    BY <1>11, <1>p DEF cursor
  <2>5. \A a, b : Ahead(a, b, o)' <=> Ahead(a, b, o)
    BY <1>2 DEF Ahead, Place
  <2>6. \A k : CursorBefore(cur, k, o)' <=> CursorBefore(cur, k, o)
    BY <1>2 DEF CursorBefore, SortsBy
  <2> QED BY <1>14, <1>19, <1>25, <2>1, <2>2, <2>3, <2>4, <2>5, <2>6 DEF GivenSoFar
<1> QED BY <1>16, <1>17, <1>18, <1>26 DEF PagesInv

\* A page by its number holds the documents of its ranks.
LEMMA PageOfRanks ==
  ASSUME ListedOK, NEW o \in Orderings, NEW i \in Nat \ {0}
  PROVE  /\ PageOf(i, o) \in SUBSET Matching(o) /\ Matching(o) \in SUBSET Rows
         /\ \A k \in Matching(o) :
              k \in PageOf(i, o) <=> Skip(i) <= RankOf(Matching(o), k, o)
                                     /\ RankOf(Matching(o), k, o) < Skip(i) + Limit
<1> DEFINE M == Matching(o)
           s == Skip(i)
           F == TheFirst(M, s, o)
           R == M \ F
<1>1. M \in SUBSET Rows
  BY PagesAssumption DEF Matching, Orderings
<1>2. Limit \in Nat /\ s \in Nat
  <2>1. Limit \in Nat /\ i - 1 \in Nat
    BY PagesAssumption
  <2> QED BY <2>1 DEF Skip
<1> HIDE DEF M, s
<1>3. /\ F = {k \in M : RankOf(M, k, o) < s} /\ F \in SUBSET M
      /\ \A a \in F, b \in M \ F : Ahead(a, b, o)
  BY <1>1, <1>2, TheFirstCuts
<1>4. R \in SUBSET Rows
  BY <1>1
<1>5. PageOf(i, o) = {k \in R : RankOf(R, k, o) < Limit}
  <2> HIDE DEF R
  <2>1. TheFirst(R, Limit, o) = {k \in R : RankOf(R, k, o) < Limit}
    BY <1>2, <1>4, TheFirstCuts
  <2> QED BY <2>1 DEF PageOf, R, F, M, s
<1>6. \A k \in M : RankOf(M, k, o) \in Nat /\ RankOf(M, k, o) < Cardinality(M)
  BY <1>1, RanksOfSome
<1>7. Cardinality(M) \in Nat /\ IsFiniteSet(M)
  BY <1>1, RanksOfSome
<1>8. ASSUME NEW k \in R PROVE RankOf(M, k, o) = s + RankOf(R, k, o) /\ RankOf(R, k, o) \in Nat
  <2> DEFINE T == {j \in M : Ahead(j, k, o)}
             U == {j \in R : Ahead(j, k, o)}
  <2>1. U = T \ F /\ T \cap F = F
    BY <1>3
  <2>2. IsFiniteSet(T) /\ IsFiniteSet(F)
    BY <1>3, <1>7, FS_Subset
  <2>3. Cardinality(F) = s
    <3>1. s <= Cardinality(M)
      BY <1>2, <1>3, <1>6, <1>7
    <3> QED BY <1>1, <1>2, <3>1, HowManyFirst
  <2>4. Cardinality(U) = Cardinality(T) - Cardinality(F)
    BY <2>1, <2>2, FS_Difference
  <2>5. RankOf(R, k, o) = RankOf(M, k, o) - s
    BY <2>3, <2>4 DEF RankOf
  <2>6. RankOf(M, k, o) \in Nat /\ ~(RankOf(M, k, o) < s)
    BY <1>3, <1>6
  <2> QED BY <1>2, <2>5, <2>6
<1>9. ASSUME NEW k \in M
      PROVE  k \in PageOf(i, o) <=> s <= RankOf(M, k, o) /\ RankOf(M, k, o) < s + Limit
  <2>1. CASE k \in F
    BY <1>2, <1>3, <1>5, <1>6, <2>1
  <2>2. CASE k \in R
    <3>1. k \in PageOf(i, o) <=> RankOf(R, k, o) < Limit
      BY <1>5, <2>2
    <3>2. RankOf(M, k, o) = s + RankOf(R, k, o) /\ RankOf(R, k, o) \in Nat
      BY <1>8, <2>2
    <3> QED BY <1>2, <3>1, <3>2
  <2> QED BY <2>1, <2>2
<1>10. PageOf(i, o) \in SUBSET M
  BY <1>5
<1> QED BY <1>1, <1>9, <1>10 DEF M, s

\* A quotient and its remainder.
LEMMA Quotient ==
  ASSUME NEW a \in Nat, NEW l \in Nat \ {0}
  PROVE  a \div l \in Nat /\ (a \div l) * l <= a /\ a < (a \div l) * l + l
<1>1. a \div l \in Nat /\ a % l \in Nat /\ a % l < l
  OBVIOUS
<1>2. l * (a \div l) + (a % l) = a
  OBVIOUS
<1>3. (a \div l) * l = l * (a \div l) /\ l * (a \div l) \in Nat
  BY <1>1
<1> QED BY <1>1, <1>2, <1>3

\* Where the pages of numbers begin, and how many there are.
LEMMA PagesCover ==
  ASSUME NEW l \in Nat \ {0}
  PROVE  /\ \A i, j \in Nat \ {0} : i < j => (i - 1) * l + l <= (j - 1) * l
         /\ \A t \in Nat, n \in Nat, r \in Nat :
              n >= (t + l - 1) \div l /\ r < t =>
                \E i \in 1 .. n : (i - 1) * l <= r /\ r < (i - 1) * l + l
<1>1. ASSUME NEW i \in Nat \ {0}, NEW j \in Nat \ {0}, i < j PROVE (i - 1) * l + l <= (j - 1) * l
  <2>1. (i - 1) * l + l = i * l /\ i <= j - 1
    BY <1>1
  <2> DEFINE d == j - 1 - i
  <2>2. d \in Nat /\ j - 1 = i + d
    BY <1>1
  <2> HIDE DEF d
  <2>3. (i + d) * l = i * l + d * l /\ d * l \in Nat /\ i * l \in Nat
    BY <2>2
  <2> QED BY <2>1, <2>2, <2>3
<1>2. ASSUME NEW t \in Nat, NEW n \in Nat, NEW r \in Nat, n >= (t + l - 1) \div l, r < t
      PROVE  \E i \in 1 .. n : (i - 1) * l <= r /\ r < (i - 1) * l + l
  <2> DEFINE q == r \div l
             p == (t + l - 1) \div l
  <2>1. q \in Nat /\ q * l <= r /\ r < q * l + l
    BY Quotient
  <2>2. t + l - 1 < p * l + l /\ p \in Nat
    <3> DEFINE x == t + l - 1
    <3>1. x \in Nat
      OBVIOUS
    <3> HIDE DEF x
    <3>2. x \div l \in Nat /\ x < (x \div l) * l + l
      BY <3>1, Quotient
    <3> QED BY <3>2 DEF x
  <2>3. q < p
    <3> SUFFICES ASSUME p <= q PROVE FALSE
      BY <2>1, <2>2
    <3> HIDE DEF p, q
    <3>1. p * l <= q * l
      <4> DEFINE d == q - p
      <4>1. d \in Nat /\ q = p + d
        BY <2>1, <2>2
      <4> HIDE DEF d
      <4>2. (p + d) * l = p * l + d * l /\ d * l \in Nat /\ p * l \in Nat
        BY <2>2, <4>1
      <4> QED BY <4>1, <4>2
    <3>2. p * l \in Nat /\ q * l \in Nat
      BY <2>1, <2>2
    <3> QED BY <1>2, <2>1, <2>2, <3>1, <3>2
  <2> HIDE DEF p, q
  <2>4. q + 1 \in 1 .. n
    BY <1>2, <2>1, <2>2, <2>3 DEF p
  <2>5. PICK i \in 1 .. n : i = q + 1
    BY <2>4
  <2>6. i - 1 = q
    BY <2>1, <2>5
  <2>7. (i - 1) * l <= r /\ r < (i - 1) * l + l
    BY <2>1, <2>6
  <2> QED BY <2>7
<1> QED BY <1>1, <1>2

\* While nothing is written, the pages of numbers are in order and miss nothing.
LEMMA NumbersTell ==
  ASSUME PagesInv, walk.by \in {"number", "query"}, moved = {}
  PROVE  WalksWhole
<1> DEFINE o == walk.ordering
           M == Matching(o)
<1>1. /\ walk.cursor = NoCursor
      /\ \A i \in DOMAIN walk.pages : walk.pages[i] = PageOf(i, o)
      /\ walk.ended => Len(walk.pages) >= PageCount(Cardinality(M))
  BY DEF PagesInv, NumbersSoFar
<1>2. ListedOK /\ o \in Orderings /\ walk.pages \in Seq(SUBSET Rows)
  BY DEF PagesInv, PagesTypeOK
<1>3. Len(walk.pages) \in Nat /\ DOMAIN walk.pages = 1 .. Len(walk.pages)
  BY <1>2
<1>4. Still = M
  BY DEF Still
<1>5. Limit \in Nat \ {0}
  BY PagesAssumption
<1>6. ASSUME NEW i \in Nat \ {0}
      PROVE  /\ PageOf(i, o) \in SUBSET M /\ M \in SUBSET Rows
             /\ \A k \in M : k \in PageOf(i, o) <=> (i - 1) * Limit <= RankOf(M, k, o)
                                                    /\ RankOf(M, k, o) < (i - 1) * Limit + Limit
  BY <1>2, PageOfRanks DEF Skip
<1> HIDE DEF M, o
<1>7. M \in SUBSET Rows
  <2>1. 1 \in Nat \ {0}
    OBVIOUS
  <2> QED BY <1>6, <2>1
<1>8. /\ IsFiniteSet(M) /\ Cardinality(M) \in Nat
      /\ \A k \in M : RankOf(M, k, o) \in Nat /\ RankOf(M, k, o) < Cardinality(M)
      /\ \A a, b \in M : Ahead(a, b, o) => RankOf(M, a, o) < RankOf(M, b, o)
  BY <1>2, <1>7, RanksOfSome
<1>9. ASSUME NEW i \in DOMAIN walk.pages, NEW j \in DOMAIN walk.pages, i < j,
             NEW a \in SeenOn(i), NEW b \in SeenOn(j)
      PROVE  Ahead(a, b, o)
  <2>1. i \in Nat \ {0} /\ j \in Nat \ {0}
    BY <1>3
  <2>2. a \in PageOf(i, o) /\ b \in PageOf(j, o) /\ a \in M /\ b \in M
    BY <1>1, <1>4 DEF SeenOn
  <2>3. RankOf(M, a, o) < (i - 1) * Limit + Limit /\ (j - 1) * Limit <= RankOf(M, b, o)
    BY <1>6, <2>1, <2>2
  <2>4. (i - 1) * Limit + Limit <= (j - 1) * Limit
    BY <1>5, <1>9, <2>1, PagesCover
  <2>5. RankOf(M, a, o) < RankOf(M, b, o)
    <3>1. RankOf(M, a, o) \in Nat /\ RankOf(M, b, o) \in Nat
      BY <1>8, <2>2
    <3>2. (i - 1) * Limit \in Int /\ (j - 1) * Limit \in Int
      BY <1>5, <2>1
    <3> QED BY <1>5, <2>3, <2>4, <3>1, <3>2
  <2>6. ~Ahead(b, a, o) /\ a # b
    BY <1>8, <2>2, <2>5
  <2> QED BY <1>2, <1>7, <2>2, <2>6, AheadOrders
<1>10. \A i \in DOMAIN walk.pages : walk.pages[i] \subseteq InScope[o.scope]
  <2> SUFFICES ASSUME NEW i \in DOMAIN walk.pages PROVE walk.pages[i] \subseteq InScope[o.scope]
    OBVIOUS
  <2>1. i \in Nat \ {0}
    BY <1>3
  <2>2. walk.pages[i] \subseteq M
    BY <1>1, <1>6, <2>1
  <2> QED BY <2>2 DEF M, Matching
<1>11. ASSUME walk.ended PROVE Seen = M
  <2>1. Seen \subseteq M
    BY <1>4 DEF Seen, SeenOn
  <2>2. ASSUME NEW k \in M PROVE k \in Seen
    <3> DEFINE n == Len(walk.pages)
               r == RankOf(M, k, o)
               t == Cardinality(M)
    <3>1. n >= (t + Limit - 1) \div Limit /\ r < t /\ n \in Nat /\ r \in Nat /\ t \in Nat
      BY <1>1, <1>3, <1>8, <1>11 DEF PageCount
    <3> HIDE DEF n, r, t
    <3>2. PICK i \in 1 .. n : (i - 1) * Limit <= r /\ r < (i - 1) * Limit + Limit
      BY <1>5, <3>1, PagesCover
    <3>3. i \in Nat \ {0} /\ i \in DOMAIN walk.pages
      BY <1>3, <3>1, <3>2 DEF n
    <3>4. k \in PageOf(i, o)
      BY <1>6, <3>2, <3>3 DEF r
    <3>5. k \in SeenOn(i)
      BY <1>1, <1>4, <3>3, <3>4 DEF SeenOn
    <3> QED BY <3>3, <3>5 DEF Seen
  <2> QED BY <2>1, <2>2
<1> QED BY <1>1, <1>4, <1>9, <1>10, <1>11 DEF WalksWhole, o

\* While a walk goes by cursors, its invariant says what the property does.
LEMMA CursorsTell ==
  ASSUME PagesInv, walk.by \notin {"number", "query"}
  PROVE  WalksWhole
<1>1. walk.by \in {"collection", "table", "files"} /\ walk.ordering \in Orderings /\ ListedOK
  BY DEF PagesInv, PagesTypeOK
<1>2. Seen \subseteq Still
  BY DEF Seen, SeenOn
<1>3. ASSUME walk.cursor # NoCursor, NEW k \in Still PROVE k \in Seen \/ After(k, walk.ordering)
  <2>1. k \in Rows /\ listed[k].shown
    BY <1>1, PagesAssumption DEF Still, Matching, Orderings
  <2>2. walk.cursor.value \in Values \cup {Null} /\ walk.cursor.id \in Rows
    BY <1>3 DEF PagesInv, PagesTypeOK
  <2>3. walk.by # "collection" => walk.cursor.value # Null /\ listed[k].value # Null
    BY <1>1, <1>3, <2>1 DEF PagesInv, CursorOK
  <2>4. walk.by = "files" => walk.ordering.field = "value"
    BY DEF PagesInv, CursorOK
  <2>5. After(k, walk.ordering) <=> CursorBefore(walk.cursor, k, walk.ordering)
    BY <1>1, <1>3, <2>1, <2>2, <2>3, <2>4, AfterCursor
  <2> QED BY <1>3, <2>5 DEF PagesInv, GivenSoFar
<1> QED BY <1>2, <1>3 DEF PagesInv, GivenSoFar, WalksWhole

\* The steps of a walk by number.
LEMMA NumberKeepsInv ==
  ASSUME PagesInv, ReadsItems \/ ReadsTotal \/ (walk.by \in {"number", "query"} /\ TakesPage)
  PROVE  PagesInv'
<1>1. walk.by \in {"number", "query"}
  BY DEF ReadsItems, ReadsTotal
<1>2. UNCHANGED <<listed, moved>>
  BY DEF ReadsItems, ReadsTotal, TakesPage
<1>3. ListedOK /\ walk.ordering \in Orderings /\ walk.page \in Nat \ {0} /\ walk.pages \in Seq(SUBSET Rows)
  BY DEF PagesInv, PagesTypeOK
<1>5. PICK p, M : p \in Orderings /\ p = walk.ordering /\ M = Matching(p)
  BY <1>3
<1>6. PICK of \in [Nat \ {0} -> SUBSET Rows] : \A i \in Nat \ {0} : of[i] = PageOf(i, p)
  <2>1. ASSUME NEW i \in Nat \ {0} PROVE PageOf(i, p) \in SUBSET Rows
    <3>1. PageOf(i, p) \in SUBSET Matching(p) /\ Matching(p) \in SUBSET Rows
      BY <1>3, <1>5, PageOfRanks
    <3> QED BY <3>1
  <2>2. [i \in Nat \ {0} |-> PageOf(i, p)] \in [Nat \ {0} -> SUBSET Rows]
    BY <2>1
  <2> QED BY <2>2
<1>7. Len(walk.pages) \in Nat /\ DOMAIN walk.pages = 1 .. Len(walk.pages)
  BY <1>3
<1>8. Cardinality(M) \in Nat /\ M \in SUBSET Rows
  <2>1. 1 \in Nat \ {0}
    OBVIOUS
  <2>2. M \in SUBSET Rows
    BY <1>3, <1>5, <2>1, PageOfRanks
  <2> QED BY <1>3, <2>2, RanksOfSome
<1>9. /\ walk.cursor = NoCursor /\ walk.page = Len(walk.pages) + 1
      /\ moved = {} =>
           /\ \A i \in DOMAIN walk.pages : walk.pages[i] = of[i]
           /\ walk.items # NotRead => walk.items = of[walk.page]
           /\ walk.total # NotRead => walk.total = Cardinality(M)
           /\ walk.ended => Len(walk.pages) >= PageCount(Cardinality(M))
  BY <1>1, <1>3, <1>5, <1>6, <1>7 DEF PagesInv, NumbersSoFar
<1>10. ASSUME walk'.by = walk.by, walk'.ordering = p, walk'.cursor = NoCursor, PagesTypeOK',
              walk'.page = Len(walk'.pages) + 1,
              moved = {} =>
                /\ \A i \in DOMAIN walk'.pages : walk'.pages[i] = of[i]
                /\ walk'.items # NotRead => walk'.items = of[walk'.page]
                /\ walk'.total # NotRead => walk'.total = Cardinality(M)
                /\ walk'.ended => Len(walk'.pages) >= PageCount(Cardinality(M))
       PROVE  PagesInv'
  <2>1. GivenSoFar'
    BY <1>1, <1>10 DEF GivenSoFar
  <2>2. CursorOK'
    BY <1>1, <1>10 DEF CursorOK
  <2>3. Matching(walk.ordering)' = M
    BY <1>2, <1>5, <1>10 DEF Matching
  <2>4. \A i \in Nat \ {0} : PageOf(i, walk.ordering)' = of[i]
    <3>1. ASSUME NEW i PROVE PageOf(i, walk.ordering)' = PageOf(i, p)
      BY <1>2, <1>10 DEF PageOf, TheFirst, Ahead, Place, Matching
    <3> QED BY <1>6, <3>1
  <2>5. /\ walk'.page \in Nat \ {0} /\ walk'.pages \in Seq(SUBSET Rows)
    BY <1>10 DEF PagesTypeOK
  <2>6. PICK n \in Nat \ {0} : n = walk'.page
    BY <2>5
  <2>7. PageOf(walk.page, walk.ordering)' = of[walk'.page]
    <3>1. PageOf(walk.page, walk.ordering)' = PageOf(n, p)
      BY <1>2, <1>10, <2>6 DEF PageOf, TheFirst, Ahead, Place, Matching
    <3> QED BY <1>6, <2>6, <3>1
  <2>8. \A i \in DOMAIN walk'.pages : i \in Nat \ {0}
    BY <2>5
  <2>9. NumbersSoFar'
    BY <1>2, <1>10, <2>3, <2>4, <2>7, <2>8 DEF NumbersSoFar, PageCount
  <2> QED BY <1>10, <2>1, <2>2, <2>9 DEF PagesInv
<1>11. CASE ReadsItems
  <2>1. walk' = [walk EXCEPT !.items = of[walk.page]]
    BY <1>3, <1>5, <1>6, <1>11 DEF ReadsItems, PageOf
  <2>2. /\ walk'.by = walk.by /\ walk'.ordering = p /\ walk'.cursor = walk.cursor /\ walk'.items = of[walk.page]
        /\ walk'.pages = walk.pages /\ walk'.page = walk.page /\ walk'.total = walk.total /\ walk'.ended = walk.ended
    BY <1>5, <2>1 DEF PagesInv, PagesTypeOK
  <2>3. PagesTypeOK'
    <3>1. of[walk.page] \in SUBSET Rows
      BY <1>3, <1>6
    <3> QED BY <1>2, <2>1, <3>1 DEF PagesInv, PagesTypeOK, ListedOK
  <2> QED BY <1>9, <1>10, <2>2, <2>3
<1>12. CASE ReadsTotal
  <2>1. walk' = [walk EXCEPT !.total = Cardinality(M)]
    BY <1>5, <1>12 DEF ReadsTotal
  <2>2. /\ walk'.by = walk.by /\ walk'.ordering = p /\ walk'.cursor = walk.cursor /\ walk'.items = walk.items
        /\ walk'.pages = walk.pages /\ walk'.page = walk.page /\ walk'.total = Cardinality(M) /\ walk'.ended = walk.ended
    BY <1>5, <2>1 DEF PagesInv, PagesTypeOK
  <2>3. PagesTypeOK'
    BY <1>2, <1>8, <2>1 DEF PagesInv, PagesTypeOK, ListedOK
  <2> QED BY <1>9, <1>10, <2>2, <2>3
<1>13. CASE TakesPage
  <2> DEFINE ends == walk.page >= PageCount(walk.total)
  <2>1. ends \in BOOLEAN
    OBVIOUS
  <2>2. /\ walk' = [walk EXCEPT !.pages = Append(@, walk.items), !.page = @ + 1, !.ended = ends,
                                 !.items = NotRead, !.total = NotRead]
        /\ walk.items # NotRead /\ walk.total # NotRead
    BY <1>13 DEF TakesPage
  <2> HIDE DEF ends
  <2>3. /\ walk'.by = walk.by /\ walk'.ordering = p /\ walk'.cursor = walk.cursor /\ walk'.items = NotRead
        /\ walk'.pages = Append(walk.pages, walk.items) /\ walk'.page = walk.page + 1
        /\ walk'.total = NotRead /\ walk'.ended = ends
    BY <1>5, <2>2 DEF PagesInv, PagesTypeOK
  <2>4. walk.items \in SUBSET Rows
    BY <2>2 DEF PagesInv, PagesTypeOK
  <2> DEFINE pages == walk.pages
             items == walk.items
  <2>5. pages \in Seq(SUBSET Rows) /\ items \in SUBSET Rows
    BY <1>3, <2>4
  <2> HIDE DEF pages, items
  <2>6. /\ DOMAIN Append(pages, items) = DOMAIN pages \cup {Len(pages) + 1}
        /\ \A i \in DOMAIN pages : Append(pages, items)[i] = pages[i]
        /\ Append(pages, items)[Len(pages) + 1] = items
        /\ Append(pages, items) \in Seq(SUBSET Rows) /\ Len(Append(pages, items)) = Len(pages) + 1
    BY <2>5
  <2>7. walk.page + 1 \in Nat \ {0}
    BY <1>3
  <2>8. PagesTypeOK'
    BY <1>2, <2>1, <2>2, <2>6, <2>7 DEF PagesInv, PagesTypeOK, ListedOK, pages, items
  <2>9. ASSUME moved = {}
        PROVE  /\ \A i \in DOMAIN walk'.pages : walk'.pages[i] = of[i]
               /\ walk'.ended => Len(walk'.pages) >= PageCount(Cardinality(M))
    <3>1. \A i \in DOMAIN walk'.pages : walk'.pages[i] = of[i]
      BY <1>9, <2>2, <2>3, <2>6, <2>9 DEF pages, items
    <3>2. walk.total = Cardinality(M) /\ walk.page = Len(walk'.pages)
      BY <1>9, <2>2, <2>3, <2>6, <2>9 DEF pages, items
    <3> QED BY <2>3, <3>1, <3>2 DEF ends
  <2>10. walk'.page = Len(walk'.pages) + 1
    BY <1>9, <2>3, <2>6 DEF pages, items
  <2> QED BY <1>9, <1>10, <2>3, <2>8, <2>9, <2>10
<1> QED BY <1>11, <1>12, <1>13

\* Only a walk by number has items to take.
LEMMA TakesNumbers == PagesInv /\ TakesPage => walk.by \in {"number", "query"}
BY DEF PagesInv, CursorOK, TakesPage

\* A step that leaves the walk and the list alone.
LEMMA PagesKept == PagesInv /\ UNCHANGED <<listed, walk, moved>> => PagesInv'
<1> SUFFICES ASSUME PagesInv, UNCHANGED <<listed, walk, moved>> PROVE PagesInv'
  OBVIOUS
<1>1. PagesTypeOK'
  BY DEF PagesInv, PagesTypeOK, ListedOK
<1>2. CursorOK'
  BY DEF PagesInv, CursorOK, CursorKey
<1>3. GivenSoFar'
  BY DEF PagesInv, GivenSoFar, Ahead, Place, Matching, Still, Seen, SeenOn, CursorBefore, SortsBy
<1>4. NumbersSoFar'
  <2>1. PICK p, n : p = walk.ordering /\ n = walk.page
    OBVIOUS
  <2>2. \A i : PageOf(i, walk.ordering)' = PageOf(i, walk.ordering)
    <3> SUFFICES ASSUME NEW i PROVE PageOf(i, walk.ordering)' = PageOf(i, p)
      BY <2>1
    <3> QED BY <2>1 DEF PageOf, TheFirst, Ahead, Place, Matching
  <2>3. PageOf(walk.page, walk.ordering)' = PageOf(walk.page, walk.ordering)
    <3>1. PageOf(walk.page, walk.ordering)' = PageOf(n, p)
      BY <2>1 DEF PageOf, TheFirst, Ahead, Place, Matching
    <3> QED BY <2>1, <3>1
  <2>4. Matching(walk.ordering)' = Matching(walk.ordering)
    BY DEF Matching
  <2> QED BY <2>2, <2>3, <2>4 DEF PagesInv, NumbersSoFar
<1> QED BY <1>1, <1>2, <1>3, <1>4 DEF PagesInv

\* Every step keeps the invariant of walks.
LEMMA PagesStepInv == PagesInv /\ [PagesNext]_pageVars => PagesInv'
<1> SUFFICES ASSUME PagesInv, [PagesNext]_pageVars PROVE PagesInv'
  OBVIOUS
<1>1. CASE CollectionPage
  BY <1>1, ReadsAfterKeepsInv DEF CollectionPage
<1>2. CASE TablePage
  BY <1>2, ReadsAfterKeepsInv DEF TablePage
<1>3. CASE FilesPage
  BY <1>3, ReadsAfterKeepsInv DEF FilesPage
<1>4. CASE ReadsItems \/ ReadsTotal
  BY <1>4, NumberKeepsInv
<1>5. CASE TakesPage
  BY <1>5, TakesNumbers, NumberKeepsInv
<1>6. CASE Moves
  BY <1>6, MovesKeepsInv
<1>7. CASE UNCHANGED pageVars
  <2>1. UNCHANGED <<listed, walk, moved>>
    BY <1>7 DEF pageVars
  <2> QED BY <2>1, PagesKept
<1> QED BY <1>1, <1>2, <1>3, <1>4, <1>5, <1>6, <1>7 DEF PagesNext

\* A walk by cursors gives each document that stands still once, in order, and
\* nothing of another list, whatever is written beside it; one by number does
\* while nothing is (collection/cursor.ts, drizzle keyset.ts, gridfs list.ts).
THEOREM WalksWholeHolds == PagesSpec => []WalksWhole
<1>1. PagesInv => WalksWhole
  <2> SUFFICES ASSUME PagesInv PROVE WalksWhole
    OBVIOUS
  <2>1. CASE walk.by \notin {"number", "query"}
    BY <2>1, CursorsTell
  <2>2. CASE walk.by \in {"number", "query"} /\ moved = {}
    BY <2>2, NumbersTell
  <2>3. CASE walk.by \in {"number", "query"} /\ moved # {}
    BY <2>3 DEF WalksWhole
  <2> QED BY <2>1, <2>2, <2>3
<1> QED BY <1>1, PagesInitInv, PagesStepInv, PTL DEF PagesSpec
=============================================================================
