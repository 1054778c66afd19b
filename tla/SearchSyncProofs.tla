-------------------------- MODULE SearchSyncProofs --------------------------
(***************************************************************************)
(* Where no stream breaks during a flush and no live process stalls past   *)
(* its lease, one process at a time writes, and the recorded point never   *)
(* runs ahead of the index: for any number of processes, documents,        *)
(* changes, failures and crashes, and any sizes of lease and batch.        *)
(***************************************************************************)
EXTENDS SearchSync, WellFoundedInduction, TLAPS

(***************************************************************************)
(* The versions of a document.                                             *)
(***************************************************************************)

\* The versions a document has had since each point.
Since == [d \in Docs |-> [r \in Nat |-> {VersionAt(d, n) : n \in r .. Now}]]

LogTyped == log \in Seq(Writes \cup {Other, Drop})

\* A set of numbers has a least one, and a greatest if it is bounded.
LEMMA LeastIs ==
  ASSUME NEW S \in SUBSET Nat, S # {}
  PROVE  Min(S) \in S /\ \A i \in S : Min(S) <= i
<1> DEFINE R == {ss \in Nat \X Nat : ss[1] < ss[2]}
<1>1. IsWellFoundedOn(R, Nat)
  BY NatLessThanWellFounded DEF OpToRel
<1> HIDE DEF R
<1>2. PICK x \in S : \A y \in S : ~(<<y, x>> \in R)
  BY <1>1, WFMin
<1>3. \A y \in S : x <= y
  <2>1. ASSUME NEW y \in S, y < x PROVE <<y, x>> \in R
    <3>1. <<y, x>> \in Nat \X Nat /\ <<y, x>>[1] = y /\ <<y, x>>[2] = x
      OBVIOUS
    <3> QED BY <2>1, <3>1 DEF R
  <2>2. x \in Nat /\ \A y \in S : y \in Nat
    OBVIOUS
  <2>3. \A y \in S : ~(y < x)
    BY <1>2, <2>1
  <2> QED BY <2>2, <2>3
<1> QED BY <1>3 DEF Min

\* See above.
LEMMA GreatestIs ==
  ASSUME NEW n \in Nat, NEW S \in SUBSET (0 .. n), S # {}
  PROVE  Max(S) \in S /\ \A i \in S : i <= Max(S)
<1> DEFINE T == {n - i : i \in S}
<1>1. T \in SUBSET Nat /\ T # {}
  <2>1. \A i \in S : n - i \in Nat
    OBVIOUS
  <2> QED BY <2>1
<1>2. PICK x \in T : \A y \in T : x <= y
  BY <1>1, LeastIs
<1>3. PICK m \in S : x = n - m
  OBVIOUS
<1>4. \A i \in S : m >= i
  <2>1. \A i \in S : n - m <= n - i
    BY <1>2, <1>3
  <2> QED BY <2>1
<1>5. Max(S) \in S /\ \A i \in S : Max(S) >= i
  BY <1>4 DEF Max
<1> QED BY <1>5

\* The changes among the first n that touch a document.
Touching(d, n) == {i \in 1 .. n : log[i] = Drop \/ log[i].doc = d}

\* A version is the position of its change, or Nothing.
LEMMA VersionIs ==
  ASSUME NEW d, NEW n \in Nat
  PROVE  /\ VersionAt(d, n) \in Nat
         /\ Touching(d, n) # {} => Max(Touching(d, n)) \in 1 .. n
<1>1. Touching(d, n) # {} => Max(Touching(d, n)) \in Touching(d, n)
  <2>1. Touching(d, n) \in SUBSET (0 .. n)
    BY DEF Touching
  <2> QED BY <2>1, GreatestIs
<1>2. Touching(d, n) # {} => Max(Touching(d, n)) \in 1 .. n
  BY <1>1 DEF Touching
<1>3. VersionAt(d, n) = IF Touching(d, n) # {} /\ log[Max(Touching(d, n))].kind = "shown"
                        THEN Max(Touching(d, n)) ELSE Nothing
  BY DEF VersionAt, Touching
<1> QED BY <1>2, <1>3 DEF Nothing

\* What is appended leaves the versions so far.
LEMMA VersionKept ==
  ASSUME LogTyped, NEW e, log' = Append(log, e), NEW d, NEW n \in 0 .. Now
  PROVE  VersionAt(d, n)' = VersionAt(d, n)
<1>1. n \in Nat /\ \A i \in 1 .. n : log'[i] = log[i]
  BY DEF LogTyped, Now
<1>2. Touching(d, n)' = Touching(d, n)
  <2>1. \A i : i \in Touching(d, n)' <=> i \in 1 .. n /\ (log'[i] = Drop \/ log'[i].doc = d)
    BY DEF Touching, Drop
  <2>2. \A i : i \in Touching(d, n) <=> i \in 1 .. n /\ (log[i] = Drop \/ log[i].doc = d)
    BY DEF Touching
  <2> QED BY <1>1, <2>1, <2>2
<1>3. Touching(d, n) # {} => log'[Max(Touching(d, n))] = log[Max(Touching(d, n))]
  BY <1>1, VersionIs
<1>4. VersionAt(d, n) = IF Touching(d, n) # {} /\ log[Max(Touching(d, n))].kind = "shown"
                        THEN Max(Touching(d, n)) ELSE Nothing
  BY DEF VersionAt, Touching
<1>5. VersionAt(d, n)' = IF Touching(d, n)' # {} /\ log'[Max(Touching(d, n)')].kind = "shown"
                        THEN Max(Touching(d, n)') ELSE Nothing
  BY DEF VersionAt, Touching
<1> QED BY <1>2, <1>3, <1>4, <1>5

\* A document that no change touches keeps its version.
LEMMA VersionSame ==
  ASSUME NEW d, NEW m \in Nat, NEW n \in Nat, m <= n,
         \A i \in m + 1 .. n : log[i] # Drop /\ log[i].doc # d
  PROVE  VersionAt(d, n) = VersionAt(d, m)
<1>1. Touching(d, n) = Touching(d, m)
  BY DEF Touching
<1> QED BY <1>1 DEF VersionAt, Touching

\* What Since tells: less of a later point, the latest version of any, more as
\* the log grows, and the same from any point of a stretch that leaves the
\* document alone.
LEMMA SinceIs ==
  ASSUME LogTyped, NEW d \in Docs, NEW r \in Nat
  PROVE  /\ Now \in Nat
         /\ \A v : v \in Since[d][r] <=> \E n \in r .. Now : v = VersionAt(d, n)
<1>1. Now \in Nat
  BY DEF LogTyped, Now
<1> QED BY <1>1 DEF Since

\* See above.
LEMMA SinceLess ==
  ASSUME LogTyped, NEW d \in Docs, NEW r \in Nat, NEW s \in Nat, r <= s
  PROVE  Since[d][s] \subseteq Since[d][r]
<1>1. s .. Now \subseteq r .. Now
  BY SinceIs
<1> QED BY <1>1, SinceIs

\* See above.
LEMMA SinceNow ==
  ASSUME LogTyped, NEW d \in Docs, NEW r \in 0 .. Now, NEW n \in r .. Now
  PROVE  VersionAt(d, n) \in Since[d][r] /\ VersionAt(d, n) \in Nat
<1>1. Now \in Nat /\ r \in Nat /\ n \in Nat
  BY DEF LogTyped, Now
<1> QED BY <1>1, SinceIs, VersionIs

\* See above.
LEMMA SinceGrows ==
  ASSUME LogTyped, NEW e \in Writes \cup {Other, Drop}, log' = Append(log, e)
  PROVE  /\ LogTyped' /\ Now' = Now + 1
         /\ \A d \in Docs, r \in Nat : Since[d][r] \subseteq Since'[d][r]
         /\ \A d \in Docs, r \in Nat, s \in 0 .. Now :
              Since[d][r] \subseteq Since[d][s] => Since'[d][r] \subseteq Since'[d][s]
<1>1. LogTyped' /\ Now' = Now + 1 /\ Now \in Nat
  BY DEF LogTyped, Now
<1>2. ASSUME NEW d \in Docs, NEW r \in Nat
      PROVE  \A v : v \in Since'[d][r] <=> v \in Since[d][r] \/ (r <= Now + 1 /\ v = VersionAt(d, Now)')
  <2>1. \A v : v \in Since'[d][r] <=> \E n \in r .. Now' : v = VersionAt(d, n)'
    BY <1>1 DEF Since
  <2>2. \A n \in r .. Now : VersionAt(d, n)' = VersionAt(d, n)
    BY <1>1, VersionKept
  <2>3. r .. Now' = (r .. Now) \cup (IF r <= Now + 1 THEN {Now + 1} ELSE {})
    BY <1>1
  <2>4. \A v : v \in Since[d][r] <=> \E n \in r .. Now : v = VersionAt(d, n)
    BY SinceIs
  <2>5. CASE r <= Now + 1
    <3>1. \A n : n \in r .. Now' <=> n \in r .. Now \/ n = Now'
      BY <1>1, <2>3, <2>5
    <3> QED BY <2>1, <2>2, <2>4, <2>5, <3>1
  <2>6. CASE ~(r <= Now + 1)
    <3>1. (\A n : n \notin r .. Now') /\ (\A n : n \notin r .. Now)
      BY <1>1, <2>6
    <3> QED BY <2>1, <2>2, <2>4, <2>6, <3>1
  <2> QED BY <2>5, <2>6
<1>3. \A d \in Docs, r \in Nat : Since[d][r] \subseteq Since'[d][r]
  BY <1>2
<1>4. ASSUME NEW d \in Docs, NEW r \in Nat, NEW s \in 0 .. Now, Since[d][r] \subseteq Since[d][s]
      PROVE  Since'[d][r] \subseteq Since'[d][s]
  <2>1. s \in Nat /\ s <= Now + 1
    BY <1>1
  <2> QED BY <1>2, <1>4, <2>1
<1> QED BY <1>1, <1>3, <1>4

\* See above.
LEMMA SinceSkips ==
  ASSUME LogTyped, NEW d \in Docs, NEW r \in Nat, NEW s \in 0 .. Now, r <= s,
         \A i \in r + 1 .. s : log[i] # Drop /\ log[i].doc # d
  PROVE  Since[d][r] \subseteq Since[d][s]
<1> SUFFICES ASSUME NEW n \in r .. Now PROVE VersionAt(d, n) \in Since[d][s]
  BY SinceIs
<1>1. Now \in Nat /\ s \in Nat /\ n \in Nat
  BY SinceIs
<1>2. CASE s <= n
  BY <1>1, <1>2, SinceNow
<1>3. CASE n < s
  <2>1. \A i \in n + 1 .. s : log[i] # Drop /\ log[i].doc # d
    OBVIOUS
  <2>2. VersionAt(d, s) = VersionAt(d, n)
    BY <1>1, <1>3, <2>1, VersionSame
  <2> QED BY <1>1, <2>2, SinceNow
<1> QED BY <1>1, <1>2, <1>3


-----------------------------------------------------------------------------

(***************************************************************************)
(* The inductive invariant.                                                *)
(***************************************************************************)

MaybePoint == Nat \cup {None}
Maybes == [Docs -> MaybePoint]

SyncType ==
  [pc : Stages, goal : {"none", "start", "reindex"}, again : BOOLEAN, lost : BOOLEAN,
   from : Nat, page : Docs, wanted : SUBSET Docs, read : Nat]
ChangeType == [doc : Docs, version : Nat, at : Nat]
FollowType ==
  [at : Nat, position : MaybePoint, pending : Maybes, last : MaybePoint, saved : MaybePoint,
   doing : {"nothing", "transform", "wait"}, change : ChangeType,
   failure : BOOLEAN, stop : {"no", "close", "invalidated"}]
FlushType ==
  [stage : {"none", "add", "delete", "save"}, batch : Maybes, upTo : MaybePoint, wakes : BOOLEAN]

Types ==
  /\ LogTyped /\ index \in [Docs -> Nat] /\ recorded \in MaybePoint
  /\ lease \in [holder : Processes \cup {None}, left : Nat]
  /\ sync \in [Processes -> SyncType] /\ follow \in [Processes -> FollowType]
  /\ flush \in [Processes -> FlushType]
  /\ \A p \in Processes : flush[p].stage = "none" => flush[p] = NoFlush
  /\ stalled \in BOOLEAN

\* A lease that is held runs; who calls or follows holds it, and a flush is of
\* one that follows and has not failed.
LeaseInv ==
  /\ lease.holder # None => lease.left > 0
  /\ \A p \in Processes :
       /\ ~Is(p, "off") => Holds(p)
       /\ ~sync[p].lost
       /\ flush[p] # NoFlush => Following(p) /\ ~follow[p].failure

\* The index holds of each document a version of the recorded point or later.
RecordInv == recorded # None => recorded <= Now /\ \A d \in Docs : index[d] \in Since[d][recorded]

\* What a reindex has of a document it has read: a version since its point, in
\* the index, or none.
ReadOK(p, d) ==
  (IF d \in sync[p].wanted THEN index[d] ELSE Nothing) \in Since[d][sync[p].from]

\* A start or reindex: what is recorded is no later than its point; each page
\* gave a version since then, and the end has them all in the index.
CallInv(p) ==
  /\ sync[p].pc \in {"page", "send", "confirm", "remove", "confirmPoint", "record"} =>
       sync[p].from <= Now /\ (recorded # None => recorded <= sync[p].from)
  /\ sync[p].pc \in {"page", "send"} => \A d \in Docs : d < sync[p].page => ReadOK(p, d)
  /\ sync[p].pc = "page" => \A d \in sync[p].wanted : d < sync[p].page
  /\ sync[p].pc = "send" => /\ sync[p].page \in sync[p].wanted
                            /\ \A d \in sync[p].wanted : d <= sync[p].page
                            /\ sync[p].read \in Since[sync[p].page][sync[p].from]
  /\ sync[p].pc \in {"confirm", "remove"} => \A d \in Docs : ReadOK(p, d)
  /\ sync[p].pc \in {"confirmPoint", "record"} => \A d \in Docs : index[d] \in Since[d][sync[p].from]
  /\ sync[p].pc \in {"confirmOpen", "open"} => recorded # None /\ sync[p].from = recorded

\* What a flush has yet to send, and what the index holds of a document once
\* it has; then once the pending changes are sent too; and the point those reach.
Unsent(w, d) == w.batch[d] # None /\ (w.stage = "add" \/ (w.stage = "delete" /\ w.batch[d] = Nothing))
Sent(p, d) == IF Unsent(flush[p], d) THEN flush[p].batch[d] ELSE index[d]
Comes(p, d) == IF follow[p].pending[d] # None THEN follow[p].pending[d] ELSE Sent(p, d)
Reach(f) == IF f.doing = "wait" THEN f.change.at ELSE f.at

\* A follower: once what it holds is sent the index is at its point, which is
\* no earlier than what a flush may record; and the change in hand is the next.
StreamInv(p) ==
  LET f == follow[p] IN
  /\ f.at <= Reach(f) /\ Reach(f) <= Now /\ (recorded # None => recorded <= Reach(f))
  /\ \A d \in Docs : Comes(p, d) \in Since[d][Reach(f)]
  /\ f.last # None => f.last <= Reach(f)
  /\ f.position # None => f.position <= f.at
  /\ Waiting(f.pending) # {} => f.last # None
  /\ f.doing = "transform" =>
       /\ f.at < f.change.at /\ f.change.at <= Now
       /\ f.change.version \in Since[f.change.doc][f.change.at]
       /\ \A d \in Docs \ {f.change.doc} : Since[d][f.at] \subseteq Since[d][f.change.at]

\* A flush: once sent, the index is at its point, and meanwhile never before
\* the recorded one.
FlushInv(p) ==
  /\ flush[p].upTo # None /\ flush[p].upTo <= Reach(follow[p])
  /\ flush[p].wakes => follow[p].doing = "wait"
  /\ \A d \in Docs : /\ Sent(p, d) \in Since[d][flush[p].upTo]
                     /\ recorded # None => Sent(p, d) \in Since[d][recorded]

FollowInv(p) ==
  /\ Following(p) /\ ~follow[p].failure => StreamInv(p)
  /\ flush[p] # NoFlush => FlushInv(p)

Calm == LeaseInv /\ RecordInv /\ \A p \in Processes : CallInv(p) /\ FollowInv(p)

SyncInv == Types /\ (stalled \/ Calm)

\* A process that does nothing.
Idle(p) == Is(p, "off") /\ flush[p] = NoFlush

\* It owes nothing.
LEMMA IdleOwes ==
  ASSUME NEW p \in Processes, Idle(p)
  PROVE  CallInv(p) /\ FollowInv(p)
BY DEF Idle, CallInv, FollowInv, Following, Is

\* One process at a time calls, follows or flushes.
LEMMA OthersIdle ==
  ASSUME Types, LeaseInv, NEW p \in Processes, ~Is(p, "off") \/ lease.holder = None,
         NEW q \in Processes \ {p}
  PROVE  Idle(q)
<1>1. None \notin Processes
  BY SearchSyncAssumption
<1>2. ~Holds(q)
  BY <1>1 DEF LeaseInv, Holds
<1> QED BY <1>2 DEF LeaseInv, Idle, Following, Is

\* A step of one process keeps the invariant if it keeps that process's part.
LEMMA StepKeeps ==
  ASSUME Types, Calm, NEW p \in Processes, ~Is(p, "off") \/ lease.holder = None,
         \A q \in Processes \ {p} : sync'[q] = sync[q] /\ flush'[q] = flush[q],
         lease'.holder # None => lease'.left > 0,
         sync'[p].pc = "off" \/ lease'.holder = p, ~sync'[p].lost,
         flush'[p] # NoFlush => sync'[p].pc = "follow" /\ ~follow'[p].failure,
         RecordInv', CallInv(p)', FollowInv(p)'
  PROVE  Calm'
<1>1. \A q \in Processes \ {p} : Idle(q) /\ ~sync[q].lost
  BY OthersIdle DEF Calm, LeaseInv
<1>2. \A q \in Processes \ {p} : Idle(q)' /\ ~sync'[q].lost
  BY <1>1 DEF Idle, Is
<1>3. \A q \in Processes \ {p} : CallInv(q)' /\ FollowInv(q)'
  BY <1>2 DEF Idle, CallInv, FollowInv, Following, Is
<1>4. LeaseInv'
  BY <1>2 DEF LeaseInv, Idle, Is, Holds, Following
<1> QED BY <1>3, <1>4 DEF Calm

-----------------------------------------------------------------------------

(***************************************************************************)
(* The steps of a call, and of the lease.                                  *)
(***************************************************************************)

LeaseTyped == lease \in [holder : Processes \cup {None}, left : Nat]

\* While nothing is written in the database, the versions are as they were.
LEMMA SinceKept == log' = log => Since' = Since /\ Now' = Now /\ (LogTyped => LogTyped')
BY DEF Since, VersionAt, Now, LogTyped

\* What a step of a call writes of it.
LEMMA GotoIs ==
  ASSUME Types, NEW p \in Processes, NEW pc \in Stages, Goto(p, pc)
  PROVE  /\ sync' \in [Processes -> SyncType]
         /\ \A q \in Processes \ {p} : sync'[q] = sync[q]
         /\ sync'[p].pc = pc /\ sync'[p].lost = sync[p].lost /\ sync'[p].from = sync[p].from
         /\ sync'[p].page = sync[p].page /\ sync'[p].wanted = sync[p].wanted
         /\ sync'[p].read = sync[p].read
<1> DEFINE s == [sync[p] EXCEPT !.pc = pc]
<1>1. sync' = [sync EXCEPT ![p] = s]
  BY DEF Goto, Types
<1>2. /\ s \in SyncType /\ s.pc = pc /\ s.lost = sync[p].lost /\ s.from = sync[p].from
      /\ s.page = sync[p].page /\ s.wanted = sync[p].wanted /\ s.read = sync[p].read
  BY DEF Types, SyncType
<1> HIDE DEF s
<1> QED BY <1>1, <1>2 DEF Types

\* See above.
LEMMA SetIs ==
  ASSUME Types, NEW p \in Processes, NEW s \in SyncType, Set(p, s)
  PROVE  /\ sync' \in [Processes -> SyncType]
         /\ \A q \in Processes \ {p} : sync'[q] = sync[q]
         /\ sync'[p] = s
BY DEF Set, Types

\* A step of a call that is not a follower's.
LEMMA CallStep ==
  ASSUME Types, NEW p \in Processes,
         sync' \in [Processes -> SyncType], \A q \in Processes \ {p} : sync'[q] = sync[q],
         index' \in [Docs -> Nat], recorded' \in MaybePoint, LeaseTyped',
         UNCHANGED <<log, follow, flush, stalled>>,
         Calm => /\ ~Is(p, "off") \/ lease.holder = None
                 /\ ~Following(p) /\ sync'[p].pc # "follow" /\ ~sync'[p].lost
                 /\ lease'.holder # None => lease'.left > 0
                 /\ sync'[p].pc = "off" \/ lease'.holder = p
                 /\ RecordInv' /\ CallInv(p)'
  PROVE  Types' /\ (Calm => Calm')
<1>1. Types'
  BY SinceKept DEF Types, LeaseTyped
<1>2. ASSUME Calm PROVE Calm'
  <2>1. flush'[p] = NoFlush
    BY <1>2 DEF Calm, LeaseInv
  <2>2. FollowInv(p)'
    BY <1>2, <2>1 DEF FollowInv, Following, Is
  <2> QED BY <1>2, <2>1, <2>2, StepKeeps
<1> QED BY <1>1, <1>2

\* One that writes neither the index nor a point.
LEMMA ReadStep ==
  ASSUME Types, NEW p \in Processes,
         sync' \in [Processes -> SyncType], \A q \in Processes \ {p} : sync'[q] = sync[q],
         UNCHANGED <<log, index, recorded, lease, follow, flush, stalled>>,
         ~Is(p, "off"), ~Following(p),
         Calm => /\ sync'[p].pc # "follow" /\ ~sync'[p].lost /\ CallInv(p)'
  PROVE  Types' /\ (Calm => Calm')
<1>1. Calm => RecordInv'
  BY SinceKept DEF Calm, RecordInv
<1>2. Calm => lease.holder = p /\ lease.left > 0
  <2>1. p # None
    BY SearchSyncAssumption
  <2> QED BY <2>1 DEF Calm, LeaseInv, Holds
<1>3. index' \in [Docs -> Nat] /\ recorded' \in MaybePoint /\ LeaseTyped'
  BY DEF Types, LeaseTyped
<1> QED BY <1>1, <1>2, <1>3, CallStep

\* The point a start follows from, or that there is none.
LEMMA ReadStateKeeps ==
  ASSUME Types, NEW p \in Processes, ReadState(p) \/ ReadBack(p)
  PROVE  Types' /\ (Calm => Calm')
<1>1. /\ ~Is(p, "off") /\ ~Following(p)
      /\ UNCHANGED <<log, index, recorded, lease, follow, flush, stalled>>
  BY DEF ReadState, ReadBack, Is, Following, others, mongo
<1>2. CASE Goto(p, "token") \/ Goto(p, "letGo")
  <2>1. PICK pc \in {"token", "letGo"} : Goto(p, pc)
    BY <1>2
  <2>2. pc \in Stages
    BY DEF Stages
  <2>3. Calm => ~sync[p].lost
    BY DEF Calm, LeaseInv
  <2>4. CallInv(p)'
    BY <2>1, <2>2, GotoIs DEF CallInv
  <2> QED BY <1>1, <2>1, <2>2, <2>3, <2>4, GotoIs, ReadStep
<1>3. CASE recorded # None /\ Set(p, [sync[p] EXCEPT !.pc = "confirmOpen", !.from = recorded])
  <2> DEFINE s == [sync[p] EXCEPT !.pc = "confirmOpen", !.from = recorded]
  <2>1. recorded \in Nat
    BY <1>3 DEF Types, MaybePoint
  <2>2. s \in SyncType /\ s.pc = "confirmOpen" /\ s.from = recorded /\ s.lost = sync[p].lost
    BY <2>1 DEF Types, SyncType, Stages
  <2> HIDE DEF s
  <2>3. /\ sync' \in [Processes -> SyncType] /\ sync'[p] = s
        /\ \A q \in Processes \ {p} : sync'[q] = sync[q]
    BY <1>3, <2>2, SetIs DEF s
  <2>4. Calm => ~s.lost
    BY <2>2 DEF Calm, LeaseInv
  <2>5. CallInv(p)'
    BY <1>1, <1>3, <2>2, <2>3 DEF CallInv
  <2> QED BY <1>1, <2>2, <2>3, <2>4, <2>5, ReadStep
<1> QED BY <1>2, <1>3 DEF ReadState, ReadBack

\* The point of a reindex: no page is read yet.
LEMMA CurrentTokenKeeps ==
  ASSUME Types, NEW p \in Processes, CurrentToken(p)
  PROVE  Types' /\ (Calm => Calm')
<1>1. /\ ~Is(p, "off") /\ ~Following(p)
      /\ UNCHANGED <<log, index, recorded, lease, follow, flush, stalled>>
  BY DEF CurrentToken, Is, Following, others, mongo
<1> DEFINE s == [sync[p] EXCEPT !.pc = "page", !.from = Now, !.page = 1, !.wanted = {}]
<1>2. Now \in Nat /\ 1 \in Docs
  BY SearchSyncAssumption DEF Types, LogTyped, Now, Docs
<1>3. /\ s \in SyncType /\ s.pc = "page" /\ s.from = Now /\ s.page = 1 /\ s.wanted = {}
      /\ s.lost = sync[p].lost
  BY <1>2 DEF Types, SyncType, Stages
<1>4. Set(p, s)
  BY DEF CurrentToken
<1> HIDE DEF s
<1>5. /\ sync' \in [Processes -> SyncType] /\ sync'[p] = s
      /\ \A q \in Processes \ {p} : sync'[q] = sync[q]
  BY <1>3, <1>4, SetIs
<1>6. Calm => ~s.lost
  BY <1>3 DEF Calm, LeaseInv
<1>7. Calm => CallInv(p)'
  <2>1. \A d \in Docs : ~(d < 1)
    BY SearchSyncAssumption DEF Docs
  <2>2. Now' = Now
    BY <1>1, SinceKept
  <2> QED BY <1>1, <1>2, <1>3, <1>5, <2>1, <2>2 DEF CallInv, Calm, RecordInv
<1> QED BY <1>1, <1>3, <1>5, <1>6, <1>7, ReadStep

\* The step to the next page, or past the last.
LEMMA NextPageIs ==
  ASSUME NEW s \in SyncType
  PROVE  /\ NextPage(s) \in SyncType
         /\ NextPage(s).from = s.from /\ NextPage(s).wanted = s.wanted /\ NextPage(s).lost = s.lost
         /\ ~s.lost => \/ NextPage(s).pc = "confirm" /\ s.page = NumDocs
                       \/ NextPage(s).pc = "page" /\ NextPage(s).page = s.page + 1
         /\ NextPage(s).pc \in {"letGo", "confirm", "page"}
<1>1. NumDocs \in Nat \ {0}
  BY SearchSyncAssumption
<1>2. CASE s.lost
  <2>1. NextPage(s) = [s EXCEPT !.pc = "letGo"]
    BY <1>2 DEF NextPage
  <2>2. "letGo" \in Stages
    BY DEF Stages
  <2> QED BY <1>2, <2>1, <2>2 DEF SyncType
<1>3. CASE ~s.lost /\ s.page = NumDocs
  BY <1>3 DEF NextPage, SyncType, Stages, Nothing
<1>4. CASE ~s.lost /\ s.page # NumDocs
  <2>1. s.page + 1 \in Docs
    BY <1>1, <1>4 DEF SyncType, Docs
  <2>2. NextPage(s) = [s EXCEPT !.pc = "page", !.page = s.page + 1, !.read = Nothing]
    BY <1>4 DEF NextPage, SyncType
  <2>3. Nothing \in Nat
    BY DEF Nothing
  <2> QED BY <1>4, <2>1, <2>2, <2>3 DEF SyncType, Stages
<1> QED BY <1>2, <1>3, <1>4

\* What the next page is owed, when this one's document is read and in place.
LEMMA NextPageOwes ==
  ASSUME Types, NEW p \in Processes, NEW s \in SyncType, ~s.lost,
         sync'[p] = NextPage(s),
         s.from <= Now', recorded' # None => recorded' <= s.from,
         \A d \in s.wanted : d <= s.page,
         \A d \in Docs : d <= s.page =>
           (IF d \in s.wanted THEN index'[d] ELSE Nothing) \in Since'[d][s.from]
  PROVE  CallInv(p)'
<1>1. NumDocs \in Nat \ {0} /\ s.page \in Docs /\ s.wanted \subseteq Docs
  BY SearchSyncAssumption DEF SyncType
<1>2. \A d \in Docs : d <= NumDocs /\ d \in Nat
  BY <1>1 DEF Docs
<1>3. CASE NextPage(s).pc = "confirm" /\ s.page = NumDocs
  BY <1>2, <1>3, NextPageIs DEF CallInv, ReadOK
<1>4. CASE NextPage(s).pc = "page" /\ NextPage(s).page = s.page + 1
  <2>1. \A d \in Docs : d < s.page + 1 <=> d <= s.page
    BY <1>1, <1>2
  <2> QED BY <1>1, <1>4, <2>1, NextPageIs DEF CallInv, ReadOK
<1> QED BY <1>3, <1>4, NextPageIs

\* A page is read; a document it gives is sent next.
LEMMA ReadPageKeeps ==
  ASSUME Types, NEW p \in Processes, ReadPage(p)
  PROVE  Types' /\ (Calm => Calm')
<1> DEFINE s == sync[p]
           version == VersionAt(s.page, Now)
           t == [s EXCEPT !.pc = "send", !.read = version, !.wanted = @ \cup {s.page}]
<1>1. /\ ~Is(p, "off") /\ ~Following(p) /\ s.pc = "page"
      /\ UNCHANGED <<log, index, recorded, lease, follow, flush, stalled>>
  BY DEF ReadPage, Is, Following, others, mongo
<1>2. Set(p, IF version = Nothing THEN NextPage(s) ELSE t)
  BY DEF ReadPage
<1>3. s \in SyncType /\ s.page \in Docs /\ s.wanted \subseteq Docs /\ Now \in Nat /\ LogTyped
  BY DEF Types, SyncType, LogTyped, Now
<1>4. version \in Nat
  BY <1>3, VersionIs
<1>5. Calm => /\ ~s.lost /\ s.from <= Now /\ s.from \in Nat
              /\ recorded # None => recorded <= s.from
              /\ \A d \in s.wanted : d < s.page
              /\ \A d \in Docs : d < s.page =>
                   (IF d \in s.wanted THEN index[d] ELSE Nothing) \in Since[d][s.from]
              /\ version \in Since[s.page][s.from]
  <2>1. Calm => s.from <= Now /\ s.from \in Nat
    BY <1>1, <1>3 DEF Calm, CallInv, SyncType
  <2>2. Calm => version \in Since[s.page][s.from]
    BY <1>3, <2>1, SinceNow
  <2> HIDE DEF version
  <2> QED BY <1>1, <2>1, <2>2 DEF Calm, CallInv, LeaseInv, ReadOK
<1>6. \A d \in Docs : d \in Nat
  BY DEF Docs
<1>7. Now' = Now /\ Since' = Since
  BY <1>1, SinceKept
<1> HIDE DEF version
<1>8. CASE version = Nothing
  <2>1. /\ sync' \in [Processes -> SyncType] /\ sync'[p] = NextPage(s)
        /\ \A q \in Processes \ {p} : sync'[q] = sync[q]
    BY <1>2, <1>3, <1>8, NextPageIs, SetIs
  <2>2. ASSUME Calm PROVE CallInv(p)'
    <3>1. \A d \in s.wanted : d <= s.page
      BY <1>3, <1>5, <1>6, <2>2
    <3>2. \A d \in Docs : d <= s.page =>
            (IF d \in s.wanted THEN index[d] ELSE Nothing) \in Since[d][s.from]
      <4>1. s.page \notin s.wanted
        BY <1>3, <1>5, <1>6, <2>2
      <4>2. \A d \in Docs : d <= s.page => d < s.page \/ d = s.page
        BY <1>3, <1>6
      <4> QED BY <1>5, <1>8, <2>2, <4>1, <4>2
    <3> HIDE DEF s
    <3> QED BY <1>1, <1>3, <1>5, <1>7, <2>1, <2>2, <3>1, <3>2, NextPageOwes
  <2>3. Calm => sync'[p].pc # "follow" /\ ~sync'[p].lost
    BY <1>3, <1>5, <2>1, NextPageIs
  <2> HIDE DEF s
  <2> QED BY <1>1, <2>1, <2>2, <2>3, ReadStep
<1>9. CASE version # Nothing
  <2>1. /\ t \in SyncType /\ t.pc = "send" /\ t.read = version /\ t.lost = s.lost
        /\ t.wanted = s.wanted \cup {s.page} /\ t.from = s.from /\ t.page = s.page
    <3> DEFINE w == s.wanted \cup {s.page}
    <3>1. t = [s EXCEPT !.pc = "send", !.read = version, !.wanted = w]
      BY <1>3 DEF SyncType
    <3>2. w \subseteq Docs /\ "send" \in Stages
      BY <1>3 DEF Stages
    <3> HIDE DEF w, t
    <3> QED BY <1>3, <1>4, <3>1, <3>2 DEF SyncType, w
  <2> HIDE DEF t
  <2>2. /\ sync' \in [Processes -> SyncType] /\ sync'[p] = t
        /\ \A q \in Processes \ {p} : sync'[q] = sync[q]
    BY <1>2, <1>9, <2>1, SetIs
  <2>3. ASSUME Calm PROVE CallInv(p)'
    <3>1. \A d \in Docs : d < s.page => d \in t.wanted <=> d \in s.wanted
      BY <1>3, <1>6, <2>1
    <3>2. \A d \in t.wanted : d <= s.page
      BY <1>3, <1>5, <1>6, <2>1, <2>3
    <3>3. \A d \in Docs : d < s.page =>
            (IF d \in t.wanted THEN index'[d] ELSE Nothing) \in Since'[d][s.from]
      BY <1>1, <1>5, <1>7, <2>3, <3>1
    <3> HIDE DEF s
    <3> QED BY <1>1, <1>5, <1>7, <2>1, <2>2, <2>3, <3>2, <3>3 DEF CallInv, ReadOK
  <2>4. Calm => sync'[p].pc # "follow" /\ ~sync'[p].lost
    BY <1>5, <2>1, <2>2
  <2> HIDE DEF s
  <2> QED BY <1>1, <2>2, <2>3, <2>4, ReadStep
<1> QED BY <1>8, <1>9

\* What a call wrote to the index keeps what is recorded covered when each
\* document got a version since its own point.
LEMMA WritesCover ==
  ASSUME Types, Calm, NEW r \in Nat, recorded # None => recorded <= r,
         UNCHANGED <<log, recorded>>,
         \A d \in Docs : index'[d] = index[d] \/ index'[d] \in Since[d][r]
  PROVE  RecordInv'
<1>1. Since' = Since /\ Now' = Now /\ LogTyped
  BY SinceKept DEF Types
<1>2. ASSUME recorded # None, NEW d \in Docs PROVE index'[d] \in Since[d][recorded]
  <2>1. recorded \in Nat
    BY <1>2 DEF Types, MaybePoint
  <2>2. Since[d][r] \subseteq Since[d][recorded]
    BY <1>1, <1>2, <2>1, SinceLess
  <2> QED BY <1>2, <2>2 DEF Calm, RecordInv
<1> QED BY <1>1, <1>2 DEF Calm, RecordInv

\* A page's document is in the index.
LEMMA SendPageKeeps ==
  ASSUME Types, NEW p \in Processes, SendPage(p)
  PROVE  Types' /\ (Calm => Calm')
<1> DEFINE s == sync[p]
<1>1. /\ ~Is(p, "off") /\ ~Following(p) /\ s.pc = "send"
      /\ UNCHANGED <<log, recorded, lease, follow, flush, stalled>>
  BY DEF SendPage, Is, Following, others, mongo
<1>2. /\ index' = [index EXCEPT ![s.page] = s.read] /\ Set(p, NextPage(s))
  BY DEF SendPage
<1>3. s \in SyncType /\ s.page \in Docs /\ s.wanted \subseteq Docs /\ s.read \in Nat /\ s.from \in Nat
  BY DEF Types, SyncType
<1>4. /\ sync' \in [Processes -> SyncType] /\ sync'[p] = NextPage(s)
      /\ \A q \in Processes \ {p} : sync'[q] = sync[q]
  BY <1>2, <1>3, NextPageIs, SetIs
<1>5. /\ index' \in [Docs -> Nat] /\ index'[s.page] = s.read
      /\ \A d \in Docs \ {s.page} : index'[d] = index[d]
  BY <1>2, <1>3 DEF Types
<1>6. Now' = Now /\ Since' = Since
  BY <1>1, SinceKept
<1>7. \A d \in Docs : d \in Nat
  BY DEF Docs
<1>8. ASSUME Calm
      PROVE  /\ ~s.lost /\ s.from <= Now /\ (recorded # None => recorded <= s.from)
             /\ s.page \in s.wanted /\ \A d \in s.wanted : d <= s.page
             /\ s.read \in Since[s.page][s.from]
             /\ \A d \in Docs : d < s.page =>
                  (IF d \in s.wanted THEN index[d] ELSE Nothing) \in Since[d][s.from]
  BY <1>1, <1>8 DEF Calm, CallInv, LeaseInv, ReadOK
<1> HIDE DEF s
<1>9. ASSUME Calm PROVE CallInv(p)'
  <2>1. \A d \in Docs : d <= s.page => d < s.page \/ d = s.page
    BY <1>3, <1>7
  <2>2. \A d \in Docs : d <= s.page =>
          (IF d \in s.wanted THEN index'[d] ELSE Nothing) \in Since'[d][s.from]
    BY <1>3, <1>5, <1>6, <1>7, <1>8, <1>9, <2>1
  <2> QED BY <1>1, <1>3, <1>4, <1>6, <1>8, <1>9, <2>2, NextPageOwes
<1>10. ASSUME Calm PROVE RecordInv'
  BY <1>1, <1>3, <1>5, <1>8, <1>10, WritesCover
<1>11. Calm => sync'[p].pc # "follow" /\ ~sync'[p].lost
  BY <1>3, <1>4, <1>8, NextPageIs
<1>12. LeaseTyped' /\ recorded' \in MaybePoint
  BY <1>1 DEF Types, LeaseTyped
<1>13. Calm => lease.holder = p /\ lease.left > 0
  <2>1. p # None
    BY SearchSyncAssumption
  <2> QED BY <1>1, <2>1 DEF Calm, LeaseInv, Holds
<1> QED BY <1>1, <1>4, <1>5, <1>9, <1>10, <1>11, <1>12, <1>13, CallStep

\* What the pages did not give leaves the index.
LEMMA RemoveUnwantedKeeps ==
  ASSUME Types, NEW p \in Processes, RemoveUnwanted(p)
  PROVE  Types' /\ (Calm => Calm')
<1> DEFINE s == sync[p]
<1>1. /\ ~Is(p, "off") /\ ~Following(p) /\ s.pc = "remove"
      /\ UNCHANGED <<log, recorded, lease, follow, flush, stalled>>
  BY DEF RemoveUnwanted, Is, Following, others, mongo
<1>2. /\ index' = [d \in Docs |-> IF d \in s.wanted THEN index[d] ELSE Nothing]
      /\ Goto(p, "confirmPoint")
  BY DEF RemoveUnwanted
<1>3. s \in SyncType /\ s.from \in Nat
  BY DEF Types, SyncType
<1>4. /\ sync' \in [Processes -> SyncType] /\ \A q \in Processes \ {p} : sync'[q] = sync[q]
      /\ sync'[p].pc = "confirmPoint" /\ sync'[p].from = s.from /\ sync'[p].lost = s.lost
  <2>1. "confirmPoint" \in Stages
    BY DEF Stages
  <2> QED BY <1>2, <2>1, GotoIs
<1>5. index' \in [Docs -> Nat]
  BY <1>2 DEF Types, Nothing
<1>6. Now' = Now /\ Since' = Since
  BY <1>1, SinceKept
<1>7. ASSUME Calm
      PROVE  /\ ~s.lost /\ s.from <= Now /\ (recorded # None => recorded <= s.from)
             /\ \A d \in Docs : index'[d] \in Since[d][s.from]
  BY <1>1, <1>2, <1>7 DEF Calm, CallInv, LeaseInv, ReadOK
<1> HIDE DEF s
<1>8. ASSUME Calm PROVE CallInv(p)' /\ RecordInv'
  <2>1. CallInv(p)'
    BY <1>1, <1>4, <1>6, <1>7, <1>8 DEF CallInv
  <2>2. RecordInv'
    BY <1>1, <1>3, <1>7, <1>8, WritesCover
  <2> QED BY <2>1, <2>2
<1>9. LeaseTyped' /\ recorded' \in MaybePoint
  BY <1>1 DEF Types, LeaseTyped
<1>10. Calm => lease.holder = p /\ lease.left > 0
  <2>1. p # None
    BY SearchSyncAssumption
  <2> QED BY <1>1, <2>1 DEF Calm, LeaseInv, Holds
<1> QED BY <1>1, <1>4, <1>5, <1>7, <1>8, <1>9, <1>10, CallStep

\* The point of the reindex is recorded.
LEMMA RecordReindexKeeps ==
  ASSUME Types, NEW p \in Processes, RecordReindex(p)
  PROVE  Types' /\ (Calm => Calm')
<1> DEFINE s == sync[p]
<1>1. /\ ~Is(p, "off") /\ ~Following(p) /\ s.pc = "record"
      /\ UNCHANGED <<log, index, lease, follow, flush, stalled>>
  BY DEF RecordReindex, Is, Following, others, mongo
<1>2. PICK pc \in {"letGo", "reread"} : Goto(p, pc)
  BY DEF RecordReindex
<1>3. recorded' = s.from /\ s.from \in Nat
  BY DEF RecordReindex, Types, SyncType
<1>4. /\ sync' \in [Processes -> SyncType] /\ \A q \in Processes \ {p} : sync'[q] = sync[q]
      /\ sync'[p].pc = pc /\ sync'[p].lost = s.lost
  <2>1. pc \in Stages
    BY DEF Stages
  <2> QED BY <1>2, <2>1, GotoIs
<1>5. Now' = Now /\ Since' = Since
  BY <1>1, SinceKept
<1>6. ASSUME Calm PROVE RecordInv' /\ ~s.lost
  BY <1>1, <1>3, <1>5, <1>6 DEF Calm, CallInv, RecordInv, LeaseInv
<1>7. CallInv(p)'
  BY <1>4 DEF CallInv
<1>8. LeaseTyped' /\ recorded' \in MaybePoint /\ index' \in [Docs -> Nat]
  BY <1>1, <1>3 DEF Types, LeaseTyped, MaybePoint
<1>9. Calm => lease.holder = p /\ lease.left > 0
  <2>1. p # None
    BY SearchSyncAssumption
  <2> QED BY <1>1, <2>1 DEF Calm, LeaseInv, Holds
<1> HIDE DEF s
<1> QED BY <1>1, <1>4, <1>6, <1>7, <1>8, <1>9, CallStep

\* A lease is confirmed, or found lost.
LEMMA ConfirmKeeps ==
  ASSUME Types, NEW p \in Processes, NEW from \in Stages, NEW to \in Stages,
         Confirm(p, from, to), from \notin {"off", "follow"}, to # "follow",
         Calm => to \in {"off", "letGo"} \/ (sync'[p].pc = to => CallInv(p)')
  PROVE  Types' /\ (Calm => Calm')
<1>1. /\ ~Is(p, "off") /\ ~Following(p)
      /\ UNCHANGED <<log, index, recorded, follow, flush, stalled>>
  BY DEF Confirm, Is, Following, mongo
<1>2. PICK pc \in {to, "letGo"} : Goto(p, pc)
  BY DEF Confirm
<1>3. /\ sync' \in [Processes -> SyncType] /\ \A q \in Processes \ {p} : sync'[q] = sync[q]
      /\ sync'[p].pc = pc /\ sync'[p].lost = sync[p].lost
  <2>1. pc \in Stages
    BY DEF Stages
  <2> QED BY <1>2, <2>1, GotoIs
<1>4. lease' = lease \/ lease' = [lease EXCEPT !.left = Lease]
  BY DEF Confirm
<1>5. LeaseTyped' /\ lease'.holder = lease.holder /\ (lease'.left > 0 \/ lease'.left = lease.left)
  BY <1>4, SearchSyncAssumption DEF Types, LeaseTyped
<1>6. ASSUME Calm
      PROVE  /\ lease.holder = p /\ lease.left > 0 /\ ~sync'[p].lost /\ RecordInv'
             /\ sync'[p].pc # "follow"
  <2>1. p # None
    BY SearchSyncAssumption
  <2>2. RecordInv'
    BY <1>1, <1>6, SinceKept DEF Calm, RecordInv
  <2> QED BY <1>1, <1>3, <1>6, <2>1, <2>2 DEF Calm, LeaseInv, Holds
<1>7. ASSUME Calm PROVE CallInv(p)'
  <2>1. pc \in {"off", "letGo"} => CallInv(p)'
    BY <1>3 DEF CallInv
  <2> QED BY <1>3, <1>7, <2>1
<1>8. index' \in [Docs -> Nat] /\ recorded' \in MaybePoint
  BY <1>1 DEF Types
<1> QED BY <1>1, <1>3, <1>5, <1>6, <1>7, <1>8, CallStep

\* Each of the three confirms what it was owed before.
LEMMA ConfirmsKeep ==
  ASSUME Types, NEW p \in Processes,
         \/ Confirm(p, "confirm", "remove") \/ Confirm(p, "confirmPoint", "record")
         \/ Confirm(p, "confirmOpen", "open")
  PROVE  Types' /\ (Calm => Calm')
<1>1. UNCHANGED <<log, index, recorded>> /\ Since' = Since /\ Now' = Now
  BY SinceKept DEF Confirm, mongo
<1>2. ASSUME NEW from \in Stages, NEW to \in Stages, Confirm(p, from, to),
             sync'[p].pc = to, to # "letGo"
      PROVE  /\ sync[p].pc = from /\ sync'[p].from = sync[p].from
             /\ sync'[p].wanted = sync[p].wanted
  <2>1. sync[p].pc = from /\ (Goto(p, to) \/ Goto(p, "letGo"))
    BY <1>2 DEF Confirm, Is
  <2>2. "letGo" \in Stages
    BY DEF Stages
  <2> QED BY <1>2, <2>1, <2>2, GotoIs
<1>3. CASE Confirm(p, "confirm", "remove")
  <2>1. "confirm" \in Stages /\ "remove" \in Stages
    BY DEF Stages
  <2>2. ASSUME Calm, sync'[p].pc = "remove" PROVE CallInv(p)'
    <3>1. sync[p].pc = "confirm" /\ sync'[p].from = sync[p].from /\ sync'[p].wanted = sync[p].wanted
      BY <1>2, <1>3, <2>1, <2>2
    <3> QED BY <1>1, <2>2, <3>1 DEF Calm, CallInv, ReadOK
  <2> QED BY <1>3, <2>1, <2>2, ConfirmKeeps
<1>4. CASE Confirm(p, "confirmPoint", "record")
  <2>1. "confirmPoint" \in Stages /\ "record" \in Stages
    BY DEF Stages
  <2>2. ASSUME Calm, sync'[p].pc = "record" PROVE CallInv(p)'
    <3>1. sync[p].pc = "confirmPoint" /\ sync'[p].from = sync[p].from
      BY <1>2, <1>4, <2>1, <2>2
    <3> QED BY <1>1, <2>2, <3>1 DEF Calm, CallInv
  <2> QED BY <1>4, <2>1, <2>2, ConfirmKeeps
<1>5. CASE Confirm(p, "confirmOpen", "open")
  <2>1. "confirmOpen" \in Stages /\ "open" \in Stages
    BY DEF Stages
  <2>2. ASSUME Calm, sync'[p].pc = "open" PROVE CallInv(p)'
    <3>1. sync[p].pc = "confirmOpen" /\ sync'[p].from = sync[p].from
      BY <1>2, <1>5, <2>1, <2>2
    <3> QED BY <1>1, <2>2, <3>1 DEF Calm, CallInv
  <2> QED BY <1>5, <2>1, <2>2, ConfirmKeeps
<1> QED BY <1>3, <1>4, <1>5

\* A call or a stream ends: what is left of it owes nothing.
LEMMA EndKeeps ==
  ASSUME Types, NEW p \in Processes, NEW pc \in {"clear", "letGo", "token"}, Goto(p, pc),
         UNCHANGED <<log, index, recorded, lease, flush, stalled>>,
         ~Is(p, "off"), Calm => flush[p] = NoFlush,
         follow' \in [Processes -> FollowType]
  PROVE  Types' /\ (Calm => Calm')
<1>1. /\ sync' \in [Processes -> SyncType] /\ \A q \in Processes \ {p} : sync'[q] = sync[q]
      /\ sync'[p].pc = pc /\ sync'[p].lost = sync[p].lost
  <2>1. pc \in Stages
    BY DEF Stages
  <2> QED BY <2>1, GotoIs
<1>2. Types'
  BY <1>1, SinceKept DEF Types
<1>3. ASSUME Calm PROVE Calm'
  <2>1. lease.holder = p /\ lease.left > 0 /\ ~sync[p].lost /\ flush[p] = NoFlush
    <3>1. p # None
      BY SearchSyncAssumption
    <3> QED BY <1>3, <3>1 DEF Calm, LeaseInv, Holds
  <2>2. RecordInv'
    BY <1>3, SinceKept DEF Calm, RecordInv
  <2>3. CallInv(p)' /\ FollowInv(p)'
    <3>1. CallInv(p)'
      BY <1>1 DEF CallInv
    <3>2. flush'[p] = NoFlush
      BY <2>1
    <3> QED BY <1>1, <3>1, <3>2 DEF FollowInv, Following, Is
  <2> QED BY <1>1, <1>3, <2>1, <2>2, <2>3, StepKeeps
<1> QED BY <1>2, <1>3

\* A request fails.
LEMMA CallFailsKeeps ==
  ASSUME Types, NEW p \in Processes, CallFails(p)
  PROVE  Types' /\ (Calm => Calm')
<1>1. /\ ~Is(p, "off") /\ ~Following(p) /\ Goto(p, "letGo")
      /\ UNCHANGED <<log, index, recorded, lease, follow, flush, stalled>>
  BY DEF CallFails, Is, Following, mongo
<1>2. follow' \in [Processes -> FollowType] /\ (Calm => flush[p] = NoFlush)
  BY <1>1 DEF Types, Calm, LeaseInv
<1> QED BY <1>1, <1>2, EndKeeps

\* Values that nothing holds.
LEMMA NoneTyped == NoFollow \in FollowType /\ NoFlush \in FlushType /\ NoSync \in SyncType
<1>1. NoPending \in Maybes
  BY DEF NoPending, Maybes, MaybePoint
<1>2. 1 \in Docs
  BY SearchSyncAssumption DEF Docs
<1> QED BY <1>1, <1>2 DEF NoFollow, NoFlush, NoSync, FollowType, FlushType, SyncType, ChangeType,
          MaybePoint, Stages, Nothing

\* The stream opens at the recorded point, or the history has lost it.
LEMMA OpenKeeps ==
  ASSUME Types, NEW p \in Processes, Open(p)
  PROVE  Types' /\ (Calm => Calm')
<1> DEFINE s == sync[p]
           t == [NoSync EXCEPT !.pc = "follow", !.goal = s.goal, !.lost = s.lost]
           f == [NoFollow EXCEPT !.at = s.from, !.saved = s.from]
           r == [s EXCEPT !.pc = "token", !.again = TRUE]
<1>1. /\ ~Is(p, "off") /\ ~Following(p) /\ s.pc = "open"
      /\ UNCHANGED <<log, index, recorded, lease, flush, stalled>>
  BY DEF Open, Is, Following, mongo
<1>2. s \in SyncType /\ s.from \in Nat
  BY DEF Types, SyncType
<1>3. CASE Set(p, t) /\ follow' = [follow EXCEPT ![p] = f]
  <2>1. t \in SyncType /\ t.pc = "follow" /\ t.lost = s.lost
    BY <1>2, NoneTyped DEF SyncType, NoSync, Stages
  <2>2. /\ f \in FollowType /\ f.at = s.from /\ f.doing = "nothing" /\ f.last = None
        /\ f.position = None /\ f.pending = NoPending /\ ~f.failure
    BY <1>2, NoneTyped DEF FollowType, NoFollow, MaybePoint
  <2> HIDE DEF t, f
  <2>3. /\ sync' \in [Processes -> SyncType] /\ sync'[p] = t
        /\ \A q \in Processes \ {p} : sync'[q] = sync[q]
    BY <1>3, <2>1, SetIs
  <2>4. follow' \in [Processes -> FollowType] /\ follow'[p] = f
    BY <1>3, <2>2 DEF Types
  <2>5. Types'
    BY <1>1, <2>3, <2>4, SinceKept DEF Types
  <2>6. ASSUME Calm PROVE Calm'
    <3>1. lease.holder = p /\ lease.left > 0 /\ ~s.lost /\ flush[p] = NoFlush
      <4>1. p # None
        BY SearchSyncAssumption
      <4> QED BY <1>1, <2>6, <4>1 DEF Calm, LeaseInv, Holds
    <3>2. recorded # None /\ s.from = recorded /\ RecordInv
      BY <1>1, <2>6 DEF Calm, CallInv
    <3>3. Since' = Since /\ Now' = Now
      BY <1>1, SinceKept
    <3>4. RecordInv'
      BY <1>1, <3>2, <3>3 DEF RecordInv
    <3>5. CallInv(p)'
      BY <2>1, <2>3 DEF CallInv
    <3>6. \A d \in Docs : Comes(p, d)' = index[d]
      <4>1. flush'[p].batch = NoPending /\ f.pending = NoPending
        BY <1>1, <2>2, <3>1 DEF NoFlush
      <4>2. ASSUME NEW d \in Docs PROVE NoPending[d] = None
        BY DEF NoPending
      <4> QED BY <1>1, <2>4, <4>1, <4>2 DEF Comes, Sent, Unsent
    <3>7. Waiting(f.pending) = {}
      BY <2>2 DEF Waiting, NoPending
    <3>8. Reach(f) = s.from
      BY <2>2 DEF Reach
    <3>9. StreamInv(p)'
      <4>1. \A d \in Docs : Comes(p, d)' \in Since'[d][Reach(f)]
        BY <3>2, <3>3, <3>6, <3>8 DEF RecordInv
      <4> QED BY <1>1, <1>2, <2>2, <2>4, <3>2, <3>3, <3>7, <3>8, <4>1 DEF StreamInv, RecordInv
    <3>10. FollowInv(p)'
      BY <1>1, <3>1, <3>9 DEF FollowInv
    <3> QED BY <1>1, <2>1, <2>2, <2>3, <2>4, <2>6, <3>1, <3>4, <3>5, <3>10, StepKeeps
  <2> QED BY <2>5, <2>6
<1>4. CASE Goto(p, "letGo") /\ UNCHANGED follow
  <2>1. follow' \in [Processes -> FollowType] /\ (Calm => flush[p] = NoFlush)
    BY <1>1, <1>4 DEF Types, Calm, LeaseInv
  <2> QED BY <1>1, <1>4, <2>1, EndKeeps
<1>5. CASE Set(p, r) /\ UNCHANGED follow
  <2>1. r \in SyncType /\ r.pc = "token" /\ r.lost = s.lost
    BY <1>2 DEF SyncType, Stages
  <2> HIDE DEF r
  <2>2. /\ sync' \in [Processes -> SyncType] /\ sync'[p] = r
        /\ \A q \in Processes \ {p} : sync'[q] = sync[q]
    BY <1>5, <2>1, SetIs
  <2>3. CallInv(p)'
    BY <2>1, <2>2 DEF CallInv
  <2>4. Calm => ~s.lost
    BY DEF Calm, LeaseInv
  <2> QED BY <1>1, <1>5, <2>1, <2>2, <2>3, <2>4, ReadStep
<1> QED BY <1>3, <1>4, <1>5 DEF Open

\* What Orphaned leaves of a lease.
LEMMA OrphanedIs ==
  ASSUME Types, NEW p \in Processes
  PROVE  /\ Orphaned(p) \in [holder : Processes \cup {None}, left : Nat]
         /\ Holds(p) => Orphaned(p).holder = None
         /\ ~Holds(p) => Orphaned(p) = lease
BY DEF Types, Orphaned

\* The lease is let go, or left to lapse by one that ends or dies.
LEMMA LeavesKeep ==
  ASSUME Types, NEW p \in Processes, LetGo(p) \/ LetGoFails(p) \/ Crash(p)
  PROVE  Types' /\ (Calm => Calm')
<1>1. /\ ~Is(p, "off") /\ Set(p, NoSync)
      /\ UNCHANGED <<log, index, recorded, stalled>>
      /\ lease' \in {IF Holds(p) THEN Free ELSE lease, Orphaned(p)}
      /\ \/ UNCHANGED <<follow, flush>> /\ Is(p, "letGo")
         \/ /\ follow' = [follow EXCEPT ![p] = NoFollow]
            /\ flush' = [flush EXCEPT ![p] = NoFlush]
  BY DEF LetGo, LetGoFails, Crash, Is, mongo
<1>2. /\ sync' \in [Processes -> SyncType] /\ sync'[p] = NoSync
      /\ \A q \in Processes \ {p} : sync'[q] = sync[q]
  BY <1>1, NoneTyped, SetIs
<1>3. NoSync.pc = "off" /\ ~NoSync.lost
  BY DEF NoSync
<1>4. /\ lease' \in [holder : Processes \cup {None}, left : Nat]
      /\ Holds(p) => lease'.holder = None
  <2>1. Free \in [holder : Processes \cup {None}, left : Nat] /\ Free.holder = None
    BY DEF Free
  <2> QED BY <1>1, <2>1, OrphanedIs DEF Types
<1>5. /\ follow' \in [Processes -> FollowType] /\ flush' \in [Processes -> FlushType]
      /\ \A q \in Processes \ {p} : flush'[q] = flush[q]
      /\ flush'[p] = flush[p] \/ flush'[p] = NoFlush
  BY <1>1, NoneTyped DEF Types
<1>6. Types'
  BY <1>1, <1>2, <1>4, <1>5, SinceKept DEF Types
<1>7. ASSUME Calm PROVE Calm'
  <2>1. Holds(p)
    BY <1>1, <1>7 DEF Calm, LeaseInv
  <2>2. flush'[p] = NoFlush
    BY <1>1, <1>5, <1>7, NoneTyped DEF Types, Calm, LeaseInv, Is, Following
  <2>3. RecordInv'
    BY <1>1, <1>7, SinceKept DEF Calm, RecordInv
  <2>4. CallInv(p)' /\ FollowInv(p)'
    BY <1>2, <1>3, <2>2 DEF CallInv, FollowInv, Following, Is
  <2> QED BY <1>1, <1>2, <1>3, <1>4, <1>5, <1>7, <2>1, <2>2, <2>3, <2>4, StepKeeps
<1> QED BY <1>6, <1>7

\* A lease is taken only when no process is under way.
LEMMA AcquireKeeps ==
  ASSUME Types, NEW p \in Processes, NEW goal \in {"start", "reindex"}, Acquire(p, goal)
  PROVE  Types' /\ (Calm => Calm')
<1> DEFINE s == [NoSync EXCEPT !.pc = IF goal = "start" THEN "read" ELSE "token", !.goal = goal]
<1>1. /\ Is(p, "off") /\ flush[p] = NoFlush /\ lease.left = 0
      /\ lease' = [holder |-> p, left |-> Lease] /\ Set(p, s)
      /\ UNCHANGED <<log, index, recorded, follow, flush, stalled>>
  BY DEF Acquire, mongo
<1>2. s \in SyncType /\ s.pc \in {"read", "token"} /\ ~s.lost
  BY NoneTyped DEF SyncType, NoSync, Stages
<1> HIDE DEF s
<1>3. /\ sync' \in [Processes -> SyncType] /\ sync'[p] = s
      /\ \A q \in Processes \ {p} : sync'[q] = sync[q]
  BY <1>1, <1>2, SetIs
<1>4. LeaseTyped' /\ lease'.holder = p /\ lease'.left > 0
  BY <1>1, SearchSyncAssumption DEF LeaseTyped
<1>5. ASSUME Calm PROVE lease.holder = None /\ RecordInv' /\ CallInv(p)'
  <2>1. lease.holder = None
    BY <1>1, <1>5 DEF Calm, LeaseInv
  <2>2. RecordInv'
    BY <1>1, <1>5, SinceKept DEF Calm, RecordInv
  <2> QED BY <1>2, <1>3, <2>1, <2>2 DEF CallInv
<1>6. index' \in [Docs -> Nat] /\ recorded' \in MaybePoint
  BY <1>1 DEF Types
<1>7. ~Following(p)
  BY <1>1 DEF Is, Following
<1> QED BY <1>1, <1>2, <1>3, <1>4, <1>5, <1>6, <1>7, CallStep

\* What a step that leaves the data alone keeps.
LEMMA LeaseStep ==
  ASSUME Types, UNCHANGED <<log, index, recorded, sync, follow, flush, stalled>>,
         LeaseTyped', lease'.holder = lease.holder, lease'.holder # None => lease'.left > 0
  PROVE  Types' /\ (Calm => Calm')
<1>1. Types'
  BY SinceKept DEF Types, LeaseTyped
<1>2. ASSUME Calm PROVE Calm'
  <2>1. LeaseInv'
    BY <1>2 DEF Calm, LeaseInv, Holds, Is, Following
  <2>2. RecordInv'
    BY <1>2, SinceKept DEF Calm, RecordInv
  <2>3. ASSUME NEW q \in Processes PROVE CallInv(q)' /\ FollowInv(q)'
    <3>1. CallInv(q) /\ FollowInv(q)
      BY <1>2 DEF Calm
    <3>2. CallInv(q)'
      BY <3>1, SinceKept DEF CallInv, ReadOK
    <3>3. FollowInv(q)'
      BY <3>1, SinceKept DEF FollowInv, StreamInv, FlushInv, Comes, Sent, Unsent, Reach, Following, Is
    <3> QED BY <3>2, <3>3
  <2> QED BY <2>1, <2>2, <2>3 DEF Calm
<1> QED BY <1>1, <1>2

\* In calm a renewal finds its holder.
LEMMA RenewKeeps ==
  ASSUME Types, NEW p \in Processes, Renew(p)
  PROVE  Types' /\ (Calm => Calm')
<1>1. ~Is(p, "off") /\ UNCHANGED <<log, index, recorded, flush, stalled>>
  BY DEF Renew, Renews, mongo
<1>2. CASE lease' = [lease EXCEPT !.left = Lease] /\ UNCHANGED <<sync, follow>>
  <2>1. /\ lease' \in [holder : Processes \cup {None}, left : Nat]
        /\ lease'.holder = lease.holder /\ lease'.left > 0
    BY <1>2, SearchSyncAssumption DEF Types
  <2> QED BY <1>1, <1>2, <2>1, LeaseStep DEF LeaseTyped
<1>3. CASE ~Holds(p)
  <2> DEFINE s == [sync[p] EXCEPT !.lost = TRUE]
             stop == IF follow[p].stop = "no" THEN "close" ELSE follow[p].stop
             f == [follow[p] EXCEPT !.failure = TRUE, !.stop = stop]
  <2>1. /\ sync' = [sync EXCEPT ![p] = s] /\ UNCHANGED lease
        /\ follow' \in {follow, [follow EXCEPT ![p] = f]}
    BY <1>3 DEF Renew, Types
  <2>2. s \in SyncType /\ f \in FollowType
    <3>1. stop \in {"no", "close", "invalidated"}
      BY DEF Types, FollowType
    <3>2. s \in SyncType
      BY DEF Types, SyncType
    <3> HIDE DEF stop
    <3>3. follow[p] \in FollowType
      BY DEF Types
    <3>4. [follow[p] EXCEPT !.failure = TRUE, !.stop = stop] \in FollowType
      BY <3>1, <3>3 DEF FollowType
    <3> QED BY <3>2, <3>4
  <2> HIDE DEF s, f
  <2>3. sync' \in [Processes -> SyncType] /\ follow' \in [Processes -> FollowType]
    BY <2>1, <2>2 DEF Types
  <2>4. Types'
    BY <1>1, <2>1, <2>3, SinceKept DEF Types
  <2>5. ~Calm
    BY <1>1, <1>3 DEF Calm, LeaseInv
  <2> QED BY <2>4, <2>5
<1> QED BY <1>2, <1>3 DEF Renew

\* Time passes: a lease that runs out under a live process is a stall.
LEMMA TickKeeps ==
  ASSUME Types, Tick
  PROVE  Types' /\ (stalled' \/ (Calm => Calm')) /\ (stalled => stalled')
<1>1. /\ lease.left > 0 /\ UNCHANGED <<log, index, recorded, sync, follow, flush>>
      /\ lease' = IF lease.left = 1 /\ lease.holder = None THEN Free
                  ELSE [lease EXCEPT !.left = lease.left - 1]
      /\ \/ stalled' = TRUE
         \/ UNCHANGED stalled /\ ~(lease.left = 1 /\ lease.holder # None)
  BY DEF Tick, mongo, Types
<1>2. lease.left \in Nat
  BY DEF Types
<1>3. LeaseTyped' /\ lease'.holder = lease.holder
  BY <1>1, <1>2 DEF Types, LeaseTyped, Free
<1>4. CASE stalled' = TRUE
  BY <1>1, <1>3, <1>4, SinceKept DEF Types, LeaseTyped
<1>5. CASE UNCHANGED stalled /\ ~(lease.left = 1 /\ lease.holder # None)
  <2>1. lease'.holder # None => lease'.left > 0
    BY <1>1, <1>2, <1>5 DEF Types, Free
  <2> QED BY <1>1, <1>3, <1>5, <2>1, LeaseStep
<1> QED BY <1>1, <1>4, <1>5

\* The history is cut.
LEMMA TrimKeeps ==
  ASSUME Types, Trim
  PROVE  Types' /\ (Calm => Calm')
<1>1. UNCHANGED <<log, index, recorded, lease, sync, follow, flush, stalled>>
  BY DEF Trim
<1>2. LeaseTyped' /\ lease'.holder = lease.holder
  BY <1>1 DEF Types, LeaseTyped
<1> QED
  <2>1. CASE lease.holder # None => lease.left > 0
    BY <1>1, <1>2, <2>1, LeaseStep
  <2>2. CASE ~(lease.holder # None => lease.left > 0)
    <3>1. ~Calm
      BY <2>2 DEF Calm, LeaseInv
    <3>2. Types'
      BY <1>1, <1>2, SinceKept DEF Types, LeaseTyped
    <3> QED BY <3>1, <3>2
  <2> QED BY <2>1, <2>2

\* What the database changes leaves every process where it was.
LEMMA ChangeKeeps ==
  ASSUME Types, NEW e \in Writes \cup {Other, Drop}, Change(e)
  PROVE  Types' /\ (Calm => Calm')
<1>1. log' = Append(log, e) /\ UNCHANGED <<index, recorded, lease, sync, follow, flush, stalled>>
  BY DEF Change
<1>2. /\ LogTyped' /\ Now' = Now + 1 /\ Now \in Nat
      /\ \A d \in Docs, r \in Nat : Since[d][r] \subseteq Since'[d][r]
      /\ \A d \in Docs, r \in Nat, s \in 0 .. Now :
           Since[d][r] \subseteq Since[d][s] => Since'[d][r] \subseteq Since'[d][s]
  <2>1. LogTyped /\ Now \in Nat
    BY DEF Types, LogTyped, Now
  <2> QED BY <1>1, <2>1, SinceGrows
<1>3. Types'
  BY <1>1, <1>2 DEF Types
<1>4. ASSUME Calm PROVE Calm'
  <2>1. LeaseInv'
    BY <1>1, <1>4 DEF Calm, LeaseInv, Holds, Is, Following
  <2>2. RecordInv'
    <3>1. recorded # None => recorded \in Nat
      BY DEF Types, MaybePoint
    <3> QED BY <1>1, <1>2, <1>4, <3>1 DEF Calm, RecordInv
  <2>3. ASSUME NEW q \in Processes PROVE CallInv(q)'
    <3>1. CallInv(q) /\ sync[q].from \in Nat /\ sync[q].page \in Docs
      BY <1>4 DEF Calm, Types, SyncType
    <3>2. \A d \in Docs : ReadOK(q, d) => ReadOK(q, d)'
      BY <1>1, <1>2, <3>1 DEF ReadOK
    <3>3. sync[q].from <= Now => sync[q].from <= Now + 1
      BY <1>2, <3>1
    <3> QED BY <1>1, <1>2, <3>1, <3>2, <3>3 DEF CallInv
  <2>4. ASSUME NEW q \in Processes PROVE FollowInv(q)'
    <3> DEFINE f == follow[q]
    <3>1. f \in FollowType /\ FollowInv(q) /\ flush[q] \in FlushType
      BY <1>4 DEF Calm, Types
    <3>2. /\ f.at \in Nat /\ f.change.at \in Nat /\ f.change.doc \in Docs /\ Reach(f) \in Nat
          /\ follow'[q] = f /\ flush'[q] = flush[q]
      BY <1>1, <3>1 DEF FollowType, ChangeType, Reach
    <3>3. \A d \in Docs : Comes(q, d)' = Comes(q, d) /\ Sent(q, d)' = Sent(q, d)
      BY <1>1, <3>2 DEF Comes, Sent, Unsent
    <3>4. Following(q)' = Following(q)
      BY <1>1 DEF Following, Is
    <3> HIDE DEF f
    <3>5. CASE Following(q) /\ ~f.failure
      <4>1. StreamInv(q)
        BY <3>1, <3>5 DEF FollowInv, f
      <4>2. Reach(f) <= Now' /\ (f.change.at <= Now => f.change.at <= Now')
        BY <1>2, <3>2, <4>1 DEF StreamInv, f
      <4>3. \A d \in Docs : Comes(q, d)' \in Since'[d][Reach(f)]
        BY <1>2, <3>2, <3>3, <4>1 DEF StreamInv, f
      <4>4. f.doing = "transform" =>
              /\ f.change.version \in Since'[f.change.doc][f.change.at]
              /\ \A d \in Docs \ {f.change.doc} : Since'[d][f.at] \subseteq Since'[d][f.change.at]
        <5>1. SUFFICES ASSUME f.doing = "transform"
                      PROVE  /\ f.change.version \in Since'[f.change.doc][f.change.at]
                             /\ \A d \in Docs \ {f.change.doc} :
                                  Since'[d][f.at] \subseteq Since'[d][f.change.at]
          OBVIOUS
        <5>2. /\ f.change.version \in Since[f.change.doc][f.change.at] /\ f.change.at \in 0 .. Now
              /\ \A d \in Docs \ {f.change.doc} : Since[d][f.at] \subseteq Since[d][f.change.at]
          BY <1>2, <3>2, <4>1, <5>1 DEF StreamInv, f
        <5> QED BY <1>2, <3>2, <5>2
      <4>5. StreamInv(q)'
        BY <1>1, <3>2, <4>1, <4>2, <4>3, <4>4 DEF StreamInv, f
      <4>6. flush[q] # NoFlush => FlushInv(q)'
        <5>1. SUFFICES ASSUME flush[q] # NoFlush PROVE FlushInv(q)'
          OBVIOUS
        <5>2. FlushInv(q) /\ flush[q].upTo \in Nat /\ (recorded # None => recorded \in Nat)
          BY <3>1, <5>1 DEF FollowInv, FlushInv, FlushType, MaybePoint, Types
        <5> QED BY <1>1, <1>2, <3>2, <3>3, <5>2 DEF FlushInv
      <4> QED BY <1>1, <3>2, <4>5, <4>6 DEF FollowInv
    <3>6. CASE ~(Following(q) /\ ~f.failure)
      <4>1. flush[q] = NoFlush
        BY <1>4, <3>6 DEF Calm, LeaseInv, f
      <4> QED BY <3>2, <3>4, <3>6, <4>1 DEF FollowInv, f
    <3> QED BY <3>5, <3>6
  <2> QED BY <2>1, <2>2, <2>3, <2>4 DEF Calm
<1> QED BY <1>3, <1>4

\* Nothing recorded covers nothing.
LEMMA ClearStateKeeps ==
  ASSUME Types, NEW p \in Processes, ClearState(p)
  PROVE  Types' /\ (Calm => Calm')
<1>1. /\ ~Is(p, "off") /\ ~Following(p) /\ Goto(p, "letGo") /\ recorded' = None
      /\ UNCHANGED <<log, index, lease, follow, flush, stalled>>
  BY DEF ClearState, Is, Following, others, mongo
<1>2. /\ sync' \in [Processes -> SyncType] /\ \A q \in Processes \ {p} : sync'[q] = sync[q]
      /\ sync'[p].pc = "letGo" /\ sync'[p].lost = sync[p].lost
  <2>1. "letGo" \in Stages
    BY DEF Stages
  <2> QED BY <1>1, <2>1, GotoIs
<1>3. RecordInv' /\ CallInv(p)'
  BY <1>1, <1>2 DEF RecordInv, CallInv
<1>4. LeaseTyped' /\ recorded' \in MaybePoint /\ index' \in [Docs -> Nat]
  BY <1>1 DEF Types, LeaseTyped, MaybePoint
<1>5. Calm => lease.holder = p /\ lease.left > 0 /\ ~sync[p].lost
  <2>1. p # None
    BY SearchSyncAssumption
  <2> QED BY <1>1, <2>1 DEF Calm, LeaseInv, Holds
<1> QED BY <1>1, <1>2, <1>3, <1>4, <1>5, CallStep

-----------------------------------------------------------------------------

(***************************************************************************)
(* The steps of a follower, and of its flushes.                            *)
(***************************************************************************)

\* A step of a follower that goes on.
LEMMA FollowStep ==
  ASSUME Types, NEW p \in Processes, UNCHANGED <<log, lease, sync, stalled>>,
         follow' \in [Processes -> FollowType], flush' \in [Processes -> FlushType],
         index' \in [Docs -> Nat], recorded' \in MaybePoint,
         \A q \in Processes \ {p} : flush'[q] = flush[q],
         flush'[p].stage = "none" => flush'[p] = NoFlush,
         Calm => /\ Following(p) /\ RecordInv'
                 /\ flush'[p] # NoFlush => ~follow'[p].failure /\ FlushInv(p)'
                 /\ ~follow'[p].failure => StreamInv(p)'
  PROVE  Types' /\ (Calm => Calm')
<1>1. Types'
  BY SinceKept DEF Types
<1>2. ASSUME Calm PROVE Calm'
  <2>1. sync[p].pc = "follow" /\ lease.holder = p /\ lease.left > 0 /\ ~sync[p].lost /\ ~Is(p, "off")
    <3>1. p # None
      BY SearchSyncAssumption
    <3> QED BY <1>2, <3>1 DEF Calm, LeaseInv, Holds, Following, Is
  <2>2. CallInv(p)'
    BY <2>1 DEF CallInv
  <2>3. FollowInv(p)'
    BY <1>2 DEF FollowInv
  <2> QED BY <1>2, <2>1, <2>2, <2>3, StepKeeps
<1> QED BY <1>1, <1>2

\* What it has of a follower in calm.
LEMMA FollowerHas ==
  ASSUME Types, Calm, NEW p \in Processes, Following(p)
  PROVE  /\ ~follow[p].failure => StreamInv(p)
         /\ flush[p] # NoFlush => FlushInv(p) /\ StreamInv(p) /\ ~follow[p].failure
BY DEF Calm, FollowInv, LeaseInv

\* What is typed of a follower.
LEMMA FollowerTyped ==
  ASSUME Types, NEW p \in Processes
  PROVE  /\ follow[p] \in FollowType /\ follow[p].at \in Nat /\ follow[p].change.at \in Nat
         /\ follow[p].change.doc \in Docs /\ follow[p].change.version \in Nat
         /\ follow[p].pending \in Maybes /\ Reach(follow[p]) \in Nat
         /\ flush[p] \in FlushType /\ flush[p].upTo \in MaybePoint /\ flush[p].batch \in Maybes
         /\ LogTyped /\ Now \in Nat /\ None \notin Nat
BY SearchSyncAssumption DEF Types, FollowType, FlushType, ChangeType, Reach, LogTyped, Now

\* A stream told to stop.
LEMMA StopsKeep ==
  ASSUME Types, NEW p \in Processes, NEW stop \in {"close", "invalidated"}, Following(p),
         follow' = [follow EXCEPT ![p].stop = stop], UNCHANGED <<streamless, sync, flush>>
  PROVE  Types' /\ (Calm => Calm')
<1> DEFINE f == follow[p]
           g == [f EXCEPT !.stop = stop]
<1>1. follow' = [follow EXCEPT ![p] = g]
  BY DEF Types
<1>2. /\ g \in FollowType /\ g.at = f.at /\ g.position = f.position /\ g.pending = f.pending
      /\ g.last = f.last /\ g.doing = f.doing /\ g.change = f.change /\ g.failure = f.failure
  BY FollowerTyped DEF FollowType
<1> HIDE DEF g
<1>3. follow' \in [Processes -> FollowType] /\ follow'[p] = g
  BY <1>1, <1>2 DEF Types
<1>4. UNCHANGED <<log, index, recorded, lease, stalled, sync, flush>>
  BY DEF streamless, mongo
<1>5. ASSUME Calm
      PROVE  /\ RecordInv'
             /\ flush'[p] # NoFlush => ~follow'[p].failure /\ FlushInv(p)'
             /\ ~follow'[p].failure => StreamInv(p)'
  <2>1. RecordInv'
    BY <1>4, <1>5, SinceKept DEF Calm, RecordInv
  <2>2. Reach(g) = Reach(f)
    BY <1>2 DEF Reach
  <2>3. StreamInv(p) => StreamInv(p)'
    BY <1>2, <1>3, <1>4, <2>2, SinceKept DEF StreamInv, Comes, Sent, Unsent
  <2>4. FlushInv(p) => FlushInv(p)'
    BY <1>2, <1>3, <1>4, <2>2, SinceKept DEF FlushInv, Sent, Unsent
  <2> QED BY <1>2, <1>3, <1>4, <1>5, <2>1, <2>3, <2>4, FollowerHas
<1>6. /\ flush' \in [Processes -> FlushType] /\ index' \in [Docs -> Nat] /\ recorded' \in MaybePoint
      /\ flush'[p].stage = "none" => flush'[p] = NoFlush
  BY <1>4 DEF Types
<1> QED BY <1>3, <1>4, <1>5, <1>6, FollowStep

\* The next event is the first change after the point that concerns the
\* collection; what comes before it concerns no document.
LEMMA NextEvent ==
  ASSUME Types, NEW p \in Processes, Events(p) # {}
  PROVE  /\ Min(Events(p)) \in follow[p].at + 1 .. Now
         /\ log[Min(Events(p))] # Other
         /\ \A i \in follow[p].at + 1 .. Min(Events(p)) : i # Min(Events(p)) => log[i] = Other
<1>1. follow[p].at \in Nat /\ Now \in Nat
  BY FollowerTyped
<1>2. Events(p) \in SUBSET Nat
  BY <1>1 DEF Events
<1> DEFINE next == Min(Events(p))
<1>3. next \in Events(p) /\ \A i \in Events(p) : next <= i
  BY <1>2, LeastIs
<1> HIDE DEF next
<1>4. next \in follow[p].at + 1 .. Now /\ log[next] # Other
  BY <1>3 DEF Events
<1>5. ASSUME NEW i \in follow[p].at + 1 .. next, i # next PROVE log[i] = Other
  <2>1. i < next /\ i \in follow[p].at + 1 .. Now
    BY <1>1, <1>4, <1>5
  <2>2. next \in Nat /\ i \in Nat
    BY <1>1, <1>4, <2>1
  <2>3. i \notin Events(p)
    BY <1>3, <2>1, <2>2
  <2> QED BY <2>1, <2>3 DEF Events
<1> QED BY <1>4, <1>5 DEF next

\* What concerns another collection touches no document.
LEMMA OtherTouchesNone == Other # Drop /\ \A d \in Docs : Other.doc # d
BY SearchSyncAssumption DEF Other, Drop, Docs

\* A change is heard.
LEMMA HearKeeps ==
  ASSUME Types, NEW p \in Processes, Hear(p)
  PROVE  Types' /\ (Calm => Calm')
<1> DEFINE f == follow[p]
           next == Min(Events(p))
           doc == log[next].doc
<1>1. /\ Following(p) /\ f.doing = "nothing" /\ ~f.failure /\ Events(p) # {} /\ log[next] # Drop
      /\ UNCHANGED <<log, index, recorded, lease, stalled, sync, flush>>
  BY DEF Hear, streamless, mongo
<1>2. /\ next \in f.at + 1 .. Now /\ log[next] # Other
      /\ \A i \in f.at + 1 .. next : i # next => log[i] = Other
  BY <1>1, NextEvent
<1>3. f.at \in Nat /\ Now \in Nat /\ LogTyped
  BY FollowerTyped
<1>4. PICK n \in {next, Now} :
        follow' = [follow EXCEPT ![p].doing = "transform",
                     ![p].change = [doc |-> doc, version |-> VersionAt(doc, n), at |-> next]]
  BY DEF Hear
<1> HIDE DEF next
<1>5. doc \in Docs
  <2>1. log[next] \in Writes \cup {Other, Drop}
    BY <1>2, <1>3 DEF LogTyped, Now
  <2> QED BY <1>1, <1>2, <2>1 DEF Writes
<1>6. next \in Nat /\ next \in 0 .. Now /\ n \in next .. Now /\ f.at < next /\ f.at <= next
  BY <1>2, <1>3
<1> HIDE DEF doc
<1> DEFINE v == VersionAt(doc, n)
<1>7. v \in Since[doc][next] /\ v \in Nat
  BY <1>3, <1>5, <1>6, SinceNow
<1> HIDE DEF v
<1> DEFINE change == [doc |-> doc, version |-> v, at |-> next]
           g == [f EXCEPT !.doing = "transform", !.change = change]
<1>8. change \in ChangeType /\ change.doc = doc /\ change.version = v /\ change.at = next
  BY <1>5, <1>6, <1>7 DEF ChangeType
<1>9. follow' = [follow EXCEPT ![p] = g]
  BY <1>4 DEF Types, v
<1> HIDE DEF change
<1>10. /\ g \in FollowType /\ g.at = f.at /\ g.position = f.position /\ g.pending = f.pending
       /\ g.last = f.last /\ g.doing = "transform" /\ g.change = change /\ g.failure = f.failure
  BY <1>8, FollowerTyped DEF FollowType
<1> HIDE DEF g
<1>11. follow' \in [Processes -> FollowType] /\ follow'[p] = g
  BY <1>9, <1>10 DEF Types
<1>12. Since' = Since /\ Now' = Now
  BY <1>1, SinceKept
<1>13. \A d \in Docs \ {doc} : Since[d][f.at] \subseteq Since[d][next]
  <2>1. ASSUME NEW d \in Docs \ {doc}, NEW i \in f.at + 1 .. next
        PROVE  log[i] # Drop /\ log[i].doc # d
    BY <1>1, <1>2, OtherTouchesNone DEF doc
  <2> QED BY <1>3, <1>6, <2>1, SinceSkips
<1>14. ASSUME Calm
       PROVE  /\ RecordInv'
              /\ flush'[p] # NoFlush => ~follow'[p].failure /\ FlushInv(p)'
              /\ ~follow'[p].failure => StreamInv(p)'
  <2>1. RecordInv'
    BY <1>1, <1>14, SinceKept DEF Calm, RecordInv
  <2>2. Reach(g) = Reach(f)
    BY <1>1, <1>10 DEF Reach
  <2>3. StreamInv(p)'
    <3>1. StreamInv(p)
      BY <1>1, <1>14, FollowerHas
    <3>2. \A d \in Docs : Comes(p, d)' = Comes(p, d)
      BY <1>1, <1>10, <1>11 DEF Comes, Sent, Unsent
    <3>3. next <= Now
      BY <1>2, <1>3
    <3> QED BY <1>1, <1>6, <1>7, <1>8, <1>10, <1>11, <1>12, <1>13, <2>2, <3>1, <3>2, <3>3 DEF StreamInv
  <2>4. FlushInv(p) => FlushInv(p)'
    BY <1>1, <1>10, <1>11, <1>12, <2>2 DEF FlushInv, Sent, Unsent
  <2> QED BY <1>1, <1>10, <1>11, <1>14, <2>1, <2>3, <2>4, FollowerHas
<1>15. /\ flush' \in [Processes -> FlushType] /\ index' \in [Docs -> Nat] /\ recorded' \in MaybePoint
       /\ flush'[p].stage = "none" => flush'[p] = NoFlush
  BY <1>1 DEF Types
<1> QED BY <1>1, <1>11, <1>14, <1>15, FollowStep

\* Nothing more to hear: the stream is at the end of the log.
LEMMA QuietKeeps ==
  ASSUME Types, NEW p \in Processes, Quiet(p)
  PROVE  Types' /\ (Calm => Calm')
<1> DEFINE f == follow[p]
           g == [f EXCEPT !.position = Now, !.at = Now]
<1>1. /\ Following(p) /\ f.doing = "nothing" /\ Events(p) = {}
      /\ follow' = [follow EXCEPT ![p].position = Now, ![p].at = Now]
      /\ UNCHANGED <<log, index, recorded, lease, stalled, sync, flush>>
  BY DEF Quiet, streamless, mongo
<1>2. f.at \in Nat /\ Now \in Nat /\ LogTyped /\ f \in FollowType
  BY FollowerTyped
<1>3. follow' = [follow EXCEPT ![p] = g]
  BY <1>1 DEF Types
<1>4. /\ g \in FollowType /\ g.at = Now /\ g.position = Now /\ g.pending = f.pending
      /\ g.last = f.last /\ g.doing = "nothing" /\ g.change = f.change /\ g.failure = f.failure
  BY <1>1, <1>2 DEF FollowType, MaybePoint
<1> HIDE DEF g
<1>5. follow' \in [Processes -> FollowType] /\ follow'[p] = g
  BY <1>3, <1>4 DEF Types
<1>6. Since' = Since /\ Now' = Now
  BY <1>1, SinceKept
<1>7. ASSUME f.at <= Now PROVE \A d \in Docs : Since[d][f.at] \subseteq Since[d][Now]
  <2>1. \A i \in f.at + 1 .. Now : log[i] = Other
    BY <1>1 DEF Events
  <2>2. ASSUME NEW d \in Docs, NEW i \in f.at + 1 .. Now PROVE log[i] # Drop /\ log[i].doc # d
    BY <2>1, OtherTouchesNone
  <2> QED BY <1>2, <1>7, <2>2, SinceSkips
<1>8. ASSUME Calm
      PROVE  /\ RecordInv'
             /\ flush'[p] # NoFlush => ~follow'[p].failure /\ FlushInv(p)'
             /\ ~follow'[p].failure => StreamInv(p)'
  <2>1. RecordInv'
    BY <1>1, <1>8, SinceKept DEF Calm, RecordInv
  <2>2. Reach(g) = Now /\ Reach(f) = f.at
    BY <1>1, <1>4 DEF Reach
  <2>3. ASSUME StreamInv(p) PROVE StreamInv(p)'
    <3>1. \A d \in Docs : Comes(p, d)' = Comes(p, d)
      BY <1>1, <1>4, <1>5 DEF Comes, Sent, Unsent
    <3>2. f.at <= Now /\ \A d \in Docs : Comes(p, d) \in Since[d][f.at]
      BY <2>2, <2>3 DEF StreamInv
    <3>3. \A d \in Docs : Comes(p, d)' \in Since'[d][Reach(g)]
      BY <1>6, <1>7, <2>2, <3>1, <3>2
    <3>4. recorded # None => recorded <= Now
      BY <1>8 DEF Calm, RecordInv
    <3>5. f.last # None => f.last \in Nat
      BY <1>2 DEF FollowType, MaybePoint
    <3>6. f.last # None => f.last <= Now
      BY <1>2, <2>2, <2>3, <3>2, <3>5 DEF StreamInv
    <3> QED BY <1>1, <1>2, <1>4, <1>5, <1>6, <2>2, <2>3, <3>3, <3>4, <3>6 DEF StreamInv
  <2>4. ASSUME flush[p] # NoFlush PROVE FlushInv(p)'
    <3>1. FlushInv(p) /\ StreamInv(p)
      BY <1>1, <1>8, <2>4, FollowerHas
    <3>2. flush[p].upTo \in Nat
      BY <3>1, FollowerTyped DEF FlushInv, MaybePoint
    <3>3. flush[p].upTo <= Now
      BY <1>2, <2>2, <3>1, <3>2 DEF FlushInv, StreamInv
    <3>4. ~flush[p].wakes
      BY <1>1, <3>1 DEF FlushInv
    <3> QED BY <1>1, <1>5, <1>6, <2>2, <3>1, <3>3, <3>4 DEF FlushInv, Sent, Unsent
  <2> QED BY <1>1, <1>4, <1>5, <1>8, <2>1, <2>3, <2>4, FollowerHas
<1>9. /\ flush' \in [Processes -> FlushType] /\ index' \in [Docs -> Nat] /\ recorded' \in MaybePoint
      /\ flush'[p].stage = "none" => flush'[p] = NoFlush
  BY <1>1 DEF Types
<1> QED BY <1>1, <1>5, <1>8, <1>9, FollowStep

\* The change in hand is queued.
LEMMA HandledKeeps ==
  ASSUME Types, NEW p \in Processes, Handled(p)
  PROVE  Types' /\ (Calm => Calm')
<1> DEFINE f == follow[p]
           c == f.change
           pending == [f.pending EXCEPT ![c.doc] = c.version]
           q == [f EXCEPT !.pending = pending, !.last = c.at]
<1>1. /\ Following(p) /\ f.doing = "transform"
      /\ UNCHANGED <<log, index, recorded, lease, stalled, sync, flush>>
  BY DEF Handled, streamless, mongo
<1>2. /\ f.at \in Nat /\ Now \in Nat /\ LogTyped /\ f \in FollowType /\ c \in ChangeType
      /\ c.at \in Nat /\ c.doc \in Docs /\ c.version \in Nat /\ f.pending \in Maybes
  BY FollowerTyped DEF FollowType
<1>3. /\ pending \in Maybes /\ pending[c.doc] = c.version
      /\ \A d \in Docs \ {c.doc} : pending[d] = f.pending[d]
  BY <1>2 DEF Maybes, MaybePoint
<1>4. \/ follow' = [follow EXCEPT ![p] = [q EXCEPT !.doing = "wait"]]
      \/ follow' = [follow EXCEPT ![p] = HandledBy(q)]
  BY DEF Handled
<1> HIDE DEF pending
<1>5. /\ q \in FollowType /\ q.at = f.at /\ q.position = f.position /\ q.pending = pending
      /\ q.last = c.at /\ q.change = c /\ q.failure = f.failure
  BY <1>2, <1>3 DEF FollowType, MaybePoint
<1> HIDE DEF q
<1>6. PICK g \in {[q EXCEPT !.doing = "wait"], HandledBy(q)} : follow' = [follow EXCEPT ![p] = g]
  BY <1>4
<1>7. /\ g \in FollowType /\ g.pending = pending /\ g.last = c.at /\ g.failure = f.failure
      /\ g.doing # "transform" /\ Reach(g) = c.at
      /\ (g.at = f.at /\ g.position = f.position) \/ (g.at = c.at /\ g.position = c.at)
  <2>1. CASE g = [q EXCEPT !.doing = "wait"]
    <3>1. /\ g \in FollowType /\ g.pending = q.pending /\ g.last = q.last /\ g.failure = q.failure
          /\ g.doing = "wait" /\ g.change = q.change /\ g.at = q.at /\ g.position = q.position
      BY <1>5, <2>1 DEF FollowType
    <3> HIDE DEF c
    <3> QED BY <1>5, <3>1 DEF Reach
  <2>2. CASE g = HandledBy(q)
    <3>1. NoFollow.change \in ChangeType
      BY NoneTyped DEF FollowType
    <3> QED BY <1>2, <1>5, <2>2, <3>1 DEF HandledBy, FollowType, Reach, MaybePoint
  <2> QED BY <2>1, <2>2
<1>8. follow' \in [Processes -> FollowType] /\ follow'[p] = g
  BY <1>6, <1>7 DEF Types
<1>9. Since' = Since /\ Now' = Now
  BY <1>1, SinceKept
<1>10. ASSUME Calm
       PROVE  /\ RecordInv'
              /\ flush'[p] # NoFlush => ~follow'[p].failure /\ FlushInv(p)'
              /\ ~follow'[p].failure => StreamInv(p)'
  <2>1. RecordInv'
    BY <1>1, <1>10, SinceKept DEF Calm, RecordInv
  <2>2. Reach(f) = f.at
    BY <1>1 DEF Reach
  <2>3. ASSUME StreamInv(p) PROVE StreamInv(p)'
    <3>1. \A d \in Docs : Sent(p, d)' = Sent(p, d)
      BY <1>1 DEF Sent, Unsent
    <3>2. /\ f.at < c.at /\ c.at <= Now /\ c.version \in Since[c.doc][c.at]
          /\ \A d \in Docs \ {c.doc} : Since[d][f.at] \subseteq Since[d][c.at]
          /\ \A d \in Docs : Comes(p, d) \in Since[d][f.at]
      BY <1>1, <2>2, <2>3 DEF StreamInv
    <3>3. ASSUME NEW d \in Docs PROVE Comes(p, d)' \in Since[d][c.at]
      <4>1. CASE d = c.doc
        <5>1. c.version # None
          BY <1>2, FollowerTyped
        <5> QED BY <1>3, <1>7, <1>8, <3>2, <4>1, <5>1 DEF Comes
      <4>2. CASE d # c.doc
        <5>1. Comes(p, d)' = Comes(p, d)
          BY <1>3, <1>7, <1>8, <3>1, <4>2 DEF Comes
        <5> QED BY <3>2, <4>2, <5>1
      <4> QED BY <4>1, <4>2
    <3>4. recorded # None => recorded <= c.at
      <4>1. recorded # None => recorded \in Nat /\ recorded <= f.at
        BY <2>2, <2>3 DEF StreamInv, Types, MaybePoint
      <4> QED BY <1>2, <3>2, <4>1
    <3>5. c.at # None
      BY <1>2, FollowerTyped
    <3>6. g.position # None => g.position <= g.at
      BY <1>2, <1>7, <2>3 DEF StreamInv
    <3> QED BY <1>1, <1>2, <1>7, <1>8, <1>9, <3>2, <3>3, <3>4, <3>5, <3>6 DEF StreamInv
  <2>4. ASSUME flush[p] # NoFlush PROVE FlushInv(p)'
    <3>1. FlushInv(p) /\ StreamInv(p)
      BY <1>1, <1>10, <2>4, FollowerHas
    <3>2. flush[p].upTo \in Nat
      BY <3>1, FollowerTyped DEF FlushInv, MaybePoint
    <3>3. flush[p].upTo <= c.at
      BY <1>1, <1>2, <2>2, <3>1, <3>2 DEF FlushInv, StreamInv
    <3>4. ~flush[p].wakes
      BY <1>1, <3>1 DEF FlushInv
    <3> QED BY <1>1, <1>7, <1>8, <1>9, <3>1, <3>3, <3>4 DEF FlushInv, Sent, Unsent
  <2> QED BY <1>1, <1>7, <1>8, <1>10, <2>1, <2>3, <2>4, FollowerHas
<1>11. /\ flush' \in [Processes -> FlushType] /\ index' \in [Docs -> Nat] /\ recorded' \in MaybePoint
       /\ flush'[p].stage = "none" => flush'[p] = NoFlush
  BY <1>1 DEF Types
<1> QED BY <1>1, <1>8, <1>10, <1>11, FollowStep

\* The stream ends, and has no flush under way.
LEMMA EndsKeep ==
  ASSUME Types, NEW p \in Processes,
         (StreamFails(p) /\ ~BreaksMidFlush) \/ HandleRefuses(p) \/ Settles(p)
  PROVE  Types' /\ (Calm => Calm')
<1>1. /\ Following(p) /\ UNCHANGED <<log, index, recorded, lease, flush, stalled>>
      /\ follow' = [follow EXCEPT ![p] = NoFollow]
      /\ flush[p] = NoFlush \/ follow[p].failure
  BY DEF StreamFails, HandleRefuses, Settles, EndsByError, streamless, mongo
<1>2. PICK pc \in {"clear", "letGo"} : Goto(p, pc)
  BY DEF StreamFails, HandleRefuses, Settles, EndsByError
<1>3. follow' \in [Processes -> FollowType]
  BY <1>1, NoneTyped DEF Types
<1>4. Calm => flush[p] = NoFlush
  BY <1>1 DEF Calm, LeaseInv
<1>5. ~Is(p, "off")
  BY <1>1 DEF Following, Is
<1> QED BY <1>1, <1>2, <1>3, <1>4, <1>5, EndKeeps

\* A flush begins: what it sends, and what it leaves, is what there was.
LEMMA FlushBeginsKeeps ==
  ASSUME Types, NEW p \in Processes, FlushBegins(p)
  PROVE  Types' /\ (Calm => Calm')
<1> DEFINE f == follow[p]
           stage == StageOf(f.pending)
           wakes == f.doing = "wait"
           w == [NoFlush EXCEPT !.stage = stage, !.batch = f.pending, !.upTo = PointOf(f), !.wakes = wakes]
           g == [f EXCEPT !.pending = NoPending]
<1>1. /\ Following(p) /\ flush[p] = NoFlush /\ ~f.failure
      /\ ~(Waiting(f.pending) = {} /\ PointOf(f) \in {None, f.saved})
      /\ flush' = [flush EXCEPT ![p] = w] /\ follow' = [follow EXCEPT ![p].pending = NoPending]
      /\ UNCHANGED <<log, index, recorded, lease, stalled, sync>>
  BY DEF FlushBegins, streamless, mongo
<1>2. /\ f.at \in Nat /\ Now \in Nat /\ LogTyped /\ f \in FollowType /\ f.pending \in Maybes
      /\ Reach(f) \in Nat /\ None \notin Nat
      /\ f.last \in MaybePoint /\ f.position \in MaybePoint
  BY FollowerTyped DEF FollowType
<1>3. PointOf(f) \in MaybePoint
  BY <1>2 DEF PointOf, MaybePoint
<1>4. stage \in {"add", "delete", "save"} /\ wakes \in BOOLEAN
  BY DEF StageOf
<1>5. \A d \in Docs : f.pending[d] # None =>
        stage = "add" \/ (stage = "delete" /\ f.pending[d] = Nothing)
  BY DEF StageOf, Waiting
<1>6. follow' = [follow EXCEPT ![p] = g]
  BY <1>1 DEF Types
<1>7. /\ g \in FollowType /\ g.at = f.at /\ g.position = f.position /\ g.pending = NoPending
      /\ g.last = f.last /\ g.doing = f.doing /\ g.change = f.change /\ g.failure = f.failure
  BY <1>2, NoneTyped DEF FollowType, NoFollow
<1> HIDE DEF stage, g
<1>8. /\ w \in FlushType /\ w.stage = stage /\ w.batch = f.pending /\ w.upTo = PointOf(f)
      /\ w.wakes = (f.doing = "wait")
  <2> HIDE DEF wakes
  <2>1. /\ w \in FlushType /\ w.stage = stage /\ w.batch = f.pending /\ w.upTo = PointOf(f)
        /\ w.wakes = wakes
    BY <1>2, <1>3, <1>4, NoneTyped DEF FlushType, NoFlush
  <2> QED BY <2>1 DEF wakes
<1> HIDE DEF w, wakes
<1>9. /\ follow' \in [Processes -> FollowType] /\ follow'[p] = g
      /\ flush' \in [Processes -> FlushType] /\ flush'[p] = w
      /\ \A q \in Processes \ {p} : flush'[q] = flush[q]
  BY <1>1, <1>6, <1>7, <1>8 DEF Types
<1>10. Since' = Since /\ Now' = Now
  BY <1>1, SinceKept
<1>11. ASSUME Calm
       PROVE  /\ RecordInv' /\ ~follow'[p].failure /\ FlushInv(p)' /\ StreamInv(p)'
  <2>1. RecordInv'
    BY <1>1, <1>11, SinceKept DEF Calm, RecordInv
  <2>2. StreamInv(p) /\ Reach(g) = Reach(f)
    BY <1>1, <1>7, <1>11, FollowerHas DEF Reach
  <2>3. \A d \in Docs : NoPending[d] = None
    BY DEF NoPending
  <2>4. ASSUME NEW d \in Docs PROVE Sent(p, d)' = Comes(p, d) /\ Comes(p, d)' = Comes(p, d)
    <3>1. Sent(p, d) = index[d]
      BY <1>1, <2>3 DEF Sent, Unsent, NoFlush
    <3>2. Unsent(w, d) <=> f.pending[d] # None
      BY <1>5, <1>8 DEF Unsent
    <3>3. Sent(p, d)' = IF Unsent(w, d) THEN w.batch[d] ELSE index[d]
      BY <1>1, <1>9 DEF Sent, Unsent
    <3>4. Comes(p, d)' = Sent(p, d)'
      BY <1>7, <1>9, <2>3 DEF Comes
    <3> QED BY <1>8, <3>1, <3>2, <3>3, <3>4 DEF Comes
  <2>5. PointOf(f) \in Nat /\ PointOf(f) <= Reach(f)
    <3>1. CASE f.last # None
      BY <1>2, <2>2, <3>1 DEF PointOf, StreamInv, MaybePoint
    <3>2. CASE f.last = None
      <4>1. Waiting(f.pending) = {} /\ PointOf(f) # None
        BY <1>1, <2>2, <3>2 DEF StreamInv
      <4>2. PointOf(f) = f.position /\ f.position \in Nat
        BY <1>2, <3>2, <4>1 DEF PointOf, MaybePoint
      <4>3. f.position <= f.at /\ f.at <= Reach(f)
        BY <1>2, <2>2, <4>2 DEF StreamInv
      <4> QED BY <1>2, <4>2, <4>3
    <3> QED BY <3>1, <3>2
  <2>6. \A d \in Docs : Comes(p, d) \in Since[d][Reach(f)]
    BY <2>2 DEF StreamInv
  <2>7. FlushInv(p)'
    <3>1. \A d \in Docs : Sent(p, d)' \in Since[d][PointOf(f)]
      BY <1>2, <2>4, <2>5, <2>6, SinceLess
    <3>2. recorded # None => recorded \in Nat /\ recorded <= Reach(f)
      BY <2>2 DEF StreamInv, Types, MaybePoint
    <3>3. recorded # None => \A d \in Docs : Sent(p, d)' \in Since[d][recorded]
      BY <1>2, <2>4, <2>6, <3>2, SinceLess
    <3> QED BY <1>1, <1>2, <1>7, <1>8, <1>9, <1>10, <2>2, <2>5, <3>1, <3>3 DEF FlushInv
  <2>8. StreamInv(p)'
    <3>1. \A d \in Docs : Comes(p, d)' \in Since'[d][Reach(g)]
      BY <1>10, <2>2, <2>4, <2>6
    <3>2. Waiting(NoPending) = {}
      BY <2>3 DEF Waiting
    <3> QED BY <1>1, <1>7, <1>9, <1>10, <2>2, <3>1, <3>2 DEF StreamInv
  <2> QED BY <1>1, <1>7, <1>9, <2>1, <2>7, <2>8
<1>12. /\ index' \in [Docs -> Nat] /\ recorded' \in MaybePoint
       /\ flush'[p].stage = "none" => flush'[p] = NoFlush
  BY <1>1, <1>4, <1>8, <1>9 DEF Types
<1> QED BY <1>1, <1>9, <1>11, <1>12, FollowStep

\* A request of a flush: each document sent, or still to send, is as it was.
LEMMA SendsKeep ==
  ASSUME Types, NEW p \in Processes, Adds(p) \/ Deletes(p)
  PROVE  Types' /\ (Calm => Calm')
<1> DEFINE w == flush[p]
           batch == w.batch
<1>1. PICK stage \in {"add", "delete"}, next \in {"delete", "save"} :
        /\ Send(p, stage, next)
        /\ stage = "add" => next = IF \E d \in Docs : batch[d] = Nothing THEN "delete" ELSE "save"
        /\ stage = "delete" => next = "save"
  BY DEF Adds, Deletes
<1> DEFINE mine == {d \in Waiting(batch) : (batch[d] # Nothing) = (stage = "add")}
           x == [w EXCEPT !.stage = next]
<1>2. /\ w.stage = stage /\ index' = [d \in Docs |-> IF d \in mine THEN batch[d] ELSE index[d]]
      /\ flush' = [flush EXCEPT ![p].stage = next]
      /\ UNCHANGED <<log, recorded, lease, sync, follow, stalled>>
  BY <1>1 DEF Send, mongo
<1>3. /\ x \in FlushType /\ x.stage = next /\ x.batch = batch /\ x.upTo = w.upTo /\ x.wakes = w.wakes
      /\ batch \in Maybes
  BY FollowerTyped DEF FlushType
<1>4. flush' = [flush EXCEPT ![p] = x]
  BY <1>2 DEF Types
<1> HIDE DEF x
<1>5. /\ flush' \in [Processes -> FlushType] /\ flush'[p] = x
      /\ \A q \in Processes \ {p} : flush'[q] = flush[q]
  BY <1>3, <1>4 DEF Types
<1>6. \A d \in Docs : d \in mine <=> (batch[d] # None) /\ ((batch[d] # Nothing) = (stage = "add"))
  BY DEF Waiting
<1>7. \A d \in Docs : index'[d] = IF d \in mine THEN batch[d] ELSE index[d]
  BY <1>2
<1>8. index' \in [Docs -> Nat]
  <2>1. ASSUME NEW d \in Docs PROVE (IF d \in mine THEN batch[d] ELSE index[d]) \in Nat
    BY <1>3, <1>6 DEF Types, Maybes, MaybePoint
  <2> HIDE DEF mine
  <2> QED BY <1>2, <2>1
<1> HIDE DEF mine
<1>9. w # NoFlush /\ x # NoFlush
  BY <1>2, <1>3 DEF NoFlush
<1>10. ASSUME NEW d \in Docs PROVE Sent(p, d)' = Sent(p, d) /\ (d \in mine => Sent(p, d) = batch[d])
  <2>1. Unsent(w, d) <=> batch[d] # None /\ (stage = "add" \/ (stage = "delete" /\ batch[d] = Nothing))
    BY <1>2 DEF Unsent
  <2>2. Unsent(x, d) <=> batch[d] # None /\ next = "delete" /\ batch[d] = Nothing
    BY <1>3 DEF Unsent
  <2>3. Sent(p, d)' = IF Unsent(x, d) THEN batch[d] ELSE index'[d]
    BY <1>3, <1>5 DEF Sent, Unsent
  <2>4. Sent(p, d) = IF Unsent(w, d) THEN batch[d] ELSE index[d]
    BY DEF Sent
  <2>5. CASE stage = "add"
    BY <1>1, <1>6, <1>7, <2>1, <2>2, <2>3, <2>4, <2>5
  <2>6. CASE stage = "delete"
    BY <1>1, <1>6, <1>7, <2>1, <2>2, <2>3, <2>4, <2>6
  <2> QED BY <2>5, <2>6
<1>11. Since' = Since /\ Now' = Now
  BY <1>2, SinceKept
<1>12. ASSUME Calm
       PROVE  Following(p) /\ RecordInv' /\ ~follow'[p].failure /\ FlushInv(p)' /\ StreamInv(p)'
  <2>1. Following(p)
    BY <1>9, <1>12 DEF Calm, LeaseInv
  <2>2. FlushInv(p) /\ StreamInv(p) /\ ~follow[p].failure
    BY <1>9, <1>12, <2>1, FollowerHas
  <2>3. RecordInv'
    <3>1. recorded # None => \A d \in Docs : Sent(p, d) \in Since[d][recorded] /\ index[d] \in Since[d][recorded]
      BY <1>12, <2>2 DEF FlushInv, Calm, RecordInv
    <3>2. recorded # None => \A d \in Docs : index'[d] \in Since[d][recorded]
      BY <1>7, <1>10, <3>1
    <3> QED BY <1>2, <1>11, <1>12, <3>2 DEF Calm, RecordInv
  <2>4. FlushInv(p)'
    BY <1>2, <1>3, <1>5, <1>10, <1>11, <2>2 DEF FlushInv
  <2>5. \A d \in Docs : Comes(p, d)' = Comes(p, d)
    BY <1>2, <1>10 DEF Comes
  <2>6. StreamInv(p)'
    BY <1>2, <1>11, <2>2, <2>5 DEF StreamInv
  <2> QED BY <1>2, <2>1, <2>2, <2>3, <2>4, <2>6
<1>13. /\ follow' \in [Processes -> FollowType] /\ recorded' \in MaybePoint
       /\ flush'[p].stage = "none" => flush'[p] = NoFlush
  BY <1>2, <1>3, <1>5 DEF Types
<1> QED BY <1>2, <1>5, <1>8, <1>12, <1>13, FollowStep

\* What a flush records, when all of it is sent, the index covers.
LEMMA FlushCovers ==
  ASSUME Types, Calm, NEW p \in Processes, flush[p] # NoFlush, UNCHANGED <<log, index>>,
         recorded' = recorded \/ (recorded' = flush[p].upTo /\ flush[p].stage = "save")
  PROVE  /\ Following(p) /\ FlushInv(p) /\ StreamInv(p) /\ ~follow[p].failure
         /\ flush[p].upTo \in Nat /\ RecordInv'
<1>1. Following(p)
  BY DEF Calm, LeaseInv
<1>2. FlushInv(p) /\ StreamInv(p) /\ ~follow[p].failure
  BY <1>1, FollowerHas
<1>3. flush[p].upTo \in Nat /\ flush[p].upTo <= Now
  BY <1>2, FollowerTyped DEF FlushInv, StreamInv, MaybePoint
<1>4. Since' = Since /\ Now' = Now /\ index' = index
  BY SinceKept
<1>5. ASSUME recorded' = recorded PROVE RecordInv'
  <2>1. RecordInv
    BY DEF Calm
  <2> QED BY <1>4, <1>5, <2>1 DEF RecordInv
<1>6. ASSUME recorded' = flush[p].upTo, flush[p].stage = "save" PROVE RecordInv'
  <2>1. \A d \in Docs : Sent(p, d) = index[d]
    BY <1>6 DEF Sent, Unsent
  <2>2. \A d \in Docs : index[d] \in Since[d][flush[p].upTo]
    BY <1>2, <2>1 DEF FlushInv
  <2> QED BY <1>3, <1>4, <1>6, <2>2 DEF RecordInv
<1> QED BY <1>1, <1>2, <1>3, <1>5, <1>6

\* The point of a flush is recorded, and a full batch's change is done with.
LEMMA SavesKeep ==
  ASSUME Types, NEW p \in Processes, Saves(p)
  PROVE  Types' /\ (Calm => Calm')
<1> DEFINE f == follow[p]
           w == flush[p]
           saved == [f EXCEPT !.saved = w.upTo]
<1>1. /\ w.stage = "save" /\ recorded' = w.upTo /\ flush' = [flush EXCEPT ![p] = NoFlush]
      /\ UNCHANGED <<log, index, lease, sync, stalled>>
      /\ follow' = IF ~Following(p) THEN follow
                   ELSE [follow EXCEPT ![p] = IF w.wakes THEN HandledBy(saved) ELSE saved]
  BY DEF Saves, mongo
<1>2. /\ w \in FlushType /\ f \in FollowType /\ w.upTo \in MaybePoint /\ f.change.at \in Nat
      /\ f.at \in Nat /\ Now \in Nat
  BY FollowerTyped
<1>3. /\ saved \in FollowType /\ saved.at = f.at /\ saved.position = f.position
      /\ saved.pending = f.pending /\ saved.last = f.last /\ saved.doing = f.doing
      /\ saved.change = f.change
  BY <1>2 DEF FollowType
<1> HIDE DEF saved
<1> DEFINE g == IF w.wakes THEN HandledBy(saved) ELSE saved
<1>4. /\ g \in FollowType /\ g.pending = f.pending /\ g.last = f.last
      /\ ~w.wakes => g = saved
      /\ w.wakes => g.doing = "nothing" /\ g.at = f.change.at /\ g.position = f.change.at
  <2>1. CASE w.wakes
    <3>1. NoFollow.change \in ChangeType
      BY NoneTyped DEF FollowType
    <3> QED BY <1>2, <1>3, <2>1, <3>1 DEF HandledBy, FollowType, MaybePoint
  <2>2. CASE ~w.wakes
    BY <1>3, <2>2
  <2> QED BY <2>1, <2>2
<1>5. follow' = IF ~Following(p) THEN follow ELSE [follow EXCEPT ![p] = g]
  BY <1>1
<1> HIDE DEF g
<1>6. /\ follow' \in [Processes -> FollowType] /\ (Following(p) => follow'[p] = g)
      /\ flush' \in [Processes -> FlushType] /\ flush'[p] = NoFlush
      /\ \A q \in Processes \ {p} : flush'[q] = flush[q]
  BY <1>1, <1>4, <1>5, NoneTyped DEF Types
<1>7. Since' = Since /\ Now' = Now
  BY <1>1, SinceKept
<1>8. ASSUME Calm PROVE Following(p) /\ RecordInv' /\ StreamInv(p)'
  <2>1. /\ Following(p) /\ FlushInv(p) /\ StreamInv(p) /\ w.upTo \in Nat /\ RecordInv'
    <3>1. w # NoFlush
      BY <1>1 DEF NoFlush
    <3> QED BY <1>1, <1>8, <3>1, FlushCovers
  <2>2. \A d \in Docs : Comes(p, d)' = Comes(p, d)
    <3>1. \A d \in Docs : Sent(p, d) = index[d]
      BY <1>1 DEF Sent, Unsent
    <3>2. \A d \in Docs : Sent(p, d)' = index[d]
      BY <1>1, <1>6 DEF Sent, Unsent, NoFlush
    <3> QED BY <1>4, <1>6, <2>1, <3>1, <3>2 DEF Comes
  <2>3. StreamInv(p)'
    <3>1. CASE w.wakes
      <4>1. f.doing = "wait"
        BY <2>1, <3>1 DEF FlushInv
      <4>2. Reach(f) = f.change.at /\ Reach(g) = f.change.at
        BY <1>4, <3>1, <4>1 DEF Reach
      <4> QED BY <1>1, <1>2, <1>4, <1>6, <1>7, <2>1, <2>2, <3>1, <4>2 DEF StreamInv, FlushInv
    <3>2. CASE ~w.wakes
      <4>1. Reach(g) = Reach(f)
        BY <1>3, <1>4, <3>2 DEF Reach
      <4> QED BY <1>1, <1>3, <1>4, <1>6, <1>7, <2>1, <2>2, <3>2, <4>1 DEF StreamInv, FlushInv
    <3> QED BY <3>1, <3>2
  <2> QED BY <2>1, <2>3
<1>9. index' \in [Docs -> Nat] /\ recorded' \in MaybePoint
  BY <1>1, <1>2 DEF Types
<1> QED BY <1>1, <1>6, <1>8, <1>9, FollowStep

\* A flush fails, and the sync with it.
LEMMA FlushFailsKeeps ==
  ASSUME Types, NEW p \in Processes, FlushFails(p)
  PROVE  Types' /\ (Calm => Calm')
<1> DEFINE f == follow[p]
           failed == [f EXCEPT !.failure = TRUE]
<1>1. /\ flush[p] # NoFlush /\ flush' = [flush EXCEPT ![p] = NoFlush]
      /\ recorded' = recorded \/ (recorded' = flush[p].upTo /\ flush[p].stage = "save")
      /\ UNCHANGED <<log, index, lease, sync, stalled>>
      /\ follow' = IF Following(p) THEN [follow EXCEPT ![p].failure = TRUE] ELSE follow
  BY DEF FlushFails, mongo
<1>2. f \in FollowType /\ flush[p].upTo \in MaybePoint
  BY FollowerTyped
<1>3. failed \in FollowType /\ failed.failure
  BY <1>2 DEF FollowType
<1>4. follow' = IF Following(p) THEN [follow EXCEPT ![p] = failed] ELSE follow
  BY <1>1 DEF Types
<1> HIDE DEF failed
<1>5. /\ follow' \in [Processes -> FollowType] /\ (Following(p) => follow'[p] = failed)
      /\ flush' \in [Processes -> FlushType] /\ flush'[p] = NoFlush
      /\ \A q \in Processes \ {p} : flush'[q] = flush[q]
  BY <1>1, <1>3, <1>4, NoneTyped DEF Types
<1>6. Calm => Following(p) /\ RecordInv'
  BY <1>1, FlushCovers
<1>7. index' \in [Docs -> Nat] /\ recorded' \in MaybePoint
  BY <1>1, <1>2 DEF Types
<1> QED BY <1>1, <1>3, <1>5, <1>6, <1>7, FollowStep

-----------------------------------------------------------------------------

(***************************************************************************)
(* The invariant, and what follows from it.                                *)
(***************************************************************************)

\* The first state.
LEMMA SyncStarts == Init => SyncInv
<1> SUFFICES ASSUME Init PROVE SyncInv
  OBVIOUS
<1>1. LogTyped /\ Now = 0
  BY DEF Init, LogTyped, Now
<1>2. Types
  BY <1>1, NoneTyped, SearchSyncAssumption
  DEF Init, Types, Free, Nothing, MaybePoint
<1>3. \A p \in Processes : Idle(p) /\ ~sync[p].lost
  BY DEF Init, Idle, Is, NoSync
<1>4. LeaseInv
  BY <1>3 DEF Init, LeaseInv, Idle, Is, Free
<1>5. RecordInv
  BY DEF Init, RecordInv
<1>6. \A p \in Processes : CallInv(p) /\ FollowInv(p)
  BY <1>3, IdleOwes
<1> QED BY <1>2, <1>4, <1>5, <1>6 DEF SyncInv, Calm

\* Each step of a process keeps the invariant.
LEMMA ProgressKeeps ==
  ASSUME Types, NEW p \in Processes, Progress(p)
  PROVE  Types' /\ (Calm => Calm')
<1>1. CASE StartStep(p)
  BY <1>1, ReadStateKeeps, CurrentTokenKeeps, ReadPageKeeps, SendPageKeeps, ConfirmsKeep,
     RemoveUnwantedKeeps, RecordReindexKeeps, OpenKeeps DEF StartStep
<1>2. CASE Invalidated(p) \/ ClosesOnFailure(p)
  BY <1>2, StopsKeep DEF Invalidated, ClosesOnFailure
<1>3. CASE FlushStep(p)
  BY <1>3, FlushBeginsKeeps, SendsKeep, SavesKeep DEF FlushStep
<1> QED BY <1>1, <1>2, <1>3, HearKeeps, QuietKeeps, HandledKeeps, EndsKeep, ClearStateKeeps, LeavesKeep
    DEF Progress

\* See above.
LEMMA FaultKeeps ==
  ASSUME Types, NEW p \in Processes, Fault(p), ~BreaksMidFlush
  PROVE  Types' /\ (Calm => Calm')
BY CallFailsKeeps, EndsKeep, FlushFailsKeeps, LeavesKeep DEF Fault

\* Once a live process has stalled, nothing is claimed any more.
LEMMA StalledStays ==
  ASSUME NEW p \in Processes, Start(p) \/ Reindex(p) \/ Renew(p) \/ Progress(p) \/ Close(p) \/ Fault(p)
  PROVE  stalled' = stalled
<1>1. CASE Start(p) \/ Reindex(p) \/ Renew(p) \/ Close(p)
  BY <1>1 DEF Start, Reindex, Acquire, Renew, Close, streamless
<1>2. CASE Fault(p)
  BY <1>2 DEF Fault, CallFails, StreamFails, EndsByError, FlushFails, LetGoFails, Crash, streamless
<1>3. CASE Progress(p)
  <2>1. CASE StartStep(p)
    BY <2>1 DEF StartStep, ReadState, CurrentToken, ReadPage, SendPage, Confirm, RemoveUnwanted,
       RecordReindex, ReadBack, Open, others
  <2>2. CASE Hear(p) \/ Invalidated(p) \/ Quiet(p) \/ Handled(p)
    BY <2>2 DEF Hear, Invalidated, Quiet, Handled, streamless
  <2>3. CASE FlushStep(p)
    BY <2>3 DEF FlushStep, FlushBegins, Adds, Deletes, Send, Saves, streamless
  <2>4. CASE HandleRefuses(p) \/ ClosesOnFailure(p) \/ Settles(p) \/ ClearState(p) \/ LetGo(p)
    BY <2>4 DEF HandleRefuses, EndsByError, ClosesOnFailure, Settles, ClearState, LetGo, streamless, others
  <2> QED BY <1>3, <2>1, <2>2, <2>3, <2>4 DEF Progress
<1> QED BY <1>1, <1>2, <1>3

\* Every step keeps the invariant.
LEMMA SyncStep == ~BreaksMidFlush /\ SyncInv /\ [Next]_vars => SyncInv'
<1> SUFFICES ASSUME ~BreaksMidFlush, SyncInv, [Next]_vars PROVE SyncInv'
  OBVIOUS
<1>1. Types /\ (stalled \/ Calm)
  BY DEF SyncInv
<1>2. SUFFICES Types' /\ (stalled' \/ Calm')
  BY DEF SyncInv
<1>3. CASE Tick
  BY <1>1, <1>3, TickKeeps
<1>4. CASE Trim
  BY <1>1, <1>4, TrimKeeps DEF Trim
<1>5. ASSUME NEW e \in Writes \cup {Other, Drop}, Change(e) PROVE Types' /\ (stalled' \/ Calm')
  <2>1. stalled' = stalled
    BY <1>5 DEF Change
  <2> QED BY <1>1, <1>5, <2>1, ChangeKeeps
<1>6. ASSUME NEW p \in Processes,
             Start(p) \/ Reindex(p) \/ Renew(p) \/ Progress(p) \/ Close(p) \/ Fault(p)
      PROVE  Types' /\ (stalled' \/ Calm')
  <2>1. stalled' = stalled
    BY <1>6, StalledStays
  <2>2. CASE Start(p)
    BY <1>1, <2>1, <2>2, AcquireKeeps DEF Start
  <2>3. CASE Reindex(p)
    BY <1>1, <2>1, <2>3, AcquireKeeps DEF Reindex
  <2>4. CASE Close(p)
    BY <1>1, <2>1, <2>4, StopsKeep DEF Close
  <2> QED BY <1>1, <1>6, <2>1, <2>2, <2>3, <2>4, RenewKeeps, ProgressKeeps, FaultKeeps
<1>7. CASE UNCHANGED vars
  <2>1. UNCHANGED <<log, index, recorded, lease, sync, follow, flush, stalled>>
    BY <1>7 DEF vars
  <2>2. LeaseTyped' /\ lease'.holder = lease.holder
    BY <1>1, <2>1 DEF Types, LeaseTyped
  <2>3. Calm => (lease'.holder # None => lease'.left > 0)
    BY <2>1 DEF Calm, LeaseInv
  <2>4. Types'
    BY <1>1, <2>1, SinceKept DEF Types
  <2> QED BY <1>1, <2>1, <2>2, <2>3, <2>4, LeaseStep
<1> QED BY <1>3, <1>4, <1>5, <1>6, <1>7 DEF Next

\* In calm only the holder writes, and the index covers the recorded point.
LEMMA SyncMeans == SyncInv => OneWriter /\ NothingSkipped
<1> SUFFICES ASSUME SyncInv, ~stalled PROVE OneWriter /\ NothingSkipped
  BY DEF OneWriter, NothingSkipped
<1>1. Types /\ Calm
  BY DEF SyncInv
<1>2. ASSUME NEW p \in Processes, Writing(p) PROVE Holds(p)
  BY <1>1, <1>2 DEF Calm, LeaseInv, Writing, Following, Is
<1>3. ASSUME recorded # None, NEW d \in Docs PROVE \E n \in recorded .. Now : index[d] = VersionAt(d, n)
  <2>1. recorded \in Nat /\ index[d] \in Since[d][recorded]
    BY <1>1, <1>3 DEF Types, MaybePoint, Calm, RecordInv
  <2> QED BY <1>1, <2>1, SinceIs DEF Types
<1> QED BY <1>2, <1>3 DEF OneWriter, NothingSkipped

\* Where no stream breaks during a flush (run/follow.ts: settle lets the lease
\* go at once when it does), the invariant holds of every state.
THEOREM SyncInvariance == ~BreaksMidFlush => (Spec => []SyncInv)
<1>1. ~BreaksMidFlush /\ SyncInv /\ [Next]_vars => SyncInv'
  BY SyncStep
<1> SUFFICES ASSUME ~BreaksMidFlush PROVE Spec => []SyncInv
  OBVIOUS
<1>2. SyncInv /\ [Next]_vars => SyncInv'
  BY <1>1
<1> QED BY <1>2, SyncStarts, PTL DEF Spec

\* Only the lease's holder sends to the index, removes from it or records a
\* point (run/lease.ts, sync/start.ts).
THEOREM OneWriterHolds == ~BreaksMidFlush => (Spec => []OneWriter)
BY SyncInvariance, SyncMeans, PTL

\* The recorded point never runs ahead of the index (run/follow.ts: flush,
\* run/reindex.ts: reindexHeld).
THEOREM NothingSkippedHolds == ~BreaksMidFlush => (Spec => []NothingSkipped)
BY SyncInvariance, SyncMeans, PTL
=============================================================================
