------------------------- MODULE RotationPlanProofs -------------------------
(***************************************************************************)
(* What the rotation's plan keeps, for every set of backups and policy:    *)
(* what a rule may not take stays, and so does whatever a kept backup      *)
(* builds on.  The plan is two recursive functions - the chain of a        *)
(* backup, and what the size rule drops turn by turn -, so that induction  *)
(* over the numbers comes first.                                           *)
(***************************************************************************)
EXTENDS RotationPlan, FiniteSetTheorems, WellFoundedInduction, TLAPS

(***************************************************************************)
(* Induction                                                               *)
(***************************************************************************)

\* Of some numbers one is the least: the intervals up to them are finite sets,
\* which the strict subset relation orders well.
LEMMA LeastNumber ==
  ASSUME NEW T \in SUBSET Nat, T # {}
  PROVE  \E m \in T : \A n \in T : m <= n
<1> DEFINE R == StrictSubsetOrdering(Nat)
           U == {1 .. n : n \in T}
<1>1. IsWellFoundedOn(R, FiniteSubsetsOf(Nat))
  BY FS_StrictSubsetOrderingWellFounded
<1>2. U \subseteq FiniteSubsetsOf(Nat) /\ U # {}
  <2>1. \A n \in Nat : 1 .. n \in FiniteSubsetsOf(Nat)
    BY FS_Interval DEF FiniteSubsetsOf
  <2> QED BY <2>1
<1>3. \E x \in U : \A y \in U : ~ (<<y, x>> \in R)
  <2> HIDE DEF R, U
  <2> QED BY <1>1, <1>2, WFMin
<1>4. PICK m \in T : \A n \in T : ~ (<<1 .. n, 1 .. m>> \in R)
  BY <1>3
<1>5. ASSUME NEW n \in T, n < m PROVE <<1 .. n, 1 .. m>> \in R
  <2>1. 1 .. n \subseteq 1 .. m /\ m \in 1 .. m /\ m \notin 1 .. n
    BY <1>5
  <2>2. 1 .. n \in SUBSET Nat /\ 1 .. m \in SUBSET Nat
    OBVIOUS
  <2> QED BY <2>1, <2>2 DEF StrictSubsetOrdering
<1> HIDE DEF R, U
<1>6. \A n \in T : m <= n
  <2> TAKE n \in T
  <2> SUFFICES ASSUME n < m PROVE FALSE
    OBVIOUS
  <2> QED BY <1>4, <1>5
<1> QED BY <1>6

\* Numbers among which are zero and the next of each are all of them.
LEMMA AllNumbers ==
  ASSUME NEW P \in SUBSET Nat, 0 \in P, \A n \in P : n + 1 \in P
  PROVE  P = Nat
<1> SUFFICES ASSUME Nat \ P # {} PROVE FALSE
  OBVIOUS
<1>1. PICK m \in Nat \ P : \A n \in Nat \ P : m <= n
  BY LeastNumber
<1>2. m - 1 \in P
  BY <1>1
<1> QED BY <1>1, <1>2

\* A function of the numbers may be given by its first value and by each value
\* from the one before.
LEMMA Recursion ==
  ASSUME NEW S, NEW first \in S, NEW step \in [S -> S]
  PROVE  \E f \in [Nat -> S] : f[0] = first /\ \A n \in Nat : f[n + 1] = step[f[n]]
<1> DEFINE Upto(n) == {g \in [0 .. n -> S] :
                         g[0] = first /\ \A k \in 0 .. n - 1 : g[k + 1] = step[g[k]]}
           Are == {n \in Nat : Upto(n) # {}}
<1>1. 0 \in Are
  <2>1. [k \in 0 .. 0 |-> first] \in Upto(0)
    OBVIOUS
  <2> QED BY <2>1
<1>2. ASSUME NEW n \in Nat, NEW g \in Upto(n)
      PROVE  [k \in 0 .. n + 1 |-> IF k = n + 1 THEN step[g[n]] ELSE g[k]] \in Upto(n + 1)
  <2> DEFINE h == [k \in 0 .. n + 1 |-> IF k = n + 1 THEN step[g[n]] ELSE g[k]]
  <2>1. g \in [0 .. n -> S] /\ g[0] = first /\ \A k \in 0 .. n - 1 : g[k + 1] = step[g[k]]
    OBVIOUS
  <2>2. h \in [0 .. n + 1 -> S] /\ h[0] = first
    BY <2>1
  <2>3. ASSUME NEW k \in 0 .. (n + 1) - 1 PROVE h[k + 1] = step[h[k]]
    <3>1. h[k] = g[k] /\ k \in Nat
      OBVIOUS
    <3>2. CASE k = n
      <4>1. h[k + 1] = step[g[n]]
        BY <3>2
      <4> QED BY <4>1, <3>1, <3>2
    <3>3. CASE k # n
      <4>1. k \in 0 .. n - 1 /\ k + 1 # n + 1 /\ k + 1 \in 0 .. n + 1
        BY <3>3
      <4>2. h[k + 1] = g[k + 1]
        BY <4>1
      <4> HIDE DEF h
      <4> QED BY <2>1, <4>1, <4>2, <3>1
    <3> QED BY <3>2, <3>3
  <2> HIDE DEF h
  <2>4. h \in Upto(n + 1)
    BY <2>2, <2>3
  <2> QED BY <2>4 DEF h
<1>3. Are = Nat
  <2>1. ASSUME NEW n \in Are PROVE n + 1 \in Are
    <3>1. PICK g : g \in Upto(n)
      OBVIOUS
    <3>2. n \in Nat /\ n + 1 \in Nat
      OBVIOUS
    <3> HIDE DEF Upto
    <3>3. Upto(n + 1) # {}
      BY <1>2, <3>1, <3>2
    <3> QED BY <3>2, <3>3
  <2>2. Are \in SUBSET Nat
    OBVIOUS
  <2> HIDE DEF Are
  <2> QED BY <1>1, <2>1, <2>2, AllNumbers
<1>4. ASSUME NEW n \in Nat, NEW g \in Upto(n), NEW h \in Upto(n)
      PROVE  \A k \in 0 .. n : g[k] = h[k]
  <2> DEFINE Same == {k \in Nat : k \in 0 .. n => g[k] = h[k]}
  <2>1. 0 \in Same
    OBVIOUS
  <2>2. ASSUME NEW k \in Same PROVE k + 1 \in Same
    <3>1. CASE k + 1 \in 0 .. n
      <4>1. k \in 0 .. n - 1 /\ k \in 0 .. n
        BY <3>1
      <4>2. g[k + 1] = step[g[k]] /\ h[k + 1] = step[h[k]]
        BY <4>1
      <4> QED BY <4>1, <4>2
    <3>2. CASE k + 1 \notin 0 .. n
      BY <3>2
    <3> QED BY <3>1, <3>2
  <2>3. Same \in SUBSET Nat
    OBVIOUS
  <2>4. Same = Nat
    <3> HIDE DEF Same
    <3> QED BY <2>1, <2>2, <2>3, AllNumbers
  <2> QED BY <2>4
<1> DEFINE of(n) == CHOOSE g : g \in Upto(n)
<1>5. ASSUME NEW n \in Nat PROVE of(n) \in Upto(n)
  <2>1. \E g : g \in Upto(n)
    <3> HIDE DEF Upto
    <3>1. n \in Are
      BY <1>3
    <3> QED BY <3>1
  <2> HIDE DEF Upto
  <2> QED BY <2>1
<1>6. ASSUME NEW n \in Nat, NEW g \in Upto(n + 1) PROVE [k \in 0 .. n |-> g[k]] \in Upto(n)
  OBVIOUS
<1> DEFINE f == [n \in Nat |-> of(n)[n]]
<1>7. ASSUME NEW n \in Nat, NEW g \in Upto(n) PROVE g \in [0 .. n -> S] /\ g[0] = first
  OBVIOUS
<1>8. ASSUME NEW n \in Nat, NEW g \in Upto(n + 1) PROVE g[n + 1] = step[g[n]]
  OBVIOUS
<1> HIDE DEF Upto, of
<1>9. f \in [Nat -> S] /\ f[0] = first
  <2>1. ASSUME NEW n \in Nat PROVE of(n)[n] \in S
    BY <1>5, <1>7
  <2>2. of(0)[0] = first
    BY <1>5, <1>7
  <2> QED BY <2>1, <2>2
<1>10. ASSUME NEW n \in Nat PROVE f[n + 1] = step[f[n]]
  <2>1. of(n + 1) \in Upto(n + 1)
    BY <1>5
  <2>2. of(n + 1)[n + 1] = step[of(n + 1)[n]]
    BY <2>1, <1>8
  <2>3. [k \in 0 .. n |-> of(n + 1)[k]][n] = of(n)[n]
    BY <2>1, <1>4, <1>5, <1>6
  <2>4. of(n + 1)[n] = of(n)[n]
    BY <2>3
  <2>5. f[n + 1] = of(n + 1)[n + 1] /\ f[n] = of(n)[n]
    OBVIOUS
  <2> QED BY <2>2, <2>4, <2>5
<1> QED BY <1>9, <1>10

(***************************************************************************)
(* Chains                                                                  *)
(***************************************************************************)

\* The candidate a candidate builds on comes before it.
BuildsOn(c, i) == c[i].parent \in DOMAIN c /\ c[i].parent < i

ClosedIn(c, T) == \A i \in T : BuildsOn(c, i) => c[i].parent \in T

\* The smallest closed sets about each candidate are its chain, so there is one.
LEMMA ChainEquation ==
  ASSUME NEW c, NEW i \in DOMAIN c
  PROVE  ChainOf(c)[i] = {i} \cup IF BuildsOn(c, i) THEN ChainOf(c)[c[i].parent] ELSE {}
<1> DEFINE D == DOMAIN c
           Body(f) == [j \in D |-> {j} \cup IF c[j].parent \in D /\ c[j].parent < j
                                            THEN f[c[j].parent] ELSE {}]
           Around(j) == {T \in SUBSET D : j \in T /\ ClosedIn(c, T)}
           W == [j \in D |-> {k \in D : \A T \in Around(j) : k \in T}]
<1>1. \A j \in D : j \in W[j] /\ W[j] \in Around(j)
  BY DEF ClosedIn, BuildsOn
<1>2. ASSUME NEW j \in D PROVE W[j] = Body(W)[j]
  <2>1. CASE ~BuildsOn(c, j)
    <3>1. {j} \in Around(j)
      BY <2>1 DEF ClosedIn
    <3>2. W[j] = {j}
      BY <3>1, <1>1
    <3> QED BY <3>2, <2>1 DEF BuildsOn
  <2>2. CASE BuildsOn(c, j)
    <3> DEFINE p == c[j].parent
    <3>1. p \in D /\ p \in W[p] /\ W[p] \in Around(p)
      BY <2>2, <1>1 DEF BuildsOn
    <3>2. {j} \cup W[p] \in Around(j)
      BY <3>1 DEF ClosedIn
    <3>3. W[j] \subseteq {j} \cup W[p]
      BY <3>2
    <3>4. W[j] \in Around(p)
      BY <1>1, <2>2 DEF ClosedIn, BuildsOn
    <3>5. W[p] \subseteq W[j]
      BY <3>1, <3>4
    <3>6. W[j] = {j} \cup W[p]
      BY <3>3, <3>5, <1>1
    <3> QED BY <3>6, <2>2 DEF BuildsOn
  <2> QED BY <2>1, <2>2
<1>3. W = Body(W)
  BY <1>2
<1>4. ChainOf(c) = CHOOSE f : f = Body(f)
  BY DEF ChainOf
<1> HIDE DEF Body, W
<1>5. ChainOf(c) = Body(ChainOf(c))
  BY <1>3, <1>4
<1> USE DEF Body
<1> QED BY <1>5 DEF BuildsOn

\* The chain of a backup holds it, and whatever its members build on.
LEMMA ChainClosed ==
  ASSUME NEW c, DOMAIN c \subseteq Nat, NEW i \in DOMAIN c
  PROVE  i \in ChainOf(c)[i] /\ ChainOf(c)[i] \subseteq DOMAIN c /\ ClosedIn(c, ChainOf(c)[i])
<1> DEFINE D == DOMAIN c
           Good(j) == ChainOf(c)[j] \subseteq D /\ ClosedIn(c, ChainOf(c)[j])
           Bad == {j \in D : ~Good(j)}
<1>1. \A j \in D : j \in ChainOf(c)[j]
  BY ChainEquation
<1>2. Bad = {}
  <2> SUFFICES ASSUME Bad # {} PROVE FALSE
    OBVIOUS
  <2>1. PICK j \in Bad : \A k \in Bad : j <= k
    <3>1. Bad \in SUBSET Nat
      OBVIOUS
    <3> HIDE DEF Bad
    <3> QED BY <3>1, LeastNumber
  <2>2. j \in D /\ j \in Nat
    OBVIOUS
  <2>3. CASE ~BuildsOn(c, j)
    <3>1. ChainOf(c)[j] = {j}
      BY <2>2, <2>3, ChainEquation
    <3>2. Good(j)
      BY <3>1, <2>2, <2>3 DEF ClosedIn
    <3> QED BY <3>2
  <2>4. CASE BuildsOn(c, j)
    <3> DEFINE p == c[j].parent
    <3>1. p \in D /\ p < j /\ p \in Nat
      BY <2>4 DEF BuildsOn
    <3>2. Good(p)
      BY <3>1, <2>1, <2>2
    <3>3. ChainOf(c)[j] = {j} \cup ChainOf(c)[p] /\ p \in ChainOf(c)[p]
      BY <2>2, <2>4, <3>1, <1>1, ChainEquation
    <3>4. Good(j)
      BY <3>2, <3>3, <2>2 DEF ClosedIn
    <3> QED BY <3>4
  <2> QED BY <2>3, <2>4
<1> QED BY <1>1, <1>2

\* With every backup they build on, and nothing that is not a candidate.
LEMMA WithParentsClosed ==
  ASSUME NEW c, DOMAIN c \subseteq Nat, NEW roots \in SUBSET DOMAIN c
  PROVE  /\ roots \subseteq WithParents(c, roots)
         /\ WithParents(c, roots) \subseteq DOMAIN c
         /\ ClosedIn(c, WithParents(c, roots))
<1>1. \A i \in roots : i \in ChainOf(c)[i] /\ ChainOf(c)[i] \subseteq DOMAIN c /\ ClosedIn(c, ChainOf(c)[i])
  BY ChainClosed
<1> QED BY <1>1 DEF WithParents, ClosedIn

(***************************************************************************)
(* What the size rule drops                                                *)
(***************************************************************************)

\* What the size rule never drops.
Spared(c, p) == FirstOf(Past(c), IF p.last = Off THEN 1 ELSE p.last)
                  \cup {i \in DOMAIN c : c[i].held \/ c[i].age < 0}

\* The oldest of some backups is one of them.
LEMMA OldestOf ==
  ASSUME NEW ids \in SUBSET Nat, ids # {}
  PROVE  Oldest(ids) \in ids
BY LeastNumber DEF Oldest

\* The size rule drops nothing the last rule keeps, no hold and no backup of the future.
LEMMA DropsNoSpared ==
  ASSUME NEW c, NEW p, DOMAIN c \subseteq Nat, IsFiniteSet(DOMAIN c)
  PROVE  Dropped(c, p) \subseteq DOMAIN c \ Spared(c, p)
<1> DEFINE D == DOMAIN c
           Kep(d) == WithParents(c, ByRules(c, p) \ d)
           Next(d) == Droppable(c, p, Kep(d))
           Turn(d) == IF TooLarge(c, p, Kep(d)) /\ Next(d) # {} THEN d \cup {Oldest(Next(d))} ELSE d
           Body(f) == [n \in Nat |-> IF n = 0 THEN {} ELSE Turn(f[n - 1])]
           S == SUBSET (D \ Spared(c, p))
<1>1. ByRules(c, p) \subseteq D
  BY DEF ByRules, FirstOf, Past, NewestPerPeriod
<1>2. ASSUME NEW d \in S PROVE Turn(d) \in S
  <2>1. Kep(d) \subseteq D
    BY <1>1, WithParentsClosed
  <2>2. Next(d) \subseteq D \ Spared(c, p)
    BY <2>1 DEF Droppable, Spared
  <2>3. Next(d) # {} => Oldest(Next(d)) \in Next(d)
    BY <2>2, OldestOf
  <2> HIDE DEF Next, Kep
  <2> QED BY <2>2, <2>3
<1> HIDE DEF Turn
<1>3. PICK f \in [Nat -> S] : f[0] = {} /\ \A n \in Nat : f[n + 1] = Turn(f[n])
  <2> DEFINE step == [d \in S |-> Turn(d)]
  <2>1. step \in [S -> S] /\ {} \in S
    BY <1>2
  <2>2. \A d \in S : step[d] = Turn(d)
    OBVIOUS
  <2> HIDE DEF step, S
  <2>3. PICK f \in [Nat -> S] : f[0] = {} /\ \A n \in Nat : f[n + 1] = step[f[n]]
    BY <2>1, Recursion
  <2> QED BY <2>2, <2>3
<1>4. f = Body(f)
  <2>1. ASSUME NEW n \in Nat PROVE f[n] = IF n = 0 THEN {} ELSE Turn(f[n - 1])
    <3>1. CASE n = 0
      BY <3>1, <1>3
    <3>2. CASE n # 0
      <4>1. n - 1 \in Nat /\ (n - 1) + 1 = n
        BY <3>2
      <4>2. f[(n - 1) + 1] = Turn(f[n - 1])
        BY <4>1, <1>3
      <4> QED BY <4>1, <4>2, <3>2
    <3> QED BY <3>1, <3>2
  <2> HIDE DEF S
  <2> QED BY <2>1, <1>3
<1> DEFINE g == CHOOSE h : h = Body(h)
<1>5. g = Body(g)
  <2> HIDE DEF Body
  <2> QED BY <1>4
<1>6. Dropped(c, p) = g[Cardinality(D)]
  BY DEF Dropped, Turn
<1>7. \A n \in Nat : g[n] = IF n = 0 THEN {} ELSE Turn(g[n - 1])
  <2> HIDE DEF g
  <2> QED BY <1>5
<1> HIDE DEF g, Body, S
<1> DEFINE Fine == {n \in Nat : g[n] \in S}
<1>8. Fine = Nat
  <2>1. 0 \in Fine
    <3>1. {} \in S
      BY DEF S
    <3> QED BY <3>1, <1>7
  <2>2. ASSUME NEW n \in Fine PROVE n + 1 \in Fine
    <3>1. n \in Nat /\ n + 1 \in Nat /\ n + 1 # 0 /\ (n + 1) - 1 = n
      OBVIOUS
    <3>2. g[n + 1] = Turn(g[n])
      BY <3>1, <1>7
    <3> QED BY <3>1, <3>2, <1>2
  <2>3. Fine \in SUBSET Nat
    OBVIOUS
  <2> HIDE DEF Fine
  <2> QED BY <2>1, <2>2, <2>3, AllNumbers
<1>9. Cardinality(D) \in Nat
  BY FS_CardinalityType
<1> QED BY <1>6, <1>8, <1>9 DEF S

(***************************************************************************)
(* What is kept                                                            *)
(***************************************************************************)

\* Whatever the policy, what is not kept is none of what no rule may take; and
\* nothing kept loses what it builds on.
LEMMA KeptKeeps ==
  ASSUME NEW c, NEW p, IsCandidates(c), IsPolicy(p)
  PROVE  LET real == Past(c)
             n    == IF p.last # Off THEN p.last ELSE IF p.maxTotalSize # Off THEN 1 ELSE 0
         IN  /\ Kept(c, p) \subseteq DOMAIN c
             /\ ClosedIn(c, Kept(c, p))
             /\ \A i \in DOMAIN c \ Kept(c, p) :
                  i \in real /\ ~c[i].held /\ Cardinality(NewerOf(real, i)) >= n
<1> DEFINE real == Past(c)
           n == IF p.last # Off THEN p.last ELSE IF p.maxTotalSize # Off THEN 1 ELSE 0
           roots == ByRules(c, p) \ Dropped(c, p)
<1>1. DOMAIN c \subseteq Nat /\ IsFiniteSet(DOMAIN c)
  BY DEF IsCandidates
<1>2. n \in Nat
  BY DEF IsPolicy
<1>3. ByRules(c, p) \subseteq DOMAIN c
  BY DEF ByRules, FirstOf, Past, NewestPerPeriod
<1>4. Dropped(c, p) \cap Spared(c, p) = {}
  BY <1>1, DropsNoSpared
<1>5. /\ roots \subseteq Kept(c, p) /\ Kept(c, p) \subseteq DOMAIN c
      /\ ClosedIn(c, Kept(c, p))
  BY <1>1, <1>3, WithParentsClosed DEF Kept
<1>6. ASSUME NEW i \in DOMAIN c \ Kept(c, p)
      PROVE  i \in real /\ ~c[i].held /\ Cardinality(NewerOf(real, i)) >= n
  <2>1. i \notin ByRules(c, p) \/ i \notin Spared(c, p)
    BY <1>4, <1>5
  <2>2. ~c[i].held /\ ~(c[i].age < 0)
    BY <2>1 DEF ByRules, Spared
  <2>3. i \in real
    BY <2>2 DEF IsCandidates, Past
  <2>4. Cardinality(NewerOf(real, i)) \in Nat
    <3>1. IsFiniteSet(NewerOf(real, i))
      BY <1>1, FS_Subset DEF NewerOf, Past
    <3> QED BY <3>1, FS_CardinalityType
  <2>5. ASSUME Cardinality(NewerOf(real, i)) < n PROVE FALSE
    <3> DEFINE k == Cardinality(NewerOf(real, i))
    <3>1. n # 0 /\ (p.last # Off \/ p.maxTotalSize # Off)
      BY <2>5, <2>4
    <3>2. (IF p.maxTotalSize # Off /\ p.last = Off THEN 1 ELSE Count(p.last)) = n
      BY <3>1 DEF Count
    <3>3. (IF p.last = Off THEN 1 ELSE p.last) = n
      BY <3>1
    <3>4. i \in FirstOf(real, n)
      BY <2>3, <2>5 DEF FirstOf
    <3> HIDE DEF n
    <3>5. i \in ByRules(c, p)
      BY <3>2, <3>4 DEF ByRules
    <3>6. i \in Spared(c, p)
      BY <3>3, <3>4 DEF Spared
    <3> QED BY <2>1, <3>5, <3>6
  <2> HIDE DEF n
  <2> QED BY <2>2, <2>3, <2>4, <2>5, <1>2
<1> QED BY <1>5, <1>6

\* What is held is kept, whatever else is known of it.
LEMMA HeldKept ==
  ASSUME NEW c, NEW p, DOMAIN c \subseteq Nat, IsFiniteSet(DOMAIN c),
         NEW i \in DOMAIN c, c[i].held
  PROVE  i \in Kept(c, p)
<1>1. i \in ByRules(c, p) /\ i \in Spared(c, p)
  BY DEF ByRules, Spared
<1>2. i \notin Dropped(c, p)
  BY <1>1, DropsNoSpared
<1>3. ByRules(c, p) \subseteq DOMAIN c
  BY DEF ByRules, FirstOf, Past, NewestPerPeriod
<1> QED BY <1>1, <1>2, <1>3, WithParentsClosed DEF Kept

\* Whatever is kept is a candidate, and what it builds on is kept.
LEMMA KeptClosed ==
  ASSUME NEW c, NEW p, DOMAIN c \subseteq Nat
  PROVE  Kept(c, p) \subseteq DOMAIN c /\ ClosedIn(c, Kept(c, p))
<1>1. ByRules(c, p) \subseteq DOMAIN c
  BY DEF ByRules, FirstOf, Past, NewestPerPeriod
<1> QED BY <1>1, WithParentsClosed DEF Kept

(***************************************************************************)
(* Orders of removal                                                       *)
(***************************************************************************)

\* How many are newer tells the members of a finite set apart.
LEMMA RanksApart ==
  ASSUME NEW S \in SUBSET Nat, IsFiniteSet(S)
  PROVE  /\ \A i \in S : /\ Cardinality(NewerOf(S, i)) \in Nat
                         /\ Cardinality(NewerOf(S, i)) < Cardinality(S)
         /\ \A i, j \in S : i < j => Cardinality(NewerOf(S, j)) < Cardinality(NewerOf(S, i))
<1>1. \A i \in S : IsFiniteSet(NewerOf(S, i)) /\ Cardinality(NewerOf(S, i)) \in Nat
  BY FS_Subset, FS_CardinalityType DEF NewerOf
<1>2. Cardinality(S) \in Nat
  BY FS_CardinalityType
<1>3. ASSUME NEW i \in S PROVE Cardinality(NewerOf(S, i)) < Cardinality(S)
  <2>1. NewerOf(S, i) \in SUBSET S /\ NewerOf(S, i) # S
    BY DEF NewerOf
  <2>2. /\ Cardinality(NewerOf(S, i)) <= Cardinality(S)
        /\ Cardinality(S) # Cardinality(NewerOf(S, i))
    BY <2>1, FS_Subset
  <2> QED BY <2>2, <1>1, <1>2
<1>4. ASSUME NEW i \in S, NEW j \in S, i < j
      PROVE  Cardinality(NewerOf(S, j)) < Cardinality(NewerOf(S, i))
  <2>1. /\ NewerOf(S, j) \in SUBSET NewerOf(S, i)
        /\ NewerOf(S, j) # NewerOf(S, i)
    <3>1. j \in NewerOf(S, i) /\ j \notin NewerOf(S, j)
      BY <1>4 DEF NewerOf
    <3>2. \A k \in NewerOf(S, j) : k \in NewerOf(S, i)
      BY <1>4 DEF NewerOf
    <3> QED BY <3>1, <3>2
  <2>2. /\ Cardinality(NewerOf(S, j)) <= Cardinality(NewerOf(S, i))
        /\ Cardinality(NewerOf(S, i)) # Cardinality(NewerOf(S, j))
    BY <2>1, <1>1, FS_Subset
  <2> QED BY <2>2, <1>1
<1> QED BY <1>1, <1>3, <1>4

\* NewestFirst lists the whole set, and before each member what is newer.
LEMMA NewestFirstLists ==
  ASSUME NEW S \in SUBSET Nat, IsFiniteSet(S)
  PROVE  /\ Cardinality(S) \in Nat
         /\ NewestFirst(S) \in [1 .. Cardinality(S) -> S]
         /\ \A m \in 1 .. Cardinality(S) : \A k \in S :
              k > NewestFirst(S)[m] => \E n \in 1 .. m - 1 : NewestFirst(S)[n] = k
<1> DEFINE rank == [i \in S |-> Cardinality(NewerOf(S, i))]
           N == Cardinality(S)
           place == [i \in S |-> rank[i] + 1]
<1>1. N \in Nat
  BY FS_CardinalityType
<1>2. \A i \in S : rank[i] \in Nat /\ rank[i] < N
  BY RanksApart
<1>3. \A i, j \in S : i < j => rank[j] < rank[i]
  BY RanksApart
<1>4. NewestFirst(S) = [n \in 1 .. N |-> CHOOSE i \in S : rank[i] = n - 1]
  BY DEF NewestFirst
<1> HIDE DEF rank, N
<1>5. place \in Injection(S, 1 .. N)
  <2>1. place \in [S -> 1 .. N]
    BY <1>1, <1>2
  <2>2. \A i, j \in S : place[i] = place[j] => i = j
    <3> SUFFICES ASSUME NEW i \in S, NEW j \in S, place[i] = place[j] PROVE i = j
      OBVIOUS
    <3>1. rank[i] = rank[j]
      BY <1>2
    <3>2. ~(i < j) /\ ~(j < i)
      BY <3>1, <1>2, <1>3
    <3> QED BY <3>2
  <2> HIDE DEF place
  <2> QED BY <2>1, <2>2 DEF Injection, IsInjective
<1>6. place \in Surjection(S, 1 .. N)
  <2>1. IsFiniteSet(1 .. N) /\ Cardinality(1 .. N) = N
    BY <1>1, FS_Interval
  <2>2. Cardinality(S) = Cardinality(1 .. N)
    BY <2>1 DEF N
  <2> HIDE DEF place
  <2> QED BY <1>5, <2>1, <2>2, FS_Injection
<1>7. ASSUME NEW n \in 1 .. N PROVE NewestFirst(S)[n] \in S /\ rank[NewestFirst(S)[n]] = n - 1
  <2>1. PICK i \in S : place[i] = n
    <3> HIDE DEF place
    <3> QED BY <1>6 DEF Surjection
  <2>2. rank[i] = n - 1
    BY <2>1, <1>2
  <2>3. NewestFirst(S)[n] = CHOOSE j \in S : rank[j] = n - 1
    BY <1>4
  <2> QED BY <2>2, <2>3
<1>8. ASSUME NEW m \in 1 .. N, NEW k \in S, k > NewestFirst(S)[m]
      PROVE  \E n \in 1 .. m - 1 : NewestFirst(S)[n] = k
  <2>1. NewestFirst(S)[m] \in S /\ rank[NewestFirst(S)[m]] = m - 1
    BY <1>7
  <2>2. rank[k] < m - 1 /\ rank[k] \in Nat
    BY <2>1, <1>2, <1>3, <1>8
  <2> DEFINE n == rank[k] + 1
  <2>3. n \in 1 .. m - 1 /\ n \in 1 .. N /\ n - 1 = rank[k]
    BY <2>2, <1>1, <1>2
  <2>4. NewestFirst(S)[n] \in S /\ rank[NewestFirst(S)[n]] = rank[k]
    <3> HIDE DEF n
    <3> QED BY <2>3, <1>7
  <2>5. NewestFirst(S)[n] = k
    <3> DEFINE j == NewestFirst(S)[n]
    <3>1. j \in S /\ rank[j] = rank[k]
      BY <2>4
    <3> HIDE DEF j
    <3>2. ~(j < k) /\ ~(k < j)
      BY <3>1, <1>2, <1>3
    <3>3. j = k
      BY <3>1, <3>2
    <3> QED BY <3>3 DEF j
  <2> HIDE DEF n
  <2> QED BY <2>3, <2>5
<1>9. NewestFirst(S) \in [1 .. N -> S]
  BY <1>4, <1>7
<1>10. \A m \in 1 .. N : \A k \in S :
         k > NewestFirst(S)[m] => \E n \in 1 .. m - 1 : NewestFirst(S)[n] = k
  BY <1>8
<1> QED BY <1>1, <1>9, <1>10 DEF N
=============================================================================
