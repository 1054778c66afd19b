----------------------------- MODULE RateLimit ------------------------------
(***************************************************************************)
(* A rate limit: one key of Redis, and the script that checks and counts   *)
(* in it.  A request is Unit ticks, a full bucket Tolerance of them, and a *)
(* microsecond drains Limit.  Time is that of a server: after a failover   *)
(* it may go back, or on, by what the clocks of two servers disagree.      *)
(*                                                                         *)
(* Numbers are exact: defineRateLimit refuses a tolerance above 2^53 - 1   *)
(* ticks, and the script corrects each division by a step.  A string this  *)
(* script could not have written is left out.  A check whose time is over  *)
(* is still on its way: that its caller stopped waiting changes nothing    *)
(* here, and a later check of that caller is another.                      *)
(***************************************************************************)
EXTENDS Integers

CONSTANTS
  Limit,     \* requests
  Per,       \* in so many milliseconds
  Burst,     \* requests at once
  Thousand,  \* microseconds in a millisecond
  Skew,      \* by how much two servers' clocks disagree at most
  Checks,    \* the checks on their way at once
  MaxElapsed \* how long is watched

Unit == Per * Thousand

Tolerance == Burst * Unit

\* The least whole number of b's that makes a.
CeilDiv(a, b) == (a + b - 1) \div b

\* A state is used only where its base is ahead by at most a full refill: two
\* servers may disagree by as much.
ASSUME RateAssumption ==
  /\ {Limit, Per, Burst, Thousand} \subseteq Nat \ {0} /\ MaxElapsed \in Nat
  /\ Skew \in Nat /\ Skew <= CeilDiv(Tolerance, Limit)

VARIABLES
  elapsed, \* microseconds that passed
  ahead,   \* by how much the clock of the server at work is ahead of the slowest
  bucket,  \* the key: its two integers, and the last millisecond it is there
  check,   \* what each check on its way asks
  spent    \* over the stretch of time, ending now, where most was allowed beside
           \* what drained in it: that much, in ticks

limitVars == <<elapsed, ahead, bucket, check, spent>>

Empty == [base |-> 0, level |-> 0, until |-> -1]

NoCheck == [sent |-> FALSE, cost |-> 0, write |-> FALSE]

LimitInit ==
  /\ elapsed = 0 /\ ahead \in 0 .. Skew
  /\ bucket = Empty /\ spent = 0
  /\ check = [c \in Checks |-> NoCheck]

\* TIME of the server at work, in microseconds.
Time == elapsed + ahead

\* Redis gives a key until the millisecond of its expiry is over.
Alive(now) == bucket.until >= now \div Thousand

\* A state this script could have written.
Sound(now) ==
  Alive(now) /\ bucket.level <= Tolerance
    /\ bucket.base - now <= CeilDiv(Tolerance, Limit)

\* Ticks to milliseconds.
Ms(ticks) == CeilDiv(CeilDiv(ticks, Limit), Thousand)

\* The latest time the bucket has seen.
Base(now) == IF Sound(now) /\ bucket.base > now THEN bucket.base ELSE now

\* A mistake: a clock that went back counts the time until base again.
BadFilled(now) ==
  LET gap == IF now > bucket.base THEN now - bucket.base ELSE bucket.base - now
  IN  IF Sound(now) /\ gap * Limit < bucket.level THEN bucket.level - gap * Limit ELSE 0

\* What is left of the level once the time since base has drained it.
Filled(now) ==
  LET drained == IF now > bucket.base THEN (now - bucket.base) * Limit ELSE 0
  IN  IF Sound(now) /\ drained < bucket.level THEN bucket.level - drained ELSE 0

\* A mistake: the wait until this server's clock reaches base is left out.
BadLag(now) == 0

\* How far base is ahead of this server's clock, in milliseconds.
Lag(now) == CeilDiv(Base(now) - now, Thousand)

Fits(cost, now) == cost * Unit <= Tolerance - Filled(now)

Remaining(cost, now) ==
  (Tolerance - Filled(now) - (IF Fits(cost, now) THEN cost * Unit ELSE 0)) \div Unit

\* The level after a call: the next one that is allowed starts there.
LevelAfter(cost, now) == Filled(now) + (IF Fits(cost, now) THEN cost * Unit ELSE 0)

ResetAfter(cost, now) == Ms(LevelAfter(cost, now)) + Lag(now)

RetryAfter(cost, now) ==
  IF Fits(cost, now) THEN 0 ELSE Ms(cost * Unit - (Tolerance - Filled(now))) + Lag(now)

-----------------------------------------------------------------------------

\* consume and enforce count a cost of 1 or more, peek counts nothing.
Ask(c, cost, write) ==
  /\ ~check[c].sent /\ (write => cost >= 1)
  /\ check' = [check EXCEPT ![c] = [sent |-> TRUE, cost |-> cost, write |-> write]]
  /\ UNCHANGED <<elapsed, ahead, bucket, spent>>

\* The script runs, awaited or not: a denial and a peek write nothing.
RunScript(c) ==
  LET cost == check[c].cost
      counts == Fits(cost, Time) /\ check[c].write /\ cost > 0
  IN  /\ check[c].sent
      /\ check' = [check EXCEPT ![c] = NoCheck]
      /\ bucket' = IF counts
                   THEN [base |-> Base(Time), level |-> LevelAfter(cost, Time),
                         until |-> Time \div Thousand + ResetAfter(cost, Time)]
                   ELSE bucket
      /\ spent' = IF counts THEN spent + cost * Unit ELSE spent
      /\ UNCHANGED <<elapsed, ahead>>

\* The command never reaches the server.
NeverSent(c) ==
  /\ check[c].sent /\ check' = [check EXCEPT ![c] = NoCheck]
  /\ UNCHANGED <<elapsed, ahead, bucket, spent>>

\* reset forgets what was counted.
Reset ==
  /\ bucket' = Empty /\ spent' = 0
  /\ UNCHANGED <<elapsed, ahead, check>>

\* Another server takes over, with the key and a clock of its own.
Failover ==
  /\ ahead' \in 0 .. Skew
  /\ UNCHANGED <<elapsed, bucket, check, spent>>

LimitTick ==
  /\ elapsed < MaxElapsed /\ elapsed' = elapsed + 1
  /\ spent' = IF spent > Limit THEN spent - Limit ELSE 0
  /\ UNCHANGED <<ahead, bucket, check>>

LimitNext ==
  \/ \E c \in Checks, cost \in 0 .. Burst, write \in BOOLEAN : Ask(c, cost, write)
  \/ \E c \in Checks : RunScript(c) \/ NeverSent(c)
  \/ Reset \/ Failover \/ LimitTick

LimitSpec == LimitInit /\ [][LimitNext]_limitVars

-----------------------------------------------------------------------------

\* The clocks, the key and the checks are ones the code can hold.
LimitTypeOK ==
  /\ elapsed \in Nat /\ ahead \in 0 .. Skew
  /\ bucket \in [base : Nat, level : 0 .. Tolerance, until : Int]
  /\ check \in [Checks -> [sent : BOOLEAN, cost : 0 .. Burst, write : BOOLEAN]]
  /\ spent \in Nat

\* Over any stretch of time no more is allowed than a burst and what the rate
\* gives for as long, and for the time the servers' clocks disagree, once,
\* however often another takes over and whenever the key expires (gcra.ts: a
\* failover "cannot count one stretch of time twice").
NeverOver == spent <= Tolerance + Limit * Skew

\* What an answer says holds of the next call: a cost of what remains is
\* allowed and no greater one; where nothing else is counted, the same call is
\* allowed once retryAfter is over, and the bucket is full after resetAfter
\* (gcra.ts: "rounded up so that waiting that long is always enough").
AnswersHold ==
  \A cost \in 0 .. Burst :
    LET retry == Time + RetryAfter(cost, Time) * Thousand
        full  == Time + ResetAfter(0, Time) * Thousand
    IN  /\ Fits(cost, Time) <=> cost <= Remaining(0, Time)
        /\ Fits(cost, retry)
        /\ Fits(Burst, full)

=============================================================================
