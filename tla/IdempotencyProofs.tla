------------------------- MODULE IdempotencyProofs --------------------------
(***************************************************************************)
(* That the work of two calls overlaps only where the key was taken from   *)
(* one of them, for any number of calls, any lease and any commands lost,  *)
(* late or sent twice.                                                     *)
(*                                                                         *)
(* A call that works, or is about to hear that it may, holds the key       *)
(* (Own): only its own COMPLETE or RELEASE gives it up, and it sends       *)
(* neither before its work ended (Early).  And what the record says, and   *)
(* what a call replays of it, is the result of work that returned for the  *)
(* same request.                                                           *)
(***************************************************************************)
EXTENDS Idempotency, SequenceTheorems, TLAPS

\* Its work did not end yet.
Before == {"new", "taking", "pausing", "working"}

\* Nothing in q gives the key up.
Keeping(q) == \A i \in 1 .. Len(q) : q[i].script \in {"begin", "renew"}

Early(c) == c.phase \in Before => Keeping(c.pipe) /\ Keeping(c.answers)

\* An answer in q says that the key was taken.
Told(q) == \E i \in 1 .. Len(q) : q[i].script = "begin" /\ q[i].what = "started"

Starts(c) == c.phase = "working" \/ (c.phase \in Before /\ Told(c.answers))

\* The call c, of token r, holds the record k where it has to.
Own(k, c, r) == ~c.taken /\ Starts(c) => k.state = "running" /\ k.by = r

IInv ==
  /\ key \in Keys \cup {Free}
  /\ run \in [Runs -> Call]
  /\ \A r \in Runs : Early(run[r]) /\ Own(key, run[r], r)

(***************************************************************************)
(* Sequences of commands and answers                                       *)
(***************************************************************************)

\* What is left of a queue, and what joins it, keep the key if they did.
LEMMA KeepingFacts ==
  ASSUME NEW S, NEW q \in Seq(S)
  PROVE  /\ Keeping(<<>>)
         /\ q # <<>> /\ Keeping(q) => Keeping(Tail(q)) /\ Head(q).script \in {"begin", "renew"}
         /\ \A e \in S : Keeping(q) /\ e.script \in {"begin", "renew"} => Keeping(Append(q, e))
<1>1. Keeping(<<>>)
  BY DEF Keeping
<1>2. ASSUME q # <<>>, Keeping(q)
      PROVE  Keeping(Tail(q)) /\ Head(q).script \in {"begin", "renew"}
  BY <1>2 DEF Keeping
<1>3. ASSUME NEW e \in S, Keeping(q), e.script \in {"begin", "renew"}
      PROVE  Keeping(Append(q, e))
  BY <1>3 DEF Keeping
<1> QED BY <1>1, <1>2, <1>3

\* Nobody is told of the key but by an answer that says so.
LEMMA ToldFacts ==
  ASSUME NEW S, NEW q \in Seq(S)
  PROVE  /\ ~Told(<<>>)
         /\ q # <<>> /\ Told(Tail(q)) => Told(q)
         /\ q # <<>> /\ Head(q).script = "begin" /\ Head(q).what = "started" => Told(q)
         /\ \A e \in S : Told(Append(q, e)) =>
              Told(q) \/ (e.script = "begin" /\ e.what = "started")
<1>1. ~Told(<<>>)
  BY DEF Told
<1>2. ASSUME q # <<>>, Told(Tail(q)) PROVE Told(q)
  <2>1. PICK i \in 1 .. Len(Tail(q)) : Tail(q)[i].script = "begin" /\ Tail(q)[i].what = "started"
    BY <1>2 DEF Told
  <2>2. i + 1 \in 1 .. Len(q) /\ q[i + 1] = Tail(q)[i]
    BY <1>2
  <2> QED BY <2>1, <2>2 DEF Told
<1>3. ASSUME q # <<>>, Head(q).script = "begin", Head(q).what = "started" PROVE Told(q)
  <2>1. 1 \in 1 .. Len(q) /\ q[1] = Head(q)
    BY <1>3
  <2> QED BY <1>3, <2>1 DEF Told
<1>4. ASSUME NEW e \in S, Told(Append(q, e))
      PROVE  Told(q) \/ (e.script = "begin" /\ e.what = "started")
  <2>1. PICK i \in 1 .. Len(Append(q, e)) :
          Append(q, e)[i].script = "begin" /\ Append(q, e)[i].what = "started"
    BY <1>4 DEF Told
  <2>2. CASE i = Len(q) + 1
    BY <2>1, <2>2
  <2>3. CASE i # Len(q) + 1
    <3>1. i \in 1 .. Len(q) /\ Append(q, e)[i] = q[i]
      BY <2>1, <2>3
    <3> QED BY <2>1, <3>1 DEF Told
  <2> QED BY <2>2, <2>3
<1> QED BY <1>1, <1>2, <1>3, <1>4

(***************************************************************************)
(* Steps of a call                                                         *)
(***************************************************************************)

\* The fields of a call, and what a settled call keeps of it.
LEMMA CallFacts ==
  ASSUME NEW c \in Call
  PROVE  /\ c.pipe \in Seq(Commands) /\ c.answers \in Seq(Answers)
         /\ c.phase \in Phases /\ c.wait \in 0 .. MaxWait
         /\ Settled(c) \in Call
         /\ Settled(c).taken = c.taken
         /\ Early(c) => Early(Settled(c))
         /\ Starts(Settled(c)) => Starts(c)
<1>1. /\ c.pipe \in Seq(Commands) /\ c.answers \in Seq(Answers)
      /\ c.phase \in Phases /\ c.wait \in 0 .. MaxWait
  BY DEF Call
<1>2. Settled(c) \in Call
  <2>1. 0 \in 0 .. MaxWait
    BY IdempotencyAssumption
  <2>2. [c EXCEPT !.wait = 0, !.lost = FALSE] \in Call
    BY <2>1 DEF Call
  <2> QED BY <2>2 DEF Settled
<1>3. /\ Settled(c).phase = c.phase /\ Settled(c).taken = c.taken
      /\ Settled(c).pipe = c.pipe /\ Settled(c).answers = c.answers
  BY DEF Settled, Call
<1> QED BY <1>1, <1>2, <1>3 DEF Early, Starts

\* A call may change as it likes, but for starting to hold the key by itself.
LEMMA Becoming ==
  ASSUME IInv, NEW r \in Runs, NEW c \in Call, c.taken = run[r].taken,
         Early(c), Starts(c) => Starts(run[r]), Becomes(r, c)
  PROVE  IInv'
<1>1. /\ Settled(c) \in Call /\ Settled(c).taken = c.taken /\ Early(Settled(c))
      /\ Starts(Settled(c)) => Starts(c)
  BY CallFacts
<1>2. key' = key /\ run' = [run EXCEPT ![r] = Settled(c)]
  BY DEF Becomes
<1>3. run' \in [Runs -> Call]
  BY <1>1, <1>2 DEF IInv
<1>4. ASSUME NEW s \in Runs
      PROVE  Early(run'[s]) /\ Own(key', run'[s], s)
  <2>1. CASE s = r
    <3>1. run'[s] = Settled(c)
      BY <1>2, <2>1 DEF IInv
    <3>2. Own(key, run[r], r)
      BY DEF IInv
    <3> QED BY <1>1, <1>2, <2>1, <3>1, <3>2 DEF Own
  <2>2. CASE s # r
    <3>1. run'[s] = run[s]
      BY <1>2, <2>2 DEF IInv
    <3> QED BY <1>2, <3>1 DEF IInv
  <2> QED BY <2>1, <2>2
<1> QED BY <1>2, <1>3, <1>4 DEF IInv

\* A command sent joins the pipe and changes nothing else.
LEMMA SentFacts ==
  ASSUME NEW c \in Call, NEW script \in Scripts
  PROVE  /\ Sent(c, script) \in Call
         /\ Sent(c, script).phase = c.phase /\ Sent(c, script).taken = c.taken
         /\ Sent(c, script).answers = c.answers
         /\ Keeping(c.pipe) /\ script \in {"begin", "renew"} => Keeping(Sent(c, script).pipe)
<1> DEFINE e == [script |-> script, full |-> FALSE]
<1>1. c.pipe \in Seq(Commands) /\ e \in Commands
  BY DEF Call, Commands
<1>2. Append(c.pipe, e) \in Seq(Commands)
  BY <1>1
<1>3. Sent(c, script) = [c EXCEPT !.pipe = Append(c.pipe, e)]
  BY DEF Sent
<1>4. /\ Sent(c, script) \in Call
      /\ Sent(c, script).phase = c.phase /\ Sent(c, script).taken = c.taken
      /\ Sent(c, script).answers = c.answers /\ Sent(c, script).pipe = Append(c.pipe, e)
  BY <1>2, <1>3 DEF Call
<1>5. e.script = script
  OBVIOUS
<1>6. Keeping(c.pipe) /\ script \in {"begin", "renew"} => Keeping(Append(c.pipe, e))
  BY <1>1, <1>5, KeepingFacts
<1> QED BY <1>4, <1>6

\* A call that begins, or begins again.
LEMMA BeginStep == ASSUME IInv, NEW r \in Runs, Begin(r) PROVE IInv'
<1> DEFINE b == [run[r] EXCEPT !.phase = "taking"]
<1>1. run[r] \in Call /\ Early(run[r]) /\ run[r].phase \in {"new", "pausing"}
  BY DEF IInv, Begin
<1>2. /\ b \in Call /\ b.phase = "taking" /\ b.taken = run[r].taken
      /\ b.pipe = run[r].pipe /\ b.answers = run[r].answers
  BY <1>1 DEF Call, Phases
<1> HIDE DEF b
<1> DEFINE c == Sent(b, "begin")
<1>3. /\ c \in Call /\ c.phase = b.phase /\ c.taken = b.taken /\ c.answers = b.answers
      /\ Keeping(b.pipe) => Keeping(c.pipe)
  BY <1>2, SentFacts DEF Scripts
<1>4. Becomes(r, c)
  BY DEF Begin, b
<1> HIDE DEF c
<1>5. Early(c) /\ (Starts(c) => Starts(run[r]))
  BY <1>1, <1>2, <1>3 DEF Early, Starts, Before
<1> QED BY <1>2, <1>3, <1>4, <1>5, Becoming

\* A renewal sent.
LEMMA BeatStep == ASSUME IInv, NEW r \in Runs, Beat(r) PROVE IInv'
<1> DEFINE c == Sent(run[r], "renew")
<1>1. run[r] \in Call /\ Early(run[r])
  BY DEF IInv
<1>2. /\ c \in Call /\ c.phase = run[r].phase /\ c.taken = run[r].taken
      /\ c.answers = run[r].answers
      /\ Keeping(run[r].pipe) => Keeping(c.pipe)
  BY <1>1, SentFacts DEF Scripts
<1>3. Becomes(r, c)
  BY DEF Beat
<1> HIDE DEF c
<1>4. Early(c) /\ (Starts(c) => Starts(run[r]))
  BY <1>1, <1>2 DEF Early, Starts
<1> QED BY <1>2, <1>3, <1>4, Becoming

\* Whatever a call becomes, it holds nothing once its work ended.
LEMMA Ending ==
  ASSUME IInv, NEW r \in Runs, NEW c \in Call, c.taken = run[r].taken,
         c.phase \notin Before, Becomes(r, c)
  PROVE  IInv'
<1>1. Early(c) /\ ~Starts(c)
  BY DEF Early, Starts, Before
<1> QED BY <1>1, Becoming

\* The work returns, or throws.
LEMMA WorkStep ==
  ASSUME IInv, NEW r \in Runs, WorkReturns(r) \/ WorkThrows(r) PROVE IInv'
<1>1. run[r] \in Call
  BY DEF IInv
<1>2. CASE WorkReturns(r)
  <2>1. Stores(run[r]) \in Call /\ Stores(run[r]).taken = run[r].taken
        /\ Stores(run[r]).phase \notin Before
    <3>1. CASE run[r].lost
      BY <1>1, <3>1 DEF Stores, Call, Phases, Ends, Before
    <3>2. CASE ~run[r].lost
      <4> DEFINE s == Sent(run[r], "complete")
      <4>1. s \in Call /\ s.taken = run[r].taken
        BY <1>1, SentFacts DEF Scripts
      <4> HIDE DEF s
      <4>2. /\ [s EXCEPT !.phase = "storing"] \in Call
            /\ [s EXCEPT !.phase = "storing"].taken = s.taken
            /\ [s EXCEPT !.phase = "storing"].phase = "storing"
        BY <4>1 DEF Call, Phases
      <4>3. Stores(run[r]) = [s EXCEPT !.phase = "storing"]
        BY <3>2 DEF Stores, s
      <4> QED BY <4>1, <4>2, <4>3 DEF Before
    <3> QED BY <3>1, <3>2
  <2> QED BY <1>2, <2>1, Ending DEF WorkReturns
<1>3. CASE WorkThrows(r)
  <2> DEFINE g == [run[r] EXCEPT !.phase = "giving back"]
  <2>1. g \in Call /\ g.phase = "giving back" /\ g.taken = run[r].taken
    BY <1>1 DEF Call, Phases
  <2>2. Becomes(r, Sent(g, "release"))
    BY <1>3 DEF WorkThrows
  <2> HIDE DEF g
  <2>3. /\ Sent(g, "release") \in Call /\ Sent(g, "release").phase = g.phase
        /\ Sent(g, "release").taken = g.taken
    BY <2>1, SentFacts DEF Scripts
  <2> QED BY <2>1, <2>2, <2>3, Ending DEF Before
<1> QED BY <1>2, <1>3

\* An answer heard.  The work starts with the one that says the key was taken.
LEMMA HearStep == ASSUME IInv, NEW r \in Runs, Hear(r) PROVE IInv'
<1> DEFINE q == run[r].answers
           a == Head(q)
           d == After(run[r], a)
           c == [d EXCEPT !.answers = Tail(q)]
<1>1. run[r] \in Call /\ Early(run[r]) /\ q # <<>> /\ q \in Seq(Answers)
  BY DEF IInv, Hear, Call
<1>2. a \in Answers /\ Tail(q) \in Seq(Answers)
  BY <1>1
<1>3. Becomes(r, [d EXCEPT !.answers = Tail(@)])
  BY DEF Hear
<1>4. /\ d \in Call /\ d.taken = run[r].taken /\ d.answers = q
      /\ run[r].phase \in Before /\ Keeping(run[r].pipe) /\ a.script \in {"begin", "renew"} =>
           Keeping(d.pipe)
      /\ d.phase \in Before => run[r].phase \in Before
      /\ d.phase = "working" =>
           run[r].phase = "working" \/ (a.script = "begin" /\ a.what = "started"
                                        /\ run[r].phase = "taking")
  <2>1. CASE a.what = "noscript"
    <3> DEFINE e == [script |-> a.script, full |-> TRUE]
    <3>1. e \in Commands /\ e.script = a.script /\ run[r].pipe \in Seq(Commands)
      BY <1>1, <1>2 DEF Commands, Answers, Call
    <3>2. d = [run[r] EXCEPT !.pipe = Append(run[r].pipe, e)]
      BY <2>1 DEF After
    <3> HIDE DEF e
    <3>3. Append(run[r].pipe, e) \in Seq(Commands)
      BY <3>1
    <3>4. /\ d \in Call /\ d.taken = run[r].taken /\ d.answers = q
          /\ d.phase = run[r].phase /\ d.pipe = Append(run[r].pipe, e)
      BY <1>1, <3>2, <3>3 DEF Call
    <3>5. Keeping(run[r].pipe) /\ a.script \in {"begin", "renew"} => Keeping(d.pipe)
      BY <3>1, <3>4, KeepingFacts
    <3> QED BY <3>4, <3>5
  <2>2. CASE a.what # "noscript" /\ a.script = "begin" /\ run[r].phase = "taking"
    <3>1. d = Begun(run[r], a)
      BY <2>2 DEF After
    <3>2. a.by \in Runs \cup {NoRun}
      BY <1>2 DEF Answers
    <3>3. d \in Call /\ d.taken = run[r].taken /\ d.answers = q /\ d.pipe = run[r].pipe
      <4>1. ASSUME NEW phase \in Phases, NEW by \in Runs \cup {NoRun},
                   d = [run[r] EXCEPT !.phase = phase, !.value = by]
            PROVE  d \in Call /\ d.taken = run[r].taken /\ d.answers = q /\ d.pipe = run[r].pipe
        <5> HIDE DEF d
        <5> QED BY <1>1, <4>1 DEF Call
      <4>2. ASSUME NEW phase \in Phases, d = [run[r] EXCEPT !.phase = phase]
            PROVE  d \in Call /\ d.taken = run[r].taken /\ d.answers = q /\ d.pipe = run[r].pipe
        <5> HIDE DEF d
        <5> QED BY <1>1, <4>2 DEF Call
      <4>3. {"working", "replayed", "pausing", "refused"} \subseteq Phases
        BY DEF Phases, Ends
      <4>4. CASE a.what = "done"
        <5>1. d = [run[r] EXCEPT !.phase = "replayed", !.value = a.by]
          BY <3>1, <4>4 DEF Begun
        <5> QED BY <3>2, <4>1, <4>3, <5>1
      <4>5. CASE a.what # "done"
        <5>1. \E phase \in {"working", "pausing", "refused"} :
                d = [run[r] EXCEPT !.phase = phase]
          BY <3>1, <4>5 DEF Begun
        <5> QED BY <4>2, <4>3, <5>1
      <4> QED BY <4>4, <4>5
    <3>4. d.phase = "working" => a.what = "started"
      BY <1>1, <3>1 DEF Begun, Call
    <3> QED BY <2>2, <3>3, <3>4 DEF Before
  <2>3. CASE a.what # "noscript" /\ ~(a.script = "begin" /\ run[r].phase = "taking")
    <3>1. /\ d \in Call /\ d.taken = run[r].taken /\ d.answers = q /\ d.pipe = run[r].pipe
      BY <1>1, <2>3 DEF After, Call, Phases, Ends
    <3>2. d.phase \in Before => d.phase = run[r].phase
      BY <1>1, <2>3 DEF After, Call, Before
    <3>3. d.phase = "working" => d.phase \in Before
      BY DEF Before
    <3> QED BY <3>1, <3>2, <3>3
  <2> QED BY <2>1, <2>2, <2>3
<1>5. c = [d EXCEPT !.answers = Tail(@)]
  BY <1>4
<1> HIDE DEF d
<1>6. /\ c \in Call /\ c.taken = d.taken /\ c.phase = d.phase /\ c.pipe = d.pipe
      /\ c.answers = Tail(q)
  BY <1>2, <1>4 DEF Call
<1> HIDE DEF c
<1>7. /\ Keeping(q) => Keeping(Tail(q)) /\ a.script \in {"begin", "renew"}
      /\ Told(Tail(q)) => Told(q)
      /\ a.script = "begin" /\ a.what = "started" => Told(q)
  BY <1>1, KeepingFacts, ToldFacts
<1> HIDE DEF a
<1>8. Early(c)
  BY <1>1, <1>4, <1>6, <1>7 DEF Early
<1>9. Starts(c) => Starts(run[r])
  BY <1>1, <1>4, <1>6, <1>7 DEF Starts, Before
<1> QED BY <1>3, <1>4, <1>5, <1>6, <1>8, <1>9, Becoming

\* A command that fails, for want of an answer.
LEMMA TimeOutStep == ASSUME IInv, NEW r \in Runs, TimeOut(r) PROVE IInv'
<1> DEFINE g == [run[r] EXCEPT !.phase = "gave up"]
           c == Failed(run[r])
<1>1. run[r] \in Call /\ run[r].phase \in {"taking", "storing", "giving back"} /\ Becomes(r, c)
  BY DEF IInv, TimeOut
<1>2. g \in Call /\ g.phase = "gave up" /\ g.taken = run[r].taken
  BY <1>1 DEF Call, Phases, Ends
<1>3. /\ Sent(g, "release") \in Call /\ Sent(g, "release").phase = g.phase
      /\ Sent(g, "release").taken = g.taken
  <2> HIDE DEF g
  <2> QED BY <1>2, SentFacts DEF Scripts
<1>4. c \in Call /\ c.taken = run[r].taken /\ c.phase \notin Before
  <2>1. CASE run[r].phase = "taking"
    <3>1. c = Sent(g, "release")
      BY <2>1 DEF Failed
    <3> QED BY <1>2, <1>3, <3>1 DEF Before
  <2>2. CASE run[r].phase # "taking"
    BY <1>1, <2>2 DEF Failed, Call, Phases, Ends, Before
  <2> QED BY <2>1, <2>2
<1> HIDE DEF c
<1> QED BY <1>1, <1>4, Ending

\* A connection that fails takes everything under way with it.
LEMMA LoseStep == ASSUME IInv, NEW r \in Runs, LoseConnection(r) PROVE IInv'
<1> DEFINE cut == [run[r] EXCEPT !.pipe = <<>>, !.answers = <<>>]
           f == Failed(cut)
           e == [f EXCEPT !.pipe = <<>>]
           g == [cut EXCEPT !.phase = "gave up"]
<1>1. run[r] \in Call
  BY DEF IInv
<1>2. /\ cut \in Call /\ cut.phase = run[r].phase /\ cut.taken = run[r].taken
      /\ cut.pipe = <<>> /\ cut.answers = <<>>
  <2>1. <<>> \in Seq(Commands) /\ <<>> \in Seq(Answers)
    OBVIOUS
  <2> QED BY <1>1, <2>1 DEF Call
<1>3. Becomes(r, f) \/ Becomes(r, e)
  BY DEF LoseConnection
<1> HIDE DEF cut
<1>4. g \in Call /\ g.phase = "gave up" /\ g.taken = cut.taken /\ g.answers = <<>>
  BY <1>2 DEF Call, Phases, Ends
<1>5. /\ Sent(g, "release") \in Call /\ Sent(g, "release").phase = g.phase
      /\ Sent(g, "release").taken = g.taken /\ Sent(g, "release").answers = g.answers
  <2> HIDE DEF g
  <2> QED BY <1>4, SentFacts DEF Scripts
<1>6. /\ f \in Call /\ f.taken = run[r].taken /\ f.answers = <<>>
      /\ f.phase \in Before => f.phase = run[r].phase /\ f.pipe = <<>>
  <2>1. CASE cut.phase = "taking"
    <3>1. f = Sent(g, "release")
      BY <2>1 DEF Failed
    <3> QED BY <1>2, <1>4, <1>5, <3>1 DEF Before
  <2>2. CASE cut.phase # "taking"
    BY <1>2, <2>2 DEF Failed, Call, Phases, Ends, Before
  <2> QED BY <2>1, <2>2
<1> HIDE DEF f, g
<1>7. /\ e \in Call /\ e.taken = f.taken /\ e.answers = f.answers /\ e.phase = f.phase
      /\ e.pipe = <<>>
  BY <1>6 DEF Call
<1> HIDE DEF e
<1>8. Keeping(<<>>) /\ ~Told(<<>>)
  BY DEF Keeping, Told
<1>9. Early(f) /\ Early(e) /\ (Starts(f) => Starts(run[r])) /\ (Starts(e) => Starts(run[r]))
  BY <1>6, <1>7, <1>8 DEF Early, Starts, Before
<1>10. e.taken = run[r].taken
  BY <1>6, <1>7
<1>11. CASE Becomes(r, f)
  BY <1>6, <1>9, <1>11, Becoming
<1>12. CASE Becomes(r, e)
  BY <1>7, <1>9, <1>10, <1>12, Becoming
<1> QED BY <1>3, <1>11, <1>12

\* A process that dies.
LEMMA CrashStep == ASSUME IInv, NEW r \in Runs, Crash(r) PROVE IInv'
<1> DEFINE c == [run[r] EXCEPT !.phase = "crashed", !.answers = <<>>]
<1>1. run[r] \in Call /\ Becomes(r, c)
  BY DEF IInv, Crash
<1>2. c \in Call /\ c.taken = run[r].taken /\ c.phase = "crashed"
  <2>1. <<>> \in Seq(Answers)
    OBVIOUS
  <2> QED BY <1>1, <2>1 DEF Call, Phases, Ends
<1> HIDE DEF c
<1> QED BY <1>1, <1>2, Ending DEF Before

(***************************************************************************)
(* Steps of the server and of time                                         *)
(***************************************************************************)

\* What the server answers, and what it leaves of the record.
LEMMA ScriptFacts ==
  ASSUME key \in Keys \cup {Free}, NEW r \in Runs, run[r] \in Call, NEW script \in Scripts
  PROVE  /\ AnswerOf(r, script) \in Answers
         /\ AnswerOf(r, script).script = script
         /\ script = "begin" /\ AnswerOf(r, script).what = "started" => Takes
         /\ KeyAfter(r, script) \in Keys \cup {Free}
<1>1. key = Free \/ (key \in Keys /\ key.state \in {"running", "done"} /\ key.by \in Runs
                     /\ key.left \in 0 .. Lease + Ttl)
  BY DEF Keys
<1>2. Takes <=> key = Free
  BY <1>1 DEF Takes, Free
<1>3. BeginAnswer(r) \in Answers /\ BeginAnswer(r).script = "begin"
  BY <1>1, <1>2 DEF BeginAnswer, Answer, Answers, Scripts
<1>4. BeginAnswer(r).what = "started" => Takes
  BY <1>1, <1>2 DEF BeginAnswer, Answer
<1>5. /\ AnswerOf(r, script) \in Answers
      /\ AnswerOf(r, script).script = script
  BY <1>3 DEF AnswerOf, Answer, Answers, Scripts
<1>6. script = "begin" => AnswerOf(r, script) = BeginAnswer(r)
  BY DEF AnswerOf
<1>7. KeyAfter(r, script) \in Keys \cup {Free}
  <2>1. Lease \in 0 .. Lease + Ttl /\ Ttl \in 0 .. Lease + Ttl
    BY IdempotencyAssumption
  <2>2. run[r].print \in Prints
    BY DEF Call
  <2>3. CASE script = "begin" /\ Takes
    BY <2>1, <2>2, <2>3 DEF KeyAfter, Keys
  <2>4. CASE script = "complete" /\ Completes(r)
    <3>1. key \in Keys /\ key.print \in Prints
      BY <1>1, <2>4 DEF Completes, Held, Free, Keys
    <3> QED BY <2>1, <2>4, <3>1 DEF KeyAfter, Keys
  <2>5. CASE script = "renew" /\ Held(r)
    <3>1. key \in Keys
      BY <1>1, <2>5 DEF Held, Free
    <3>2. KeyAfter(r, script) = [key EXCEPT !.left = Lease]
      BY <2>5 DEF KeyAfter
    <3> QED BY <2>1, <3>1, <3>2 DEF Keys
  <2>6. CASE script = "release"
    BY <1>1, <2>6 DEF KeyAfter, Released
  <2>7. CASE /\ ~(script = "begin" /\ Takes) /\ ~(script = "complete" /\ Completes(r))
             /\ ~(script = "renew" /\ Held(r)) /\ script # "release"
    BY <2>7 DEF KeyAfter
  <2> QED BY <2>3, <2>4, <2>5, <2>6, <2>7
<1> QED BY <1>4, <1>5, <1>6, <1>7

\* A script takes a free key for r, and otherwise changes one that r holds.
LEMMA KeyAfterFacts ==
  ASSUME NEW r \in Runs, NEW script \in Scripts, key \in Keys \cup {Free}
  PROVE  /\ KeyAfter(r, script) = key \/ Takes \/ Held(r)
         /\ Takes /\ script = "begin" =>
              KeyAfter(r, script).state = "running" /\ KeyAfter(r, script).by = r
         /\ Held(r) /\ script \in {"begin", "renew"} =>
              KeyAfter(r, script).state = "running" /\ KeyAfter(r, script).by = r
<1>1. KeyAfter(r, script) = key \/ Takes \/ Held(r)
  BY DEF KeyAfter, Completes, Released
<1>2. ASSUME Takes, script = "begin"
      PROVE  KeyAfter(r, script).state = "running" /\ KeyAfter(r, script).by = r
  BY <1>2 DEF KeyAfter
<1>3. ASSUME Held(r), script \in {"begin", "renew"}
      PROVE  KeyAfter(r, script).state = "running" /\ KeyAfter(r, script).by = r
  <2>1. key \in Keys /\ ~Takes
    BY <1>3 DEF Held, Takes, Free
  <2>2. CASE script = "begin"
    BY <1>3, <2>1, <2>2 DEF KeyAfter, Held
  <2>3. CASE script = "renew"
    <3>1. KeyAfter(r, script) = [key EXCEPT !.left = Lease]
      BY <1>3, <2>3 DEF KeyAfter
    <3> QED BY <1>3, <2>1, <3>1 DEF Held, Keys
  <2> QED BY <1>3, <2>2, <2>3
<1> QED BY <1>1, <1>2, <1>3

\* The server runs a script, or does not know it.
LEMMA ServeStep == ASSUME IInv, NEW r \in Runs, Serve(r) PROVE IInv'
<1> DEFINE p == run[r].pipe
           q == run[r].answers
           t == Head(p).script
<1>1. /\ run[r] \in Call /\ Early(run[r]) /\ Own(key, run[r], r)
      /\ key \in Keys \cup {Free} /\ run \in [Runs -> Call]
      /\ p # <<>> /\ p \in Seq(Commands) /\ q \in Seq(Answers)
  BY DEF IInv, Serve, Call
<1>2. Head(p) \in Commands /\ t \in Scripts /\ Tail(p) \in Seq(Commands)
  <2>1. Head(p) \in Commands /\ Tail(p) \in Seq(Commands)
    <3> HIDE DEF p
    <3> QED BY <1>1
  <2> QED BY <2>1 DEF Commands
<1>3. PICK known \in BOOLEAN :
        LET answer == IF known THEN AnswerOf(r, t) ELSE Answer(t, "noscript", NoRun)
        IN  /\ key' = IF known THEN KeyAfter(r, t) ELSE key
            /\ run' = [run EXCEPT ![r].pipe = Tail(@),
                                  ![r].answers = IF Minded(run[r], answer)
                                                 THEN Append(@, answer) ELSE @]
  BY DEF Serve
<1> DEFINE a == IF known THEN AnswerOf(r, t) ELSE Answer(t, "noscript", NoRun)
           n == IF Minded(run[r], a) THEN Append(q, a) ELSE q
<1>4. /\ a \in Answers /\ a.script = t
      /\ t = "begin" /\ a.what = "started" => known /\ Takes
  <2>1. Answer(t, "noscript", NoRun) \in Answers
    BY <1>2 DEF Answer, Answers
  <2>2. /\ Answer(t, "noscript", NoRun).script = t
        /\ Answer(t, "noscript", NoRun).what = "noscript"
    BY DEF Answer
  <2>3. /\ AnswerOf(r, t) \in Answers /\ AnswerOf(r, t).script = t
        /\ t = "begin" /\ AnswerOf(r, t).what = "started" => Takes
    BY <1>1, <1>2, ScriptFacts
  <2>4. CASE known
    BY <2>3, <2>4
  <2>5. CASE ~known
    BY <2>1, <2>2, <2>5
  <2> QED BY <2>4, <2>5
<1>5. /\ key' = IF known THEN KeyAfter(r, t) ELSE key
      /\ run' = [run EXCEPT ![r].pipe = Tail(@),
                            ![r].answers = IF Minded(run[r], a) THEN Append(@, a) ELSE @]
  BY <1>3
<1> HIDE DEF a
<1>6. n \in Seq(Answers)
  BY <1>1, <1>4
<1>7. run' = [run EXCEPT ![r] = [run[r] EXCEPT !.pipe = Tail(p), !.answers = n]]
  BY <1>1, <1>5
<1> DEFINE d == [run[r] EXCEPT !.pipe = Tail(p), !.answers = n]
<1>8. /\ d \in Call /\ d.phase = run[r].phase /\ d.taken = run[r].taken
      /\ d.pipe = Tail(p) /\ d.answers = n
  <2> HIDE DEF n
  <2> QED BY <1>1, <1>2, <1>6 DEF Call
<1>9. run' = [run EXCEPT ![r] = d]
  BY <1>7
<1> HIDE DEF d, n
<1>10. run' \in [Runs -> Call] /\ run'[r] = d /\ \A s \in Runs : s # r => run'[s] = run[s]
  BY <1>1, <1>8, <1>9
<1>11. key' \in Keys \cup {Free}
  BY <1>1, <1>2, <1>5, ScriptFacts
<1>12. ASSUME NEW s \in Runs, s # r PROVE Early(run'[s]) /\ Own(key', run'[s], s)
  <2>1. run'[s] = run[s] /\ Early(run[s]) /\ Own(key, run[s], s)
    BY <1>10, <1>12 DEF IInv
  <2>2. key' = key \/ Takes \/ Held(r)
    BY <1>1, <1>2, <1>5, KeyAfterFacts
  <2>3. CASE key' = key
    BY <2>1, <2>3
  <2>4. CASE Takes \/ Held(r)
    BY <1>12, <2>1, <2>4 DEF Own, Takes, Held
  <2> QED BY <2>2, <2>3, <2>4
<1>13. ASSUME run[r].phase \in Before
       PROVE  /\ t \in {"begin", "renew"} /\ Keeping(d.pipe) /\ Keeping(d.answers)
              /\ Told(d.answers) => Told(q) \/ (known /\ t = "begin" /\ Takes)
  <2>1. Keeping(p) /\ Keeping(q)
    BY <1>1, <1>13 DEF Early
  <2>2. Keeping(Tail(p)) /\ t \in {"begin", "renew"}
    BY <1>1, <2>1, KeepingFacts
  <2>3. Keeping(Append(q, a))
    BY <1>1, <1>4, <2>1, <2>2, KeepingFacts
  <2>4. Told(Append(q, a)) => Told(q) \/ (a.script = "begin" /\ a.what = "started")
    BY <1>1, <1>4, ToldFacts
  <2>5. n = q \/ n = Append(q, a)
    BY DEF n
  <2> HIDE DEF t
  <2> QED BY <1>4, <1>8, <2>1, <2>2, <2>3, <2>4, <2>5
<1>14. Early(d)
  BY <1>8, <1>13 DEF Early
<1>15. Own(key', d, r)
  <2>1. SUFFICES ASSUME ~run[r].taken, Starts(d)
                 PROVE  key'.state = "running" /\ key'.by = r
    BY <1>8 DEF Own
  <2>2. run[r].phase \in Before
    BY <1>8, <2>1 DEF Starts, Before
  <2>3. CASE Starts(run[r])
    <3>1. Held(r)
      BY <1>1, <2>1, <2>3 DEF Own, Held
    <3>2. KeyAfter(r, t).state = "running" /\ KeyAfter(r, t).by = r
      BY <1>1, <1>2, <1>13, <2>2, <3>1, KeyAfterFacts
    <3> QED BY <1>5, <3>1, <3>2 DEF Held
  <2>4. CASE ~Starts(run[r])
    <3>1. known /\ t = "begin" /\ Takes
      BY <1>8, <1>13, <2>1, <2>2, <2>4 DEF Starts
    <3>2. KeyAfter(r, t).state = "running" /\ KeyAfter(r, t).by = r
      BY <1>1, <1>2, <3>1, KeyAfterFacts
    <3> QED BY <1>5, <3>1, <3>2
  <2> QED BY <2>3, <2>4
<1> QED BY <1>10, <1>11, <1>12, <1>14, <1>15 DEF IInv

\* The key changes of itself: where it is gone, its holder is marked.
LEMMA Passing ==
  ASSUME IInv, key' \in Keys \cup {Free}, run' \in [Runs -> Call],
         \A r \in Runs : /\ run'[r].phase = run[r].phase
                         /\ run'[r].pipe = run[r].pipe /\ run'[r].answers = run[r].answers
                         /\ run[r].taken => run'[r].taken,
         \A r \in Runs : Held(r) => run'[r].taken \/ (key'.state = "running" /\ key'.by = r)
  PROVE  IInv'
<1>1. ASSUME NEW r \in Runs PROVE Early(run'[r]) /\ Own(key', run'[r], r)
  <2>1. Early(run[r]) /\ Own(key, run[r], r)
    BY DEF IInv
  <2> QED BY <2>1 DEF Early, Own, Starts, Held
<1> QED BY <1>1 DEF IInv

\* forget.
LEMMA ForgetStep == ASSUME IInv, Forget PROVE IInv'
<1>1. /\ key' = Free /\ run \in [Runs -> Call]
      /\ run' = [r \in Runs |-> [run[r] EXCEPT !.taken = @ \/ Held(r)]]
  BY DEF IInv, Forget, Gone
<1>2. ASSUME NEW r \in Runs
      PROVE  /\ run'[r] \in Call /\ run'[r].phase = run[r].phase
             /\ run'[r].pipe = run[r].pipe /\ run'[r].answers = run[r].answers
             /\ run'[r].taken <=> run[r].taken \/ Held(r)
  <2>1. (run[r].taken \/ Held(r)) \in BOOLEAN
    OBVIOUS
  <2>2. run'[r] = [run[r] EXCEPT !.taken = run[r].taken \/ Held(r)]
    BY <1>1
  <2> QED BY <1>1, <2>1, <2>2 DEF Call
<1>3. run' \in [Runs -> Call]
  BY <1>1, <1>2
<1> QED BY <1>1, <1>2, <1>3, Passing

\* Time passes.
LEMMA TickStep == ASSUME IInv, Tick PROVE IInv'
<1>1. /\ key \in Keys \cup {Free} /\ run \in [Runs -> Call]
      /\ key' = IF key.state = "free" \/ key.left = 0 THEN Free ELSE [key EXCEPT !.left = @ - 1]
      /\ run' = [r \in Runs |->
                  [Waited(run[r]) EXCEPT !.taken = @ \/ (Held(r) /\ key.left = 0)]]
  BY DEF IInv, Tick
<1>2. ASSUME NEW r \in Runs
      PROVE  /\ run'[r] \in Call /\ run'[r].phase = run[r].phase
             /\ run'[r].pipe = run[r].pipe /\ run'[r].answers = run[r].answers
             /\ run'[r].taken <=> run[r].taken \/ (Held(r) /\ key.left = 0)
  <2> DEFINE w == Waited(run[r])
  <2>1. /\ w \in Call /\ w.phase = run[r].phase /\ w.taken = run[r].taken
        /\ w.pipe = run[r].pipe /\ w.answers = run[r].answers
    <3>1. run[r] \in Call /\ run[r].wait \in 0 .. MaxWait
      BY <1>1 DEF Call
    <3>2. run[r].wait > 0 => run[r].wait - 1 \in 0 .. MaxWait
      BY <3>1, IdempotencyAssumption
    <3>3. w = run[r] \/ (run[r].wait > 0 /\ w = [run[r] EXCEPT !.wait = run[r].wait - 1])
      BY <3>1 DEF Waited, Call
    <3> HIDE DEF w
    <3> QED BY <3>1, <3>2, <3>3 DEF Call
  <2>2. run'[r] = [w EXCEPT !.taken = w.taken \/ (Held(r) /\ key.left = 0)]
    BY <1>1
  <2> HIDE DEF w
  <2> DEFINE b == w.taken \/ (Held(r) /\ key.left = 0)
  <2>3. b \in BOOLEAN
    OBVIOUS
  <2> QED BY <2>1, <2>2, <2>3 DEF Call
<1>3. run' \in [Runs -> Call]
  BY <1>1, <1>2
<1>4. key' \in Keys \cup {Free}
  <2>1. CASE key.state = "free" \/ key.left = 0
    BY <1>1, <2>1
  <2>2. CASE key.state # "free" /\ key.left # 0
    <3>1. key \in Keys /\ key.left \in 0 .. Lease + Ttl
      BY <1>1, <2>2 DEF Free, Keys
    <3>2. key.left - 1 \in 0 .. Lease + Ttl
      BY <2>2, <3>1, IdempotencyAssumption
    <3>3. key' = [key EXCEPT !.left = key.left - 1]
      BY <1>1, <2>2
    <3> QED BY <3>1, <3>2, <3>3 DEF Keys
  <2> QED BY <2>1, <2>2
<1>5. ASSUME NEW r \in Runs, Held(r)
      PROVE  run'[r].taken \/ (key'.state = "running" /\ key'.by = r)
  <2>1. CASE key.left = 0
    BY <1>2, <1>5, <2>1
  <2>2. CASE key.left # 0
    <3>1. key \in Keys /\ key.state = "running" /\ key.by = r
      BY <1>1, <1>5 DEF Held, Free
    <3>2. key' = [key EXCEPT !.left = key.left - 1]
      BY <1>1, <2>2, <3>1
    <3> QED BY <3>1, <3>2 DEF Keys
  <2> QED BY <2>1, <2>2
<1> QED BY <1>2, <1>3, <1>4, <1>5, Passing

(***************************************************************************)
(* The theorems                                                            *)
(***************************************************************************)

\* No call has begun.
LEMMA InitIInv == Init => IInv
<1> SUFFICES ASSUME Init PROVE IInv
  OBVIOUS
<1>1. PICK prints \in Requests :
        run = [r \in Runs |->
                [phase |-> "new", print |-> prints[r], wait |-> MaxWait, lost |-> FALSE,
                 taken |-> FALSE, value |-> NoRun, pipe |-> <<>>, answers |-> <<>>]]
  BY DEF Init
<1>2. prints \in [Runs -> Prints] /\ MaxWait \in 0 .. MaxWait
  BY IdempotencyAssumption
<1>3. <<>> \in Seq(Commands) /\ <<>> \in Seq(Answers)
  OBVIOUS
<1>4. Keeping(<<>>) /\ ~Told(<<>>)
  BY DEF Keeping, Told
<1>5. ASSUME NEW r \in Runs
      PROVE  /\ run[r] \in Call /\ run[r].phase = "new"
             /\ run[r].pipe = <<>> /\ run[r].answers = <<>>
  BY <1>1, <1>2, <1>3 DEF Call, Phases
<1>6. run \in [Runs -> Call]
  BY <1>1, <1>5
<1>7. ASSUME NEW r \in Runs PROVE Early(run[r]) /\ Own(key, run[r], r)
  BY <1>4, <1>5 DEF Early, Own, Starts
<1>8. key \in Keys \cup {Free}
  BY DEF Init
<1> QED BY <1>6, <1>7, <1>8 DEF IInv

\* Every step keeps the invariant.
LEMMA NextIInv == IInv /\ [Next]_vars => IInv'
<1> SUFFICES ASSUME IInv, [Next]_vars PROVE IInv'
  OBVIOUS
<1>1. ASSUME NEW r \in Runs,
             \/ Begin(r) \/ Serve(r) \/ Hear(r) \/ Beat(r) \/ WorkReturns(r) \/ WorkThrows(r)
             \/ TimeOut(r) \/ LoseConnection(r) \/ Crash(r)
      PROVE  IInv'
  BY <1>1, BeginStep, ServeStep, HearStep, BeatStep, WorkStep, TimeOutStep, LoseStep, CrashStep
<1>2. CASE Forget
  BY <1>2, ForgetStep
<1>3. CASE Tick
  BY <1>3, TickStep
<1>4. CASE UNCHANGED vars
  BY <1>4 DEF vars, IInv
<1> QED BY <1>1, <1>2, <1>3, <1>4 DEF Next

\* The record and the calls keep their types: no answer, renewal or expiry of
\* the scripts (scripts.ts) leads outside them.
THEOREM TypeCorrect == Spec => []TypeOK
<1>1. IInv => TypeOK
  BY DEF IInv, TypeOK
<1> QED BY <1>1, InitIInv, NextIInv, PTL DEF Spec

\* Two calls run their work at once only where the key was taken from one of
\* them by its lease or by forget: whatever commands are late, lost with their
\* connection, or sent again behind others (run.ts, run-script.ts).
THEOREM WorkAlone == Spec => []WorksAlone
<1>1. IInv => WorksAlone
  <2> SUFFICES ASSUME IInv, NEW r \in Runs, NEW s \in Runs,
                      run[r].phase = "working", run[s].phase = "working",
                      ~run[r].taken, ~run[s].taken
               PROVE  r = s
    BY DEF WorksAlone
  <2>1. Own(key, run[r], r) /\ Own(key, run[s], s)
    BY DEF IInv
  <2> QED BY <2>1 DEF Own, Starts
<1> QED BY <1>1, InitIInv, NextIInv, PTL DEF Spec

(***************************************************************************)
(* What is stored, and what is replayed                                    *)
(*                                                                         *)
(* A call sends one BEGIN at a time and one COMPLETE in all, each again    *)
(* only once it heard that the first did not run.  So a call that took the *)
(* key takes it no more (Began), and one whose result was stored hears     *)
(* nothing else of it (Stored): neither is ever undone.                    *)
(***************************************************************************)

\* A command, or an answer, of the script s is in q; and only one of them.
Has(q, s) == \E i \in 1 .. Len(q) : q[i].script = s
OneOf(q, s) == \A i, j \in 1 .. Len(q) : q[i].script = s /\ q[j].script = s => i = j

\* Every answer of s in q says w.
Says(q, s, w) == \A i \in 1 .. Len(q) : q[i].script = s => q[i].what = w

\* The call has sent s and not heard of it yet: once at most.
Sending(c, s) == Has(c.pipe, s) \/ Has(c.answers, s)
SendsOnce(c, s) ==
  OneOf(c.pipe, s) /\ OneOf(c.answers, s) /\ ~(Has(c.pipe, s) /\ Has(c.answers, s))

\* Its work returned, and it was not told that the result is lost.
Kept == {"storing", "stored", "unknown", "crashed"}

\* It sends BEGIN once at a time, and COMPLETE only as its work returned.
Orderly(c) ==
  /\ SendsOnce(c, "begin") /\ SendsOnce(c, "complete")
  /\ c.phase \in {"new", "pausing"} => ~Sending(c, "begin")
  /\ Sending(c, "complete") => c.phase \in Kept

\* It took the key, so no BEGIN of its own takes it again.
Began(c) ==
  c.phase \notin {"new", "pausing"} /\ ~Has(c.pipe, "begin") /\ Says(c.answers, "begin", "started")

\* Its result was stored.
Stored(c) ==
  c.phase \in Kept /\ ~Has(c.pipe, "complete") /\ Says(c.answers, "complete", "yes")

\* The calls rs let who asks with print p be told the result of v.
Gives(rs, p, v) == v \in Runs /\ Stored(rs[v]) /\ rs[v].print = p

GivesAll(rs, p, q) ==
  \A i \in 1 .. Len(q) : q[i].script = "begin" /\ q[i].what = "done" => Gives(rs, p, q[i].by)

\* What the call c was told, or is about to hear, is a result it may be told.
Replays(rs, c) == (c.value # NoRun => Gives(rs, c.print, c.value)) /\ GivesAll(rs, c.print, c.answers)

\* The record k is of its run's request, and was never taken from it.
Recorded(k, rs) ==
  k.state # "free" =>
    /\ rs[k.by].print = k.print /\ ~rs[k.by].taken
    /\ k.state = "done" => Stored(rs[k.by])
    /\ k.state = "running" => Began(rs[k.by])

ResultsInv ==
  /\ IInv
  /\ Recorded(key, run)
  /\ \A r \in Runs : Orderly(run[r]) /\ Replays(run, run[r]) /\ (run[r].taken => Began(run[r]))

\* What is left of a queue, and what joins it.
LEMMA HasFacts ==
  ASSUME NEW S, NEW q \in Seq(S), NEW s
  PROVE  /\ ~Has(<<>>, s) /\ OneOf(<<>>, s)
         /\ q # <<>> => /\ Has(Tail(q), s) => Has(q, s)
                        /\ Head(q).script = s => Has(q, s)
                        /\ OneOf(q, s) => OneOf(Tail(q), s) /\ (Head(q).script = s => ~Has(Tail(q), s))
         /\ \A e \in S : /\ Has(Append(q, e), s) => Has(q, s) \/ e.script = s
                         /\ OneOf(q, s) /\ (e.script = s => ~Has(q, s)) => OneOf(Append(q, e), s)
<1>1. ~Has(<<>>, s) /\ OneOf(<<>>, s)
  BY DEF Has, OneOf
<1>2. ASSUME q # <<>>
      PROVE  /\ Has(Tail(q), s) => Has(q, s)
             /\ Head(q).script = s => Has(q, s)
             /\ OneOf(q, s) => OneOf(Tail(q), s) /\ (Head(q).script = s => ~Has(Tail(q), s))
  <2>1. /\ 1 \in 1 .. Len(q) /\ Head(q) = q[1]
        /\ \A i \in 1 .. Len(Tail(q)) : i \in Nat /\ i + 1 \in 1 .. Len(q) /\ Tail(q)[i] = q[i + 1]
    BY <1>2
  <2>2. Has(Tail(q), s) => Has(q, s)
    BY <2>1 DEF Has
  <2>3. Head(q).script = s => Has(q, s)
    BY <2>1 DEF Has
  <2>4. ASSUME OneOf(q, s) PROVE OneOf(Tail(q), s)
    <3> SUFFICES ASSUME NEW i \in 1 .. Len(Tail(q)), NEW j \in 1 .. Len(Tail(q)),
                        Tail(q)[i].script = s, Tail(q)[j].script = s
                 PROVE  i = j
      BY DEF OneOf
    <3>1. i + 1 = j + 1
      BY <2>1, <2>4 DEF OneOf
    <3> QED BY <2>1, <3>1
  <2>5. ASSUME OneOf(q, s), Head(q).script = s, Has(Tail(q), s) PROVE FALSE
    <3>1. PICK i \in 1 .. Len(Tail(q)) : Tail(q)[i].script = s
      BY <2>5 DEF Has
    <3>2. i + 1 = 1
      BY <2>1, <2>5, <3>1 DEF OneOf
    <3> QED BY <2>1, <3>2
  <2> QED BY <2>2, <2>3, <2>4, <2>5
<1>3. ASSUME NEW e \in S
      PROVE  /\ Has(Append(q, e), s) => Has(q, s) \/ e.script = s
             /\ OneOf(q, s) /\ (e.script = s => ~Has(q, s)) => OneOf(Append(q, e), s)
  <2>1. /\ Len(Append(q, e)) = Len(q) + 1 /\ Append(q, e)[Len(q) + 1] = e /\ Len(q) \in Nat
        /\ \A i \in 1 .. Len(q) + 1 : i # Len(q) + 1 => i \in 1 .. Len(q) /\ Append(q, e)[i] = q[i]
    OBVIOUS
  <2>2. Has(Append(q, e), s) => Has(q, s) \/ e.script = s
    BY <2>1 DEF Has
  <2>3. ASSUME OneOf(q, s), e.script = s => ~Has(q, s),
               NEW i \in 1 .. Len(q) + 1, NEW j \in 1 .. Len(q) + 1,
               Append(q, e)[i].script = s, Append(q, e)[j].script = s
        PROVE  i = j
    BY <2>1, <2>3 DEF Has, OneOf
  <2> QED BY <2>1, <2>2, <2>3 DEF OneOf
<1> QED BY <1>1, <1>2, <1>3

\* The same of what its answers say.
LEMMA SaysFacts ==
  ASSUME NEW S, NEW q \in Seq(S), NEW s, NEW w
  PROVE  /\ Says(<<>>, s, w)
         /\ q # <<>> /\ Says(q, s, w) => Says(Tail(q), s, w) /\ (Head(q).script = s => Head(q).what = w)
         /\ \A e \in S : Says(q, s, w) /\ (e.script = s => e.what = w) => Says(Append(q, e), s, w)
<1>1. Says(<<>>, s, w)
  BY DEF Says
<1>2. ASSUME q # <<>>, Says(q, s, w)
      PROVE  Says(Tail(q), s, w) /\ (Head(q).script = s => Head(q).what = w)
  <2>1. /\ 1 \in 1 .. Len(q) /\ Head(q) = q[1]
        /\ \A i \in 1 .. Len(Tail(q)) : i + 1 \in 1 .. Len(q) /\ Tail(q)[i] = q[i + 1]
    BY <1>2
  <2> QED BY <1>2, <2>1 DEF Says
<1>3. ASSUME NEW e \in S, Says(q, s, w), e.script = s => e.what = w
      PROVE  Says(Append(q, e), s, w)
  <2>1. /\ Len(Append(q, e)) = Len(q) + 1 /\ Append(q, e)[Len(q) + 1] = e /\ Len(q) \in Nat
        /\ \A i \in 1 .. Len(q) + 1 : i # Len(q) + 1 => i \in 1 .. Len(q) /\ Append(q, e)[i] = q[i]
    OBVIOUS
  <2> QED BY <1>3, <2>1 DEF Says
<1> QED BY <1>1, <1>2, <1>3

\* And of the results they give.
LEMMA GivesFacts ==
  ASSUME NEW S, NEW q \in Seq(S), NEW rs, NEW p
  PROVE  /\ GivesAll(rs, p, <<>>)
         /\ q # <<>> /\ GivesAll(rs, p, q) =>
              /\ GivesAll(rs, p, Tail(q))
              /\ Head(q).script = "begin" /\ Head(q).what = "done" => Gives(rs, p, Head(q).by)
         /\ \A e \in S : GivesAll(rs, p, q) /\ (e.script = "begin" /\ e.what = "done" => Gives(rs, p, e.by)) =>
              GivesAll(rs, p, Append(q, e))
<1>1. GivesAll(rs, p, <<>>)
  BY DEF GivesAll
<1>2. ASSUME q # <<>>, GivesAll(rs, p, q)
      PROVE  /\ GivesAll(rs, p, Tail(q))
             /\ Head(q).script = "begin" /\ Head(q).what = "done" => Gives(rs, p, Head(q).by)
  <2>1. /\ 1 \in 1 .. Len(q) /\ Head(q) = q[1]
        /\ \A i \in 1 .. Len(Tail(q)) : i + 1 \in 1 .. Len(q) /\ Tail(q)[i] = q[i + 1]
    BY <1>2
  <2> QED BY <1>2, <2>1 DEF GivesAll
<1>3. ASSUME NEW e \in S, GivesAll(rs, p, q), e.script = "begin" /\ e.what = "done" => Gives(rs, p, e.by)
      PROVE  GivesAll(rs, p, Append(q, e))
  <2>1. /\ Len(Append(q, e)) = Len(q) + 1 /\ Append(q, e)[Len(q) + 1] = e /\ Len(q) \in Nat
        /\ \A i \in 1 .. Len(q) + 1 : i # Len(q) + 1 => i \in 1 .. Len(q) /\ Append(q, e)[i] = q[i]
    OBVIOUS
  <2> QED BY <1>3, <2>1 DEF GivesAll
<1> QED BY <1>1, <1>2, <1>3

\* Results that are given stay given, while no call changes its print or
\* un-stores its result.
LEMMA StillGives ==
  ASSUME NEW rs, NEW ss, NEW p,
         \A v \in Runs : ss[v].print = rs[v].print /\ (Stored(rs[v]) => Stored(ss[v]))
  PROVE  /\ \A v : Gives(rs, p, v) => Gives(ss, p, v)
         /\ \A q : GivesAll(rs, p, q) => GivesAll(ss, p, q)
<1>1. \A v : Gives(rs, p, v) => Gives(ss, p, v)
  BY DEF Gives
<1> QED BY <1>1 DEF GivesAll

\* What a step does to each call, and to the record, is enough.
LEMMA Keep ==
  ASSUME ResultsInv, IInv', Recorded(key', run'),
         \A s \in Runs : /\ run'[s].print = run[s].print
                         /\ Stored(run[s]) => Stored(run'[s])
                         /\ Orderly(run'[s]) /\ Replays(run, run'[s])
                         /\ run'[s].taken => Began(run'[s])
  PROVE  ResultsInv'
<1>1. ASSUME NEW s \in Runs PROVE Replays(run', run'[s])
  <2>1. Replays(run, run'[s])
    OBVIOUS
  <2>2. /\ \A v : Gives(run, run'[s].print, v) => Gives(run', run'[s].print, v)
        /\ \A q : GivesAll(run, run'[s].print, q) => GivesAll(run', run'[s].print, q)
    BY StillGives
  <2> QED BY <2>1, <2>2 DEF Replays
<1> QED BY <1>1 DEF ResultsInv

\* A settled call is the same but for what it does not need any more.
LEMMA SettledSame ==
  ASSUME NEW c \in Call
  PROVE  /\ Settled(c).phase = c.phase /\ Settled(c).print = c.print /\ Settled(c).taken = c.taken
         /\ Settled(c).value = c.value /\ Settled(c).pipe = c.pipe /\ Settled(c).answers = c.answers
BY DEF Settled, Call

\* Equal fields, equal say.
LEMMA SameSay ==
  ASSUME NEW c, NEW d, d.phase = c.phase, d.pipe = c.pipe, d.answers = c.answers
  PROVE  /\ Orderly(c) => Orderly(d)
         /\ Began(c) => Began(d)
         /\ Stored(c) => Stored(d)
         /\ d.print = c.print /\ d.value = c.value => \A rs : Replays(rs, c) => Replays(rs, d)
<1>1. Orderly(c) => Orderly(d)
  BY DEF Orderly, SendsOnce, Sending
<1>2. Began(c) => Began(d)
  BY DEF Began
<1>3. Stored(c) => Stored(d)
  BY DEF Stored
<1>4. d.print = c.print /\ d.value = c.value => \A rs : Replays(rs, c) => Replays(rs, d)
  BY DEF Replays
<1> QED BY <1>1, <1>2, <1>3, <1>4

\* A call changes and the record does not.
LEMMA Changing ==
  ASSUME ResultsInv, IInv', NEW r \in Runs, NEW c \in Call, Becomes(r, c),
         c.print = run[r].print, c.taken = run[r].taken, Orderly(c), Replays(run, c),
         Began(run[r]) => Began(c), Stored(run[r]) => Stored(c)
  PROVE  ResultsInv'
<1> DEFINE d == Settled(c)
<1>1. /\ d.phase = c.phase /\ d.print = c.print /\ d.taken = c.taken
      /\ d.value = c.value /\ d.pipe = c.pipe /\ d.answers = c.answers
  BY SettledSame
<1>2. key' = key /\ run' = [run EXCEPT ![r] = d]
  BY DEF Becomes
<1> HIDE DEF d
<1>3. Orderly(d) /\ (Began(c) => Began(d)) /\ (Stored(c) => Stored(d)) /\ Replays(run, d)
  BY <1>1, SameSay
<1>4. ASSUME NEW s \in Runs
      PROVE  /\ run'[s].print = run[s].print /\ run'[s].taken = run[s].taken
             /\ Stored(run[s]) => Stored(run'[s])
             /\ Began(run[s]) => Began(run'[s])
             /\ Orderly(run'[s]) /\ Replays(run, run'[s])
  <2>1. CASE s = r
    <3>1. run'[s] = d
      BY <1>2, <2>1 DEF ResultsInv, IInv
    <3> QED BY <1>1, <1>3, <2>1, <3>1
  <2>2. CASE s # r
    <3>1. run'[s] = run[s]
      BY <1>2, <2>2 DEF ResultsInv, IInv
    <3> QED BY <3>1 DEF ResultsInv
  <2> QED BY <2>1, <2>2
<1>5. Recorded(key', run')
  <2>1. Recorded(key, run) /\ key \in Keys \cup {Free}
    BY DEF ResultsInv, IInv
  <2>2. key.state # "free" => key.by \in Runs
    BY <2>1 DEF Keys, Free
  <2> QED BY <1>2, <1>4, <2>1, <2>2 DEF Recorded
<1>6. \A s \in Runs : run'[s].taken => Began(run'[s])
  BY <1>4 DEF ResultsInv
<1> QED BY <1>4, <1>5, <1>6, Keep

\* A command sent, that is not on its way yet if it is sent once only.
LEMMA SentSays ==
  ASSUME NEW c \in Call, NEW script \in Scripts
  PROVE  /\ Sent(c, script) \in Call
         /\ Sent(c, script).phase = c.phase /\ Sent(c, script).print = c.print
         /\ Sent(c, script).taken = c.taken /\ Sent(c, script).value = c.value
         /\ Sent(c, script).answers = c.answers
         /\ \A s : /\ Has(Sent(c, script).pipe, s) => Has(c.pipe, s) \/ s = script
                   /\ Sending(Sent(c, script), s) => Sending(c, s) \/ s = script
                   /\ SendsOnce(c, s) /\ (s = script => ~Sending(c, s)) => SendsOnce(Sent(c, script), s)
<1> DEFINE e == [script |-> script, full |-> FALSE]
           d == Sent(c, script)
<1>1. c.pipe \in Seq(Commands) /\ e \in Commands
  BY DEF Call, Commands
<1>2. d = [c EXCEPT !.pipe = Append(c.pipe, e)] /\ Append(c.pipe, e) \in Seq(Commands)
  BY <1>1 DEF Sent
<1>3. /\ d \in Call /\ d.phase = c.phase /\ d.print = c.print /\ d.taken = c.taken
      /\ d.value = c.value /\ d.answers = c.answers /\ d.pipe = Append(c.pipe, e)
  BY <1>2 DEF Call
<1>4. e.script = script
  OBVIOUS
<1> HIDE DEF d, e
<1>5. ASSUME NEW s
      PROVE  /\ Has(d.pipe, s) => Has(c.pipe, s) \/ s = script
             /\ OneOf(c.pipe, s) /\ (s = script => ~Has(c.pipe, s)) => OneOf(d.pipe, s)
  BY <1>1, <1>3, <1>4, HasFacts
<1>6. ASSUME NEW s
      PROVE  /\ Has(d.pipe, s) => Has(c.pipe, s) \/ s = script
             /\ Sending(d, s) => Sending(c, s) \/ s = script
             /\ SendsOnce(c, s) /\ (s = script => ~Sending(c, s)) => SendsOnce(d, s)
  BY <1>3, <1>5 DEF Sending, SendsOnce
<1> QED BY <1>3, <1>6 DEF d

\* A call moves to another phase.
LEMMA PhaseSays ==
  ASSUME NEW c \in Call, NEW phase \in Phases
  PROVE  LET d == [c EXCEPT !.phase = phase]
         IN  /\ d \in Call /\ d.phase = phase /\ d.print = c.print /\ d.taken = c.taken
             /\ d.value = c.value /\ d.pipe = c.pipe /\ d.answers = c.answers
BY DEF Call

\* A call that begins, or begins again.
LEMMA BeginKeeps == ASSUME ResultsInv, IInv', NEW r \in Runs, Begin(r) PROVE ResultsInv'
<1> DEFINE b == [run[r] EXCEPT !.phase = "taking"]
           c == Sent(b, "begin")
<1>1. /\ run[r] \in Call /\ Orderly(run[r]) /\ Replays(run, run[r])
      /\ run[r].phase \in {"new", "pausing"} /\ Becomes(r, c)
  BY DEF ResultsInv, IInv, Begin
<1>2. /\ b \in Call /\ b.phase = "taking" /\ b.print = run[r].print /\ b.taken = run[r].taken
      /\ b.value = run[r].value /\ b.pipe = run[r].pipe /\ b.answers = run[r].answers
  BY <1>1, PhaseSays DEF Phases
<1> HIDE DEF b
<1>3. ~Sending(b, "begin") /\ ~Sending(b, "complete") /\ SendsOnce(b, "begin") /\ SendsOnce(b, "complete")
  BY <1>1, <1>2 DEF Orderly, Sending, SendsOnce, Kept
<1>4. /\ c \in Call /\ c.phase = b.phase /\ c.print = b.print /\ c.taken = b.taken
      /\ c.value = b.value /\ c.answers = b.answers
      /\ \A s : /\ Has(c.pipe, s) => Has(b.pipe, s) \/ s = "begin"
                /\ Sending(c, s) => Sending(b, s) \/ s = "begin"
                /\ SendsOnce(b, s) /\ (s = "begin" => ~Sending(b, s)) => SendsOnce(c, s)
  BY <1>2, SentSays DEF Scripts
<1> HIDE DEF c
<1>5. Orderly(c)
  BY <1>2, <1>3, <1>4 DEF Orderly
<1>6. Replays(run, c)
  BY <1>1, <1>2, <1>4 DEF Replays
<1>7. ~Began(run[r]) /\ ~Stored(run[r])
  BY <1>1 DEF Began, Stored, Kept
<1>8. c.print = run[r].print /\ c.taken = run[r].taken
  BY <1>2, <1>4
<1> QED BY <1>1, <1>4, <1>5, <1>6, <1>7, <1>8, Changing

\* A command sent from a phase that changes to one like it, but for COMPLETE as
\* the work returned.
LEMMA Sending2 ==
  ASSUME ResultsInv, IInv', NEW r \in Runs, NEW script \in {"renew", "release", "complete"},
         NEW phase \in Phases \ {"new", "pausing"}, NEW c \in Call,
         run[r].phase \notin {"new", "pausing"} \cup Kept, script = "complete" => phase \in Kept,
         c.phase = phase, c.print = run[r].print, c.taken = run[r].taken, c.value = run[r].value,
         c.answers = run[r].answers \/ c.answers = <<>>,
         c.pipe = <<>> \/ c.pipe = Sent(run[r], script).pipe \/ c.pipe = run[r].pipe
           \/ c.pipe = Sent([run[r] EXCEPT !.pipe = <<>>], script).pipe,
         Becomes(r, c)
  PROVE  ResultsInv'
<1> DEFINE b == run[r]
           n == [b EXCEPT !.pipe = <<>>]
<1>1. /\ b \in Call /\ Orderly(b) /\ Replays(run, b) /\ b.phase \notin {"new", "pausing"} \cup Kept
      /\ b.answers \in Seq(Answers) /\ b.pipe \in Seq(Commands)
  BY DEF ResultsInv, IInv, Call
<1>2. n \in Call /\ n.pipe = <<>> /\ n.answers = b.answers
  <2>1. <<>> \in Seq(Commands)
    OBVIOUS
  <2> QED BY <1>1, <2>1 DEF Call
<1> HIDE DEF n
<1>3. script \in Scripts
  BY DEF Scripts
<1>4. \A s : /\ Has(Sent(b, script).pipe, s) => Has(b.pipe, s) \/ s = script
             /\ SendsOnce(b, s) /\ (s = script => ~Sending(b, s)) => SendsOnce(Sent(b, script), s)
  BY <1>1, <1>3, SentSays
<1>5. \A s : /\ Has(Sent(n, script).pipe, s) => Has(n.pipe, s) \/ s = script
             /\ SendsOnce(n, s) /\ (s = script => ~Sending(n, s)) => SendsOnce(Sent(n, script), s)
  BY <1>2, <1>3, SentSays
<1>6. \A s : ~Has(<<>>, s) /\ OneOf(<<>>, s)
  BY <1>1, HasFacts
<1>7. \A s, w : Says(<<>>, s, w)
  BY <1>1, SaysFacts
<1>8. GivesAll(run, c.print, <<>>)
  BY <1>1, GivesFacts
<1>9. ~Sending(b, "complete") /\ SendsOnce(b, "begin") /\ SendsOnce(b, "complete")
  BY <1>1 DEF Orderly
<1>10. \A s \in {"begin", "complete"} :
         /\ OneOf(c.pipe, s) /\ OneOf(c.answers, s) /\ ~(Has(c.pipe, s) /\ Has(c.answers, s))
         /\ Has(c.pipe, s) => Has(b.pipe, s) \/ s = script
         /\ Has(c.answers, s) => Has(b.answers, s)
  <2>1. ASSUME NEW s \in {"begin", "complete"}
        PROVE  OneOf(c.pipe, s) /\ (Has(c.pipe, s) => (Has(b.pipe, s) \/ s = script))
    <3>1. SendsOnce(b, s) /\ (s = script => ~Sending(b, s))
      BY <1>9
    <3>2. SendsOnce(Sent(b, script), s)
      BY <1>4, <3>1
    <3>3. CASE c.pipe = <<>>
      BY <1>6, <3>3
    <3>4. CASE c.pipe = b.pipe
      BY <3>1, <3>4 DEF SendsOnce
    <3>5. CASE c.pipe = Sent(b, script).pipe
      BY <1>4, <3>2, <3>5 DEF SendsOnce
    <3>6. CASE c.pipe = Sent(n, script).pipe
      <4>1. SendsOnce(n, s) /\ (s = script => ~Sending(n, s))
        BY <1>2, <1>6, <3>1 DEF SendsOnce, Sending
      <4>2. SendsOnce(Sent(n, script), s) /\ (Has(Sent(n, script).pipe, s) => s = script)
        BY <1>2, <1>5, <1>6, <4>1
      <4> QED BY <3>6, <4>2 DEF SendsOnce
    <3> QED BY <3>3, <3>4, <3>5, <3>6 DEF n
  <2>2. ASSUME NEW s \in {"begin", "complete"}
        PROVE  OneOf(c.answers, s) /\ (Has(c.answers, s) => Has(b.answers, s))
    BY <1>6, <1>9 DEF SendsOnce
  <2>3. ASSUME NEW s \in {"begin", "complete"}, Has(c.pipe, s), Has(c.answers, s) PROVE FALSE
    BY <1>9, <2>1, <2>2, <2>3 DEF SendsOnce, Sending
  <2> QED BY <2>1, <2>2, <2>3
<1>11. Orderly(c)
  BY <1>9, <1>10 DEF Orderly, SendsOnce, Sending
<1>12. Replays(run, c)
  BY <1>1, <1>8 DEF Replays
<1>13. Began(b) => Began(c)
  BY <1>1, <1>7, <1>10 DEF Began
<1>14. ~Stored(b)
  BY <1>1 DEF Stored
<1> QED BY <1>11, <1>12, <1>13, <1>14, Changing

\* A renewal sent.
LEMMA BeatKeeps == ASSUME ResultsInv, IInv', NEW r \in Runs, Beat(r) PROVE ResultsInv'
<1> DEFINE c == Sent(run[r], "renew")
<1>1. run[r] \in Call /\ run[r].phase = "working" /\ Becomes(r, c)
  BY DEF ResultsInv, IInv, Beat, Beats
<1>2. /\ c \in Call /\ c.phase = run[r].phase /\ c.print = run[r].print /\ c.taken = run[r].taken
      /\ c.value = run[r].value /\ c.answers = run[r].answers
  BY <1>1, SentSays DEF Scripts
<1>3. c.pipe = Sent(run[r], "renew").pipe
  OBVIOUS
<1> HIDE DEF c
<1>4. "working" \in Phases \ {"new", "pausing"} /\ "working" \notin {"new", "pausing"} \cup Kept
  BY DEF Phases, Kept
<1> QED BY <1>1, <1>2, <1>3, <1>4, Sending2

\* The work returns, or throws.
LEMMA WorkKeeps ==
  ASSUME ResultsInv, IInv', NEW r \in Runs, WorkReturns(r) \/ WorkThrows(r) PROVE ResultsInv'
<1>1. run[r] \in Call /\ run[r].phase = "working"
  BY DEF ResultsInv, IInv, WorkReturns, WorkThrows
<1>2. run[r].phase \notin {"new", "pausing"} \cup Kept
  BY <1>1 DEF Kept
<1>3. CASE WorkReturns(r) /\ run[r].lost
  <2> DEFINE c == [run[r] EXCEPT !.phase = "lost"]
  <2>1. Becomes(r, c)
    BY <1>3 DEF WorkReturns, Stores
  <2>2. /\ c \in Call /\ c.phase = "lost" /\ c.print = run[r].print /\ c.taken = run[r].taken
        /\ c.value = run[r].value /\ c.pipe = run[r].pipe /\ c.answers = run[r].answers
    BY <1>1, PhaseSays DEF Phases, Ends
  <2> HIDE DEF c
  <2>3. "lost" \in Phases \ {"new", "pausing"}
    BY DEF Phases, Ends
  <2> QED BY <1>2, <2>1, <2>2, <2>3, Sending2
<1>4. CASE WorkReturns(r) /\ ~run[r].lost
  <2> DEFINE b == Sent(run[r], "complete")
             c == [b EXCEPT !.phase = "storing"]
  <2>1. Becomes(r, c)
    BY <1>4 DEF WorkReturns, Stores
  <2>2. /\ b \in Call /\ b.phase = run[r].phase /\ b.print = run[r].print /\ b.taken = run[r].taken
        /\ b.value = run[r].value /\ b.answers = run[r].answers
    BY <1>1, SentSays DEF Scripts
  <2>3. b.pipe = Sent(run[r], "complete").pipe
    OBVIOUS
  <2> HIDE DEF b
  <2>4. /\ c \in Call /\ c.phase = "storing" /\ c.print = b.print /\ c.taken = b.taken
        /\ c.value = b.value /\ c.pipe = b.pipe /\ c.answers = b.answers
    BY <2>2, PhaseSays DEF Phases
  <2> HIDE DEF c
  <2>5. "storing" \in Phases \ {"new", "pausing"} /\ "storing" \in Kept
    BY DEF Phases, Kept
  <2> QED BY <1>2, <2>1, <2>2, <2>3, <2>4, <2>5, Sending2
<1>5. CASE WorkThrows(r)
  <2> DEFINE b == [run[r] EXCEPT !.phase = "giving back"]
             c == Sent(b, "release")
  <2>1. Becomes(r, c)
    BY <1>5 DEF WorkThrows
  <2>2. /\ b \in Call /\ b.phase = "giving back" /\ b.print = run[r].print /\ b.taken = run[r].taken
        /\ b.value = run[r].value /\ b.pipe = run[r].pipe /\ b.answers = run[r].answers
    BY <1>1, PhaseSays DEF Phases
  <2>3. c.pipe = Sent(run[r], "release").pipe
    <3> HIDE DEF b
    <3> QED BY <1>1, <2>2 DEF Sent, Call
  <2> HIDE DEF b
  <2>4. /\ c \in Call /\ c.phase = b.phase /\ c.print = b.print /\ c.taken = b.taken
        /\ c.value = b.value /\ c.answers = b.answers
    BY <2>2, SentSays DEF Scripts
  <2> HIDE DEF c
  <2>5. "giving back" \in Phases \ {"new", "pausing"}
    BY DEF Phases
  <2> QED BY <1>2, <2>1, <2>2, <2>3, <2>4, <2>5, Sending2
<1> QED BY <1>3, <1>4, <1>5

\* What is under way stays so or is gone, and the call moves on.
LEMMA Moving ==
  ASSUME ResultsInv, IInv', NEW r \in Runs, NEW c \in Call, Becomes(r, c),
         c.print = run[r].print, c.taken = run[r].taken, c.value = run[r].value,
         c.pipe \in {run[r].pipe, <<>>}, c.answers \in {run[r].answers, <<>>},
         c.phase \in {"new", "pausing"} => c.phase = run[r].phase,
         run[r].phase \in Kept => c.phase \in Kept
  PROVE  ResultsInv'
<1>1. run[r] \in Call /\ Orderly(run[r]) /\ Replays(run, run[r]) /\ run[r].answers \in Seq(Answers)
  BY DEF ResultsInv, IInv, Call
<1>2. \A s : ~Has(<<>>, s) /\ OneOf(<<>>, s)
  BY <1>1, HasFacts
<1>3. \A s, w : Says(<<>>, s, w)
  BY <1>1, SaysFacts
<1>4. GivesAll(run, c.print, <<>>)
  BY <1>1, GivesFacts
<1>5. \A s \in {"begin", "complete"} : SendsOnce(c, s) /\ (Sending(c, s) => Sending(run[r], s))
  <2> SUFFICES ASSUME NEW s \in {"begin", "complete"}
               PROVE  SendsOnce(c, s) /\ (Sending(c, s) => Sending(run[r], s))
    OBVIOUS
  <2>1. SendsOnce(run[r], s)
    BY <1>1 DEF Orderly
  <2> QED BY <1>2, <2>1 DEF SendsOnce, Sending
<1>6. Orderly(c)
  BY <1>1, <1>5 DEF Orderly
<1>7. Replays(run, c)
  BY <1>1, <1>4 DEF Replays
<1>8. Began(run[r]) => Began(c)
  BY <1>2, <1>3 DEF Began
<1>9. Stored(run[r]) => Stored(c)
  BY <1>2, <1>3 DEF Stored
<1> QED BY <1>6, <1>7, <1>8, <1>9, Changing

\* A command that fails, for want of an answer.
LEMMA TimeOutKeeps == ASSUME ResultsInv, IInv', NEW r \in Runs, TimeOut(r) PROVE ResultsInv'
<1> DEFINE c == Failed(run[r])
<1>1. run[r] \in Call /\ run[r].phase \in {"taking", "storing", "giving back"} /\ Becomes(r, c)
  BY DEF ResultsInv, IInv, TimeOut
<1>2. CASE run[r].phase = "taking"
  <2> DEFINE b == [run[r] EXCEPT !.phase = "gave up"]
  <2>1. /\ b \in Call /\ b.phase = "gave up" /\ b.print = run[r].print /\ b.taken = run[r].taken
        /\ b.value = run[r].value /\ b.pipe = run[r].pipe /\ b.answers = run[r].answers
    BY <1>1, PhaseSays DEF Phases, Ends
  <2>2. c = Sent(b, "release")
    BY <1>2 DEF Failed
  <2> HIDE DEF b, c
  <2>3. c.pipe = Sent(run[r], "release").pipe
    BY <1>1, <2>1, <2>2 DEF Sent, Call
  <2>4. /\ c \in Call /\ c.phase = b.phase /\ c.print = b.print /\ c.taken = b.taken
        /\ c.value = b.value /\ c.answers = b.answers
    BY <2>1, <2>2, SentSays DEF Scripts
  <2>5. "gave up" \in Phases \ {"new", "pausing"}
    BY DEF Phases, Ends
  <2> QED BY <1>1, <1>2, <2>1, <2>3, <2>4, <2>5, Sending2 DEF Kept
<1>3. CASE run[r].phase # "taking"
  <2>1. /\ c \in Call /\ c.print = run[r].print /\ c.taken = run[r].taken /\ c.value = run[r].value
        /\ c.pipe = run[r].pipe /\ c.answers = run[r].answers
    BY <1>1, <1>3 DEF Failed, Call, Phases, Ends
  <2>2. c.phase \notin {"new", "pausing"} /\ (run[r].phase \in Kept => c.phase \in Kept)
    BY <1>1, <1>3 DEF Failed, Call, Kept
  <2> HIDE DEF c
  <2> QED BY <1>1, <2>1, <2>2, Moving
<1> QED BY <1>2, <1>3

\* A connection that fails.
LEMMA LoseKeeps == ASSUME ResultsInv, IInv', NEW r \in Runs, LoseConnection(r) PROVE ResultsInv'
<1> DEFINE cut == [run[r] EXCEPT !.pipe = <<>>, !.answers = <<>>]
           f == Failed(cut)
           e == [f EXCEPT !.pipe = <<>>]
<1>1. run[r] \in Call
  BY DEF ResultsInv, IInv
<1>2. /\ cut \in Call /\ cut.phase = run[r].phase /\ cut.print = run[r].print
      /\ cut.taken = run[r].taken /\ cut.value = run[r].value
      /\ cut.pipe = <<>> /\ cut.answers = <<>>
  <2>1. <<>> \in Seq(Commands) /\ <<>> \in Seq(Answers)
    OBVIOUS
  <2> QED BY <1>1, <2>1 DEF Call
<1>3. Becomes(r, f) \/ Becomes(r, e)
  BY DEF LoseConnection
<1> HIDE DEF cut
<1>4. CASE cut.phase = "taking"
  <2> DEFINE b == [cut EXCEPT !.phase = "gave up"]
             n == [run[r] EXCEPT !.pipe = <<>>]
  <2>1. /\ b \in Call /\ b.phase = "gave up" /\ b.print = cut.print /\ b.taken = cut.taken
        /\ b.value = cut.value /\ b.pipe = cut.pipe /\ b.answers = cut.answers
    BY <1>2, PhaseSays DEF Phases, Ends
  <2>2. f = Sent(b, "release")
    BY <1>4 DEF Failed
  <2>3. n \in Call /\ n.pipe = <<>>
    <3>1. <<>> \in Seq(Commands)
      OBVIOUS
    <3> QED BY <1>1, <3>1 DEF Call
  <2> HIDE DEF b, f, n
  <2>4. f.pipe = Sent(n, "release").pipe
    BY <1>2, <2>1, <2>2, <2>3 DEF Sent, Call
  <2>5. /\ f \in Call /\ f.phase = b.phase /\ f.print = b.print /\ f.taken = b.taken
        /\ f.value = b.value /\ f.answers = b.answers
    BY <2>1, <2>2, SentSays DEF Scripts
  <2>6. /\ e \in Call /\ e.phase = f.phase /\ e.print = f.print /\ e.taken = f.taken
        /\ e.value = f.value /\ e.answers = f.answers /\ e.pipe = <<>>
    <3>1. <<>> \in Seq(Commands)
      OBVIOUS
    <3> QED BY <2>5, <3>1 DEF Call
  <2> HIDE DEF e
  <2>7. "gave up" \in Phases \ {"new", "pausing"} /\ run[r].phase \notin {"new", "pausing"} \cup Kept
    BY <1>2, <1>4 DEF Phases, Ends, Kept
  <2>8. CASE Becomes(r, f)
    <3>1. f.pipe = Sent([run[r] EXCEPT !.pipe = <<>>], "release").pipe
      BY <2>4 DEF n
    <3>2. /\ f.phase = "gave up" /\ f.print = run[r].print /\ f.taken = run[r].taken
          /\ f.value = run[r].value /\ f.answers = <<>>
      BY <1>2, <2>1, <2>5
    <3> QED BY <2>5, <2>7, <2>8, <3>1, <3>2, Sending2
  <2>9. CASE Becomes(r, e)
    <3>1. /\ e.phase = "gave up" /\ e.print = run[r].print /\ e.taken = run[r].taken
          /\ e.value = run[r].value /\ e.answers = <<>> /\ e.pipe = <<>>
      BY <1>2, <2>1, <2>5, <2>6
    <3> QED BY <2>6, <2>7, <2>9, <3>1, Sending2
  <2> QED BY <1>3, <2>8, <2>9
<1>5. CASE cut.phase # "taking"
  <2>1. /\ f \in Call /\ f.print = cut.print /\ f.taken = cut.taken /\ f.value = cut.value
        /\ f.pipe = <<>> /\ f.answers = <<>>
    BY <1>2, <1>5 DEF Failed, Call, Phases, Ends
  <2>2. /\ f.phase \in {"new", "pausing"} => f.phase = cut.phase
        /\ cut.phase \in Kept => f.phase \in Kept
    BY <1>2, <1>5 DEF Failed, Call, Kept
  <2> HIDE DEF f
  <2>3. e = f
    BY <2>1 DEF Call
  <2> HIDE DEF e
  <2>4. /\ f.print = run[r].print /\ f.taken = run[r].taken /\ f.value = run[r].value
        /\ f.phase \in {"new", "pausing"} => f.phase = run[r].phase
        /\ run[r].phase \in Kept => f.phase \in Kept
    BY <1>2, <2>1, <2>2
  <2>5. Becomes(r, f)
    BY <1>3, <2>3
  <2> QED BY <2>1, <2>4, <2>5, Moving
<1> QED BY <1>4, <1>5

\* A process that dies.
LEMMA CrashKeeps == ASSUME ResultsInv, IInv', NEW r \in Runs, Crash(r) PROVE ResultsInv'
<1> DEFINE c == [run[r] EXCEPT !.phase = "crashed", !.answers = <<>>]
<1>1. run[r] \in Call /\ Becomes(r, c)
  BY DEF ResultsInv, IInv, Crash
<1>2. /\ c \in Call /\ c.phase = "crashed" /\ c.print = run[r].print /\ c.taken = run[r].taken
      /\ c.value = run[r].value /\ c.pipe = run[r].pipe /\ c.answers = <<>>
  <2>1. <<>> \in Seq(Answers)
    OBVIOUS
  <2> QED BY <1>1, <2>1 DEF Call, Phases, Ends
<1> HIDE DEF c
<1> QED BY <1>1, <1>2, Moving DEF Kept

\* An answer heard.
LEMMA HearKeeps == ASSUME ResultsInv, IInv', NEW r \in Runs, Hear(r) PROVE ResultsInv'
<1> DEFINE b == run[r]
           q == run[r].answers
           a == Head(q)
           d == After(run[r], a)
           c == [d EXCEPT !.answers = Tail(q)]
<1>1. /\ b \in Call /\ Orderly(b) /\ Replays(run, b) /\ q # <<>>
      /\ q \in Seq(Answers) /\ b.pipe \in Seq(Commands)
  BY DEF ResultsInv, IInv, Hear, Call
<1>2. a \in Answers /\ Tail(q) \in Seq(Answers)
  BY <1>1
<1>3. Becomes(r, [d EXCEPT !.answers = Tail(@)])
  BY DEF Hear
<1>4. \A s : /\ Has(Tail(q), s) => Has(q, s)
             /\ a.script = s => Has(q, s)
             /\ OneOf(q, s) => OneOf(Tail(q), s) /\ (a.script = s => ~Has(Tail(q), s))
  BY <1>1, HasFacts
<1>5. \A s, w : Says(q, s, w) => Says(Tail(q), s, w) /\ (a.script = s => a.what = w)
  BY <1>1, SaysFacts
<1>6. /\ GivesAll(run, b.print, Tail(q))
      /\ a.script = "begin" /\ a.what = "done" => Gives(run, b.print, a.by)
  BY <1>1, GivesFacts DEF Replays
<1> HIDE DEF a
<1>7. CASE a.what = "noscript"
  <2> DEFINE e == [script |-> a.script, full |-> TRUE]
  <2>1. e \in Commands /\ e.script = a.script
    BY <1>2 DEF Commands, Answers
  <2>2. d = [b EXCEPT !.pipe = Append(b.pipe, e)]
    BY <1>7 DEF After
  <2> HIDE DEF e, d
  <2>3. Append(b.pipe, e) \in Seq(Commands)
    BY <1>1, <2>1
  <2>4. d \in Call /\ d.answers = q
    BY <1>1, <2>2, <2>3 DEF Call
  <2>5. c = [d EXCEPT !.answers = Tail(@)]
    BY <2>4
  <2>6. /\ c \in Call /\ c.phase = b.phase /\ c.print = b.print /\ c.taken = b.taken
        /\ c.value = b.value /\ c.pipe = Append(b.pipe, e) /\ c.answers = Tail(q)
    BY <1>1, <1>2, <2>2, <2>3, <2>4 DEF Call
  <2> HIDE DEF c
  <2>7. \A s : /\ Has(c.pipe, s) => Has(b.pipe, s) \/ s = a.script
               /\ OneOf(b.pipe, s) /\ (a.script = s => ~Has(b.pipe, s)) => OneOf(c.pipe, s)
    BY <1>1, <2>1, <2>6, HasFacts
  <2>8. ASSUME NEW s \in {"begin", "complete"}
        PROVE  SendsOnce(c, s) /\ (Sending(c, s) => Sending(b, s))
    <3>1. SendsOnce(b, s)
      BY <1>1 DEF Orderly
    <3>2. a.script = s => ~Has(b.pipe, s) /\ ~Has(Tail(q), s)
      BY <1>4, <3>1 DEF SendsOnce
    <3>3. OneOf(c.pipe, s) /\ OneOf(Tail(q), s)
      BY <1>4, <2>7, <3>1, <3>2 DEF SendsOnce
    <3>4. ~(Has(c.pipe, s) /\ Has(Tail(q), s))
      BY <1>4, <2>7, <3>1, <3>2 DEF SendsOnce
    <3>5. Sending(c, s) => Sending(b, s)
      BY <1>4, <2>6, <2>7 DEF Sending
    <3> QED BY <2>6, <3>3, <3>4, <3>5 DEF SendsOnce
  <2>9. Orderly(c)
    BY <1>1, <2>6, <2>8 DEF Orderly
  <2>10. Replays(run, c)
    BY <1>1, <1>6, <2>6 DEF Replays
  <2>11. Began(b) => Began(c)
    <3>1. Says(q, "begin", "started") => Says(Tail(q), "begin", "started") /\ a.script # "begin"
      BY <1>5, <1>7
    <3> QED BY <2>6, <2>7, <3>1 DEF Began
  <2>12. Stored(b) => Stored(c)
    <3>1. Says(q, "complete", "yes") => Says(Tail(q), "complete", "yes") /\ a.script # "complete"
      BY <1>5, <1>7
    <3> QED BY <2>6, <2>7, <3>1 DEF Stored
  <2>13. Becomes(r, c)
    BY <1>3, <2>5
  <2> QED BY <2>6, <2>9, <2>10, <2>11, <2>12, <2>13, Changing
<1>8. CASE a.what # "noscript"
  <2>1. /\ d \in Call /\ d.print = b.print /\ d.taken = b.taken /\ d.pipe = b.pipe /\ d.answers = q
        /\ d.value = b.value \/ (d.value = a.by /\ a.script = "begin" /\ a.what = "done")
    <3>1. CASE a.script = "begin" /\ b.phase = "taking"
      <4>1. d = Begun(b, a)
        BY <1>8, <3>1 DEF After
      <4>2. a.by \in Runs \cup {NoRun}
        BY <1>2 DEF Answers
      <4>3. {"working", "replayed", "pausing", "refused"} \subseteq Phases
        BY DEF Phases, Ends
      <4>4. CASE a.what = "done"
        <5>1. d = [b EXCEPT !.phase = "replayed", !.value = a.by]
          BY <4>1, <4>4 DEF Begun
        <5> HIDE DEF d
        <5> QED BY <1>1, <3>1, <4>2, <4>3, <4>4, <5>1 DEF Call
      <4>5. CASE a.what # "done"
        <5>1. PICK phase \in {"working", "pausing", "refused"} : d = [b EXCEPT !.phase = phase]
          BY <4>1, <4>5 DEF Begun
        <5> HIDE DEF d
        <5> QED BY <1>1, <4>3, <5>1 DEF Call
      <4> QED BY <4>4, <4>5
    <3>2. CASE ~(a.script = "begin" /\ b.phase = "taking")
      <4>1. \/ d = b
            \/ d = [b EXCEPT !.lost = TRUE]
            \/ \E phase \in {"stored", "lost", "threw"} : d = [b EXCEPT !.phase = phase]
        BY <1>8, <3>2 DEF After
      <4>2. {"stored", "lost", "threw"} \subseteq Phases
        BY DEF Phases, Ends
      <4> HIDE DEF d
      <4> QED BY <1>1, <4>1, <4>2 DEF Call
    <3> QED BY <3>1, <3>2
  <2>2. \/ d.phase = b.phase /\ ~(b.phase = "taking" /\ a.script = "begin")
        \/ /\ b.phase = "taking" /\ a.script = "begin" /\ d.phase \notin {"new"} \cup Kept
           /\ a.what = "started" => d.phase = "working"
        \/ b.phase = "storing" /\ a.script = "complete" /\ a.what = "yes" /\ d.phase = "stored"
        \/ b.phase = "storing" /\ a.script = "complete" /\ a.what = "no" /\ d.phase = "lost"
        \/ b.phase = "giving back" /\ d.phase = "threw"
    <3>1. CASE a.script = "begin" /\ b.phase = "taking"
      <4>1. d = Begun(b, a)
        BY <1>8, <3>1 DEF After
      <4>2. /\ d.phase \in {"working", "replayed", "pausing", "refused"}
            /\ a.what = "started" => d.phase = "working"
        BY <1>1, <4>1 DEF Begun, Call
      <4> QED BY <3>1, <4>2 DEF Kept
    <3>2. CASE ~(a.script = "begin" /\ b.phase = "taking")
      BY <1>1, <1>8, <3>2 DEF After, Call
    <3> QED BY <3>1, <3>2
  <2>3. c = [d EXCEPT !.answers = Tail(@)]
    BY <2>1
  <2> HIDE DEF d
  <2>4. /\ c \in Call /\ c.phase = d.phase /\ c.print = b.print /\ c.taken = b.taken
        /\ c.value = d.value /\ c.pipe = b.pipe /\ c.answers = Tail(q)
    BY <1>2, <2>1 DEF Call
  <2> HIDE DEF c
  <2>5. ASSUME NEW s \in {"begin", "complete"}
        PROVE  /\ SendsOnce(c, s) /\ (Sending(c, s) => Sending(b, s))
               /\ a.script = s => ~Sending(c, s)
    <3>1. SendsOnce(b, s)
      BY <1>1 DEF Orderly
    <3> QED BY <1>4, <2>4, <3>1 DEF SendsOnce, Sending
  <2>6. Orderly(c)
    BY <1>1, <2>2, <2>4, <2>5 DEF Orderly, Kept
  <2>7. Replays(run, c)
    BY <1>1, <1>6, <2>1, <2>4 DEF Replays
  <2>8. Began(b) => Began(c)
    BY <1>5, <2>2, <2>4 DEF Began
  <2>9. Stored(b) => Stored(c)
    <3> SUFFICES ASSUME Stored(b) PROVE Stored(c)
      OBVIOUS
    <3>1. b.phase \in Kept /\ ~Has(b.pipe, "complete") /\ Says(q, "complete", "yes")
      BY DEF Stored
    <3>2. Says(Tail(q), "complete", "yes") /\ (a.script = "complete" => a.what = "yes")
      BY <1>5, <3>1
    <3>3. d.phase \in Kept
      BY <2>2, <3>1, <3>2 DEF Kept
    <3> QED BY <2>4, <3>1, <3>2, <3>3 DEF Stored
  <2>10. Becomes(r, c)
    BY <1>3, <2>3
  <2> QED BY <2>4, <2>6, <2>7, <2>8, <2>9, <2>10, Changing
<1> QED BY <1>7, <1>8

\* What the server answers says of the record what it is.
LEMMA AnswerSays ==
  ASSUME key \in Keys \cup {Free}, NEW r \in Runs, NEW script \in Scripts
  PROVE  /\ AnswerOf(r, script).what # "noscript"
         /\ script = "begin" /\ Takes => AnswerOf(r, script).what = "started"
         /\ script = "complete" /\ Held(r) => AnswerOf(r, script).what = "yes"
         /\ script = "begin" /\ AnswerOf(r, script).what = "done" =>
              /\ key.state = "done" /\ AnswerOf(r, script).by = key.by
              /\ key.print = run[r].print
<1>1. CASE script = "begin" /\ Takes
  BY <1>1 DEF AnswerOf, BeginAnswer, Answer
<1>2. CASE script = "begin" /\ ~Takes /\ key.left > 0 /\ SameRequest(r)
  <2>1. AnswerOf(r, script) = BeginAnswer(r)
    BY <1>2 DEF AnswerOf
  <2>2. key \in Keys /\ key.left \in Nat /\ key.state \in {"running", "done"}
    BY <1>2, IdempotencyAssumption DEF Takes, Free, Keys
  <2>3. key.left # 0
    BY <1>2, <2>2
  <2>4. BeginAnswer(r) = Answer("begin", key.state, IF key.state = "done" THEN key.by ELSE NoRun)
    BY <1>2, <2>3 DEF BeginAnswer
  <2> QED BY <1>2, <2>1, <2>2, <2>4 DEF Answer, SameRequest
<1>3. CASE script = "begin" /\ ~Takes /\ ~(key.left > 0 /\ SameRequest(r))
  <2>1. AnswerOf(r, script) = BeginAnswer(r)
    BY <1>3 DEF AnswerOf
  <2>2. key.left \in Nat
    BY <1>3, IdempotencyAssumption DEF Takes, Free, Keys
  <2>3. BeginAnswer(r) \in {Answer("begin", "corrupt", NoRun), Answer("begin", "mismatch", NoRun)}
    BY <1>3, <2>2 DEF BeginAnswer
  <2> QED BY <1>3, <2>1, <2>3 DEF Answer
<1>4. CASE script # "begin"
  BY <1>4 DEF AnswerOf, Answer, Completes
<1> QED BY <1>1, <1>2, <1>3, <1>4

\* The server runs a script, or does not know it.
LEMMA ServeKeeps == ASSUME ResultsInv, IInv', NEW r \in Runs, Serve(r) PROVE ResultsInv'
<1> DEFINE b == run[r]
           p == run[r].pipe
           q == run[r].answers
           t == Head(p).script
<1>1. /\ b \in Call /\ Orderly(b) /\ Replays(run, b) /\ (b.taken => Began(b)) /\ Recorded(key, run)
      /\ key \in Keys \cup {Free} /\ run \in [Runs -> Call]
      /\ p # <<>> /\ p \in Seq(Commands) /\ q \in Seq(Answers)
  BY DEF ResultsInv, IInv, Serve, Call
<1>2. Head(p) \in Commands /\ t \in Scripts /\ Tail(p) \in Seq(Commands)
  <2>1. Head(p) \in Commands /\ Tail(p) \in Seq(Commands)
    <3> HIDE DEF p
    <3> QED BY <1>1
  <2> QED BY <2>1 DEF Commands
<1>3. PICK known \in BOOLEAN :
        LET answer == IF known THEN AnswerOf(r, t) ELSE Answer(t, "noscript", NoRun)
        IN  /\ key' = IF known THEN KeyAfter(r, t) ELSE key
            /\ run' = [run EXCEPT ![r].pipe = Tail(@),
                                  ![r].answers = IF Minded(run[r], answer)
                                                 THEN Append(@, answer) ELSE @]
  BY DEF Serve
<1> DEFINE a == IF known THEN AnswerOf(r, t) ELSE Answer(t, "noscript", NoRun)
           n == IF Minded(run[r], a) THEN Append(q, a) ELSE q
           d == [run[r] EXCEPT !.pipe = Tail(p), !.answers = n]
<1>4. /\ a \in Answers /\ a.script = t
      /\ known /\ t = "begin" /\ Takes => a.what = "started"
      /\ known /\ t = "complete" /\ Held(r) => a.what = "yes"
      /\ a.script = "begin" /\ a.what = "done" =>
           key.state = "done" /\ a.by = key.by /\ key.print = b.print
  <2>1. CASE known
    <3>1. AnswerOf(r, t) \in Answers /\ AnswerOf(r, t).script = t
      BY <1>1, <1>2, ScriptFacts
    <3> QED BY <1>1, <1>2, <2>1, <3>1, AnswerSays
  <2>2. CASE ~known
    <3>1. Answer(t, "noscript", NoRun) \in Answers
      BY <1>2 DEF Answer, Answers
    <3> QED BY <2>2, <3>1 DEF Answer
  <2> QED BY <2>1, <2>2
<1>5. /\ key' = IF known THEN KeyAfter(r, t) ELSE key
      /\ run' = [run EXCEPT ![r].pipe = Tail(@),
                            ![r].answers = IF Minded(run[r], a) THEN Append(@, a) ELSE @]
  BY <1>3
<1> HIDE DEF a
<1>6. n \in Seq(Answers)
  BY <1>1, <1>4
<1>7. run' = [run EXCEPT ![r] = d]
  BY <1>1, <1>5
<1>8. /\ d \in Call /\ d.phase = b.phase /\ d.print = b.print /\ d.taken = b.taken
      /\ d.value = b.value /\ d.pipe = Tail(p) /\ d.answers = n
  <2> HIDE DEF n
  <2> QED BY <1>1, <1>2, <1>6 DEF Call
<1> HIDE DEF d
<1>9. \A s : /\ Has(Tail(p), s) => Has(p, s)
             /\ t = s => Has(p, s)
             /\ OneOf(p, s) => OneOf(Tail(p), s) /\ (t = s => ~Has(Tail(p), s))
  BY <1>1, HasFacts
<1>10. \A s : /\ Has(n, s) => Has(q, s) \/ t = s
              /\ OneOf(q, s) /\ (t = s => ~Has(q, s)) => OneOf(n, s)
  <2>1. \A s : /\ Has(Append(q, a), s) => Has(q, s) \/ a.script = s
               /\ OneOf(q, s) /\ (a.script = s => ~Has(q, s)) => OneOf(Append(q, a), s)
    BY <1>1, <1>4, HasFacts
  <2>2. n = q \/ n = Append(q, a)
    BY DEF n
  <2> HIDE DEF n, t
  <2> QED BY <1>4, <2>1, <2>2
<1>11. \A s, w : Says(q, s, w) /\ (t = s => a.what = w) => Says(n, s, w)
  <2>1. \A s, w : Says(q, s, w) /\ (a.script = s => a.what = w) => Says(Append(q, a), s, w)
    BY <1>1, <1>4, SaysFacts
  <2>2. n = q \/ n = Append(q, a)
    BY DEF n
  <2> HIDE DEF n, t
  <2> QED BY <1>4, <2>1, <2>2
<1>12. GivesAll(run, b.print, n)
  <2>1. GivesAll(run, b.print, q)
    BY <1>1 DEF Replays
  <2>2. a.script = "begin" /\ a.what = "done" => Gives(run, b.print, a.by)
    <3>1. key.state = "done" => key \in Keys /\ key.by \in Runs
      BY <1>1 DEF Keys, Free
    <3> QED BY <1>1, <1>4, <3>1 DEF Recorded, Gives
  <2>3. GivesAll(run, b.print, Append(q, a))
    BY <1>1, <1>4, <2>1, <2>2, GivesFacts
  <2> QED BY <2>1, <2>3 DEF n
<1> HIDE DEF n, t
<1>13. ASSUME NEW s \in {"begin", "complete"}
       PROVE  /\ SendsOnce(d, s) /\ (Sending(d, s) => Sending(b, s))
              /\ t = s => ~Has(q, s) /\ ~Has(Tail(p), s) /\ Sending(b, s)
  <2>1. SendsOnce(b, s)
    BY <1>1 DEF Orderly
  <2>2. t = s => ~Has(q, s) /\ ~Has(Tail(p), s) /\ Sending(b, s)
    BY <1>9, <2>1 DEF SendsOnce, Sending
  <2>3. OneOf(d.pipe, s) /\ OneOf(d.answers, s)
    BY <1>8, <1>9, <1>10, <2>1, <2>2 DEF SendsOnce
  <2>4. ~(Has(d.pipe, s) /\ Has(d.answers, s))
    BY <1>8, <1>9, <1>10, <2>1, <2>2 DEF SendsOnce
  <2>5. Sending(d, s) => Sending(b, s)
    BY <1>8, <1>9, <1>10 DEF Sending
  <2> QED BY <2>2, <2>3, <2>4, <2>5 DEF SendsOnce
<1>14. Orderly(d)
  BY <1>1, <1>8, <1>13 DEF Orderly
<1>15. Replays(run, d)
  BY <1>1, <1>8, <1>12 DEF Replays
<1>16. (Began(b) => Began(d)) /\ (Stored(b) => Stored(d))
  <2>1. ASSUME Began(b) PROVE Began(d)
    <3>1. t # "begin" /\ ~Has(Tail(p), "begin")
      BY <1>9, <2>1 DEF Began
    <3> QED BY <1>8, <1>11, <2>1, <3>1 DEF Began
  <2>2. ASSUME Stored(b) PROVE Stored(d)
    <3>1. t # "complete" /\ ~Has(Tail(p), "complete")
      BY <1>9, <2>2 DEF Stored
    <3> QED BY <1>8, <1>11, <2>2, <3>1 DEF Stored
  <2> QED BY <2>1, <2>2
<1>17. ASSUME NEW s \in Runs
       PROVE  /\ run'[s].print = run[s].print /\ run'[s].taken = run[s].taken
              /\ Stored(run[s]) => Stored(run'[s])
              /\ Began(run[s]) => Began(run'[s])
              /\ Orderly(run'[s]) /\ Replays(run, run'[s])
  <2>1. CASE s = r
    <3>1. run'[s] = d
      BY <1>1, <1>7, <2>1
    <3> QED BY <1>8, <1>14, <1>15, <1>16, <2>1, <3>1
  <2>2. CASE s # r
    <3>1. run'[s] = run[s]
      BY <1>1, <1>7, <2>2
    <3> QED BY <3>1 DEF ResultsInv
  <2> QED BY <2>1, <2>2
<1>18. Recorded(key', run')
  <2>1. key.state # "free" => key \in Keys /\ key.by \in Runs /\ key.state \in {"running", "done"}
    BY <1>1 DEF Keys, Free
  <2>2. CASE key' = key
    BY <1>1, <1>17, <2>1, <2>2 DEF Recorded
  <2>3. CASE known /\ t = "begin" /\ Takes
    <3>1. key' = [state |-> "running", by |-> r, print |-> b.print, left |-> Lease]
      BY <1>5, <2>3 DEF KeyAfter
    <3>2. Sending(b, "begin") /\ ~Has(q, "begin") /\ ~Has(Tail(p), "begin") /\ Has(p, "begin")
      BY <1>9, <1>13, <2>3
    <3>3. Says(q, "begin", "started")
      BY <3>2 DEF Says, Has
    <3>4. Says(n, "begin", "started")
      BY <1>4, <1>11, <2>3, <3>3
    <3>5. b.phase \notin {"new", "pausing"}
      BY <1>1, <3>2 DEF Orderly
    <3>6. Began(d)
      BY <1>8, <3>2, <3>4, <3>5 DEF Began
    <3>7. ~b.taken
      BY <1>1, <3>2 DEF Began
    <3>8. run'[r] = d
      BY <1>1, <1>7
    <3> QED BY <1>8, <3>1, <3>6, <3>7, <3>8 DEF Recorded
  <2>4. CASE known /\ t = "complete" /\ Held(r)
    <3>1. key' = [state |-> "done", by |-> r, print |-> key.print, left |-> Ttl]
      BY <1>5, <2>4 DEF KeyAfter, Completes
    <3>2. Sending(b, "complete") /\ ~Has(q, "complete") /\ ~Has(Tail(p), "complete")
      BY <1>13, <2>4
    <3>3. Says(q, "complete", "yes")
      BY <3>2 DEF Says, Has
    <3>4. Says(n, "complete", "yes")
      BY <1>4, <1>11, <2>4, <3>3
    <3>5. b.phase \in Kept
      BY <1>1, <3>2 DEF Orderly
    <3>6. Stored(d)
      BY <1>8, <3>2, <3>4, <3>5 DEF Stored
    <3>7. b.print = key.print /\ ~b.taken
      BY <1>1, <2>4 DEF Recorded, Held
    <3>8. run'[r] = d
      BY <1>1, <1>7
    <3> QED BY <1>8, <3>1, <3>6, <3>7, <3>8 DEF Recorded
  <2>5. CASE known /\ t = "renew" /\ Held(r)
    <3>1. key' = [key EXCEPT !.left = Lease] /\ key \in Keys
      BY <1>5, <2>1, <2>5 DEF KeyAfter, Held
    <3>2. key'.state = key.state /\ key'.by = key.by /\ key'.print = key.print
      BY <3>1 DEF Keys
    <3> QED BY <1>1, <1>17, <2>1, <3>2 DEF Recorded
  <2>6. CASE known /\ t = "release"
    <3>1. key' = Free \/ key' = key
      BY <1>5, <2>6 DEF KeyAfter, Released
    <3> QED BY <2>2, <3>1 DEF Recorded, Free
  <2>7. CASE known /\ ~(t = "begin" /\ Takes) /\ ~(t = "complete" /\ Held(r))
             /\ ~(t = "renew" /\ Held(r)) /\ t # "release"
    <3>1. key' = key
      BY <1>5, <2>7 DEF KeyAfter, Completes
    <3> QED BY <2>2, <3>1
  <2>8. CASE ~known
    BY <1>5, <2>2, <2>8
  <2> QED BY <2>3, <2>4, <2>5, <2>6, <2>7, <2>8
<1>19. \A s \in Runs : run'[s].taken => Began(run'[s])
  BY <1>17 DEF ResultsInv
<1> QED BY <1>17, <1>18, <1>19, Keep

\* The key changes of itself: where it is gone, its holder is marked.
LEMMA Passes ==
  ASSUME ResultsInv, IInv',
         \A r \in Runs : /\ run'[r].phase = run[r].phase /\ run'[r].print = run[r].print
                         /\ run'[r].value = run[r].value
                         /\ run'[r].pipe = run[r].pipe /\ run'[r].answers = run[r].answers
                         /\ run'[r].taken => run[r].taken \/ Held(r),
         \/ key' = Free
         \/ /\ key' \in Keys /\ key \in Keys
            /\ key'.state = key.state /\ key'.by = key.by /\ key'.print = key.print
            /\ \A r \in Runs : run'[r].taken => run[r].taken
  PROVE  ResultsInv'
<1>1. ASSUME NEW r \in Runs
      PROVE  /\ run'[r].print = run[r].print
             /\ Stored(run[r]) => Stored(run'[r])
             /\ Began(run[r]) => Began(run'[r])
             /\ Orderly(run'[r]) /\ Replays(run, run'[r])
  <2>1. Orderly(run[r]) /\ Replays(run, run[r])
    BY DEF ResultsInv
  <2>2. /\ run'[r].phase = run[r].phase /\ run'[r].print = run[r].print
        /\ run'[r].value = run[r].value
        /\ run'[r].pipe = run[r].pipe /\ run'[r].answers = run[r].answers
    OBVIOUS
  <2>3. Orderly(run'[r]) /\ (Began(run[r]) => Began(run'[r])) /\ (Stored(run[r]) => Stored(run'[r]))
    BY <2>1, <2>2, SameSay
  <2>4. Replays(run, run'[r])
    BY <2>1, <2>2 DEF Replays
  <2> QED BY <2>2, <2>3, <2>4
<1>2. ASSUME NEW r \in Runs, run'[r].taken PROVE Began(run'[r])
  <2>1. Began(run[r])
    <3>1. CASE run[r].taken
      BY <3>1 DEF ResultsInv
    <3>2. CASE Held(r)
      BY <3>2 DEF ResultsInv, Recorded, Held
    <3> QED BY <1>2, <3>1, <3>2
  <2> QED BY <1>1, <2>1
<1>3. Recorded(key', run')
  <2>1. CASE key' = Free
    BY <2>1 DEF Recorded, Free
  <2>2. CASE /\ key' \in Keys /\ key \in Keys
             /\ key'.state = key.state /\ key'.by = key.by /\ key'.print = key.print
             /\ \A r \in Runs : run'[r].taken => run[r].taken
    <3>1. key.by \in Runs /\ Recorded(key, run)
      BY <2>2 DEF Keys, ResultsInv
    <3> QED BY <1>1, <2>2, <3>1 DEF Recorded
  <2> QED BY <2>1, <2>2
<1> QED BY <1>1, <1>2, <1>3, Keep

\* forget.
LEMMA ForgetKeeps == ASSUME ResultsInv, IInv', Forget PROVE ResultsInv'
<1>1. /\ key' = Free /\ run \in [Runs -> Call]
      /\ run' = [r \in Runs |-> [run[r] EXCEPT !.taken = @ \/ Held(r)]]
  BY DEF ResultsInv, IInv, Forget, Gone
<1>2. ASSUME NEW r \in Runs
      PROVE  /\ run'[r].phase = run[r].phase /\ run'[r].print = run[r].print
             /\ run'[r].value = run[r].value
             /\ run'[r].pipe = run[r].pipe /\ run'[r].answers = run[r].answers
             /\ run'[r].taken => run[r].taken \/ Held(r)
  <2>1. run'[r] = [run[r] EXCEPT !.taken = run[r].taken \/ Held(r)] /\ run[r] \in Call
    BY <1>1
  <2> QED BY <2>1 DEF Call
<1> QED BY <1>1, <1>2, Passes

\* Time passes.
LEMMA TickKeeps == ASSUME ResultsInv, IInv', Tick PROVE ResultsInv'
<1>1. /\ key \in Keys \cup {Free} /\ run \in [Runs -> Call] /\ key' \in Keys \cup {Free}
      /\ key' = IF key.state = "free" \/ key.left = 0 THEN Free ELSE [key EXCEPT !.left = @ - 1]
      /\ run' = [r \in Runs |->
                  [Waited(run[r]) EXCEPT !.taken = @ \/ (Held(r) /\ key.left = 0)]]
  BY DEF ResultsInv, IInv, Tick
<1>2. ASSUME NEW r \in Runs
      PROVE  /\ run'[r].phase = run[r].phase /\ run'[r].print = run[r].print
             /\ run'[r].value = run[r].value
             /\ run'[r].pipe = run[r].pipe /\ run'[r].answers = run[r].answers
             /\ run'[r].taken => run[r].taken \/ (Held(r) /\ key.left = 0)
  <2> DEFINE w == Waited(run[r])
  <2>1. run[r] \in Call
    BY <1>1
  <2>2. \E x : w = [run[r] EXCEPT !.wait = x]
    BY DEF Waited
  <2>3. /\ w.phase = run[r].phase /\ w.print = run[r].print /\ w.value = run[r].value
        /\ w.pipe = run[r].pipe /\ w.answers = run[r].answers /\ w.taken = run[r].taken
        /\ DOMAIN w = DOMAIN run[r]
    <3> HIDE DEF w
    <3> QED BY <2>1, <2>2 DEF Call
  <2>4. run'[r] = [w EXCEPT !.taken = w.taken \/ (Held(r) /\ key.left = 0)]
    BY <1>1
  <2> HIDE DEF w
  <2> QED BY <2>1, <2>3, <2>4 DEF Call
<1>3. CASE key.state = "free" \/ key.left = 0
  BY <1>1, <1>2, <1>3, Passes
<1>4. CASE key.state # "free" /\ key.left # 0
  <2>1. key \in Keys /\ key' = [key EXCEPT !.left = key.left - 1]
    BY <1>1, <1>4 DEF Free
  <2>2. key'.state = key.state /\ key'.by = key.by /\ key'.print = key.print /\ key'.state # "free"
    BY <1>4, <2>1 DEF Keys
  <2>3. key' \in Keys
    BY <1>1, <2>2 DEF Free
  <2> QED BY <1>2, <1>4, <2>1, <2>2, <2>3, Passes
<1> QED BY <1>3, <1>4

\* No call has begun.
LEMMA InitResults == Init => ResultsInv
<1> SUFFICES ASSUME Init PROVE ResultsInv
  OBVIOUS
<1>1. IInv
  BY InitIInv
<1>2. ASSUME NEW r \in Runs
      PROVE  /\ run[r].phase = "new" /\ run[r].pipe = <<>> /\ run[r].answers = <<>>
             /\ run[r].value = NoRun /\ ~run[r].taken
  BY DEF Init
<1>3. \A s : ~Has(<<>>, s) /\ OneOf(<<>>, s)
  BY DEF Has, OneOf
<1>4. \A rs, p : GivesAll(rs, p, <<>>)
  BY DEF GivesAll
<1>5. ASSUME NEW r \in Runs PROVE Orderly(run[r]) /\ Replays(run, run[r]) /\ ~run[r].taken
  BY <1>2, <1>3, <1>4 DEF Orderly, SendsOnce, Sending, Replays
<1>6. Recorded(key, run)
  BY DEF Init, Recorded, Free
<1> QED BY <1>1, <1>5, <1>6 DEF ResultsInv

\* Every step keeps it.
LEMMA NextResults == ResultsInv /\ [Next]_vars => ResultsInv'
<1> SUFFICES ASSUME ResultsInv, [Next]_vars PROVE ResultsInv'
  OBVIOUS
<1>1. IInv'
  BY NextIInv DEF ResultsInv
<1>2. ASSUME NEW r \in Runs,
             \/ Begin(r) \/ Serve(r) \/ Hear(r) \/ Beat(r) \/ WorkReturns(r) \/ WorkThrows(r)
             \/ TimeOut(r) \/ LoseConnection(r) \/ Crash(r)
      PROVE  ResultsInv'
  BY <1>1, <1>2, BeginKeeps, ServeKeeps, HearKeeps, BeatKeeps, WorkKeeps, TimeOutKeeps,
     LoseKeeps, CrashKeeps
<1>3. CASE Forget
  BY <1>1, <1>3, ForgetKeeps
<1>4. CASE Tick
  BY <1>1, <1>4, TickKeeps
<1>5. CASE UNCHANGED vars
  <2>1. key' = key /\ run' = run
    BY <1>5 DEF vars
  <2> QED BY <1>1, <2>1 DEF ResultsInv
<1> QED BY <1>2, <1>3, <1>4, <1>5 DEF Next

\* The result on record is of the run that held the key all along and was never
\* told it was lost; and what a call replays is the result of work that returned
\* for the same request: whatever answers are late, lost or of another script
\* than the last (run.ts, scripts.ts).
THEOREM ResultsHoldAlways == Spec => []ResultsHold
<1>1. ResultsInv => ResultsHold
  <2> SUFFICES ASSUME ResultsInv PROVE ResultsHold
    OBVIOUS
  <2>1. StoredByHolder
    BY DEF ResultsInv, Recorded, Stored, Kept, StoredByHolder
  <2>2. ReplaysAsked
    BY DEF ResultsInv, Replays, Gives, Stored, Kept, ReplaysAsked
  <2> QED BY <2>1, <2>2 DEF ResultsHold
<1> QED BY <1>1, InitResults, NextResults, PTL DEF Spec

=============================================================================
