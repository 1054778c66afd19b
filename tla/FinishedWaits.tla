---------------------------- MODULE FinishedWaits ---------------------------
(***************************************************************************)
(* The `finished' calls of one Redis, and its close.  A call listens to    *)
(* the events of its queue, reads the job, and reads it again at times;    *)
(* all calls of a client share one subscriber connection, opened by the    *)
(* first listen and closed by the last, where each channel is subscribed   *)
(* and unsubscribed in turn.  The close of the Redis ends the calls that   *)
(* still wait, once the events on their way have been heard.               *)
(*                                                                         *)
(* A queue has one job of interest.  Commands and answers keep the order   *)
(* of their connection.  What follows a settled promise at once (the       *)
(* finally of a call, its unlisten) is part of the step that settles it.   *)
(***************************************************************************)
EXTENDS Naturals, Sequences, FiniteSets

CONSTANTS
  Waits,           \* the calls of `finished', and the workers, which listen for cancels
  Workers,         \* those of them that are workers
  Channels,        \* the queues, each by its events channel
  ChannelOf,       \* the queue each call is about
  Ending,          \* the queues whose job may end
  MaxSubscribers,  \* how many subscriber connections are opened at most
  MaxDrops,        \* how many times the server drops one
  NoRead           \* no read under way

ASSUME WaitsAssumption ==
  /\ ChannelOf \in [Waits -> Channels] /\ Workers \subseteq Waits /\ Ending \subseteq Channels
  /\ MaxSubscribers \in Nat \ {0} /\ MaxDrops \in Nat
  /\ "life" \notin Waits

Subscribers == 1 .. MaxSubscribers
NoSubscriber == 0
Life == "life"

VARIABLES
  job,         \* where each queue's job is
  subscriber,  \* each subscriber connection: its channels, and what is under way
  shared,      \* the one a listen joins
  wait,        \* each call
  life,        \* how far the close of the Redis is
  drops        \* how often a connection was dropped

finishedVars == <<job, subscriber, shared, wait, life, drops>>

\* A channel: the calls that listen to it (none: it has no entry), and the
\* SUBSCRIBE and UNSUBSCRIBE of it not answered yet, each sent after the one
\* before it was answered; `ran' once Redis ran the first.
NoChannel == [who |-> {}, turns |-> <<>>, ran |-> FALSE]

\* `heard' are the channels Redis sends to the connection, `cut' those whose
\* listeners hear nothing since the server dropped it.
NewState ==
  [conn |-> "none", closing |-> FALSE, heard |-> {}, cut |-> {}, pings |-> {}, in |-> <<>>,
   of |-> [q \in Channels |-> NoChannel]]

\* `owed' is the call that must hear of its job's end.
NewWait == [at |-> "new", answer |-> "none", read |-> NoRead, absent |-> FALSE, owed |-> FALSE]

FinishedInit ==
  /\ job = [q \in Channels |-> "there"]
  /\ subscriber = [h \in Subscribers |-> NewState] /\ shared = NoSubscriber
  /\ wait = [w \in Waits |-> NewWait]
  /\ life = "open" /\ drops = 0

\* The connection a call listens through.
SubscriberOf(w) == {h \in Subscribers : w \in subscriber[h].of[ChannelOf[w]].who}

\* Whether the SUBSCRIBE of a channel's entry was answered.
Ready(s, q) ==
  s.of[q].who # {} /\ \A i \in DOMAIN s.of[q].turns : s.of[q].turns[i] # "subscribe"

-----------------------------------------------------------------------------
(* Listening. *)

\* A mistake: it is sent at once.
BadTurns(s, q) ==
  IF s.of[q].ran THEN Append(s.of[q].turns, "subscribe") ELSE <<"subscribe">> \o s.of[q].turns

\* The SUBSCRIBE of a channel that has no listener: after its UNSUBSCRIBE.
Turns(s, q) == Append(s.of[q].turns, "subscribe")

Joined(s, q, w) ==
  [s EXCEPT !.conn = IF @ = "none" THEN "opening" ELSE @,
            !.of[q].who = @ \cup {w},
            !.of[q].turns = IF s.of[q].who = {} THEN Turns(s, q) ELSE @]

\* Where a listener goes on once it listens.
Goes(w) == IF w \in Workers THEN "wait" ELSE "read"

\* finished(), refused once the Redis is closed, and work(), once it closes.
Finished(w) ==
  /\ wait[w].at = "new" /\ life \in IF w \in Workers THEN {"open"} ELSE {"open", "closing"}
  /\ \E h \in Subscribers :
       /\ IF shared # NoSubscriber THEN h = shared ELSE subscriber[h].conn = "none"
       /\ subscriber' = [subscriber EXCEPT ![h] = Joined(@, ChannelOf[w], w)]
       /\ shared' = h
       /\ wait' = [wait EXCEPT
            ![w].at = IF Ready(subscriber[h], ChannelOf[w]) THEN Goes(w) ELSE "listen"]
  /\ UNCHANGED <<job, life, drops>>

\* Calls W unlisten: a channel left without listeners is unsubscribed; with
\* none left, the connection is closed after what is under way on it.
Left(s, W) ==
  LET of    == [q \in Channels |-> [s.of[q] EXCEPT !.who = @ \ W]]
      empty == {q \in Channels : s.of[q].who # {} /\ of[q].who = {}}
      none  == \A q \in Channels : of[q].who = {}
      last  == IF none /\ empty # {} THEN {CHOOSE q \in empty : TRUE} ELSE {}
      goes  == [q \in Channels |->
                  IF q \in empty \ last THEN [of[q] EXCEPT !.turns = Append(@, "unsubscribe")]
                  ELSE of[q]]
  IN  [s EXCEPT !.of = goes,
                !.closing = @ \/ last # {}, !.cut = @ \ empty]

\* Calls W of connection h unlisten; a listen that comes after the last of
\* them opens a connection of its own.
Unlisten(h, s, W) ==
  /\ subscriber' = [subscriber EXCEPT ![h] = Left(s, W)]
  /\ shared' = IF shared = h /\ Left(s, W).closing THEN NoSubscriber ELSE shared

Stays == UNCHANGED <<subscriber, shared>>

-----------------------------------------------------------------------------
(* The end of a call. *)

OverWith(w, answer) ==
  [NewWait EXCEPT !.at = "over", !.answer = answer, !.owed = answer # "told" /\ wait[w].owed]

\* Calls W settle with an answer and unlisten, at once if they are listening,
\* else when their SUBSCRIBE is answered.
EndCalls(W, answer) ==
  LET on == {w \in W : \E h \in SubscriberOf(w) : Ready(subscriber[h], ChannelOf[w])} IN
  /\ wait' = [w \in Waits |-> IF w \in W THEN OverWith(w, answer) ELSE wait[w]]
  /\ IF on = {} THEN Stays
     ELSE \E h \in Subscribers :
            /\ \A w \in on : h \in SubscriberOf(w)
            /\ Unlisten(h, subscriber[h], on)

Pending(w) == wait[w].at \notin {"new", "over"}

EndsCall(w, answer) == Pending(w) /\ EndCalls({w}, answer) /\ UNCHANGED <<job, life, drops>>

-----------------------------------------------------------------------------
(* The connection. *)

Opened(h) ==
  /\ subscriber[h].conn = "opening"
  /\ subscriber' = [subscriber EXCEPT ![h].conn = "open"]
  /\ UNCHANGED <<job, shared, wait, life, drops>>

\* A failed open is reported to every listen that waits for it.
OpenFails(h) ==
  /\ subscriber[h].conn = "opening"
  /\ subscriber' = [subscriber EXCEPT ![h] = [NewState EXCEPT !.conn = "closed"]]
  /\ shared' = IF shared = h THEN NoSubscriber ELSE shared
  /\ wait' = [w \in Waits |->
       IF h \in SubscriberOf(w) /\ Pending(w) THEN OverWith(w, "told") ELSE wait[w]]
  /\ UNCHANGED <<job, life, drops>>

\* Redis runs the command a channel is at, or a PING, and answers behind what
\* it has sent the connection.
RunTurn(h, q) ==
  /\ subscriber[h].conn = "open" /\ subscriber[h].of[q].turns # <<>> /\ ~subscriber[h].of[q].ran
  /\ LET c == Head(subscriber[h].of[q].turns) IN
       subscriber' = [subscriber EXCEPT
         ![h].of[q].ran = TRUE, ![h].in = Append(@, <<c, q>>),
         ![h].heard = IF c = "subscribe" THEN @ \cup {q} ELSE @ \ {q}]
  /\ UNCHANGED <<job, shared, wait, life, drops>>

RunPing(h, by) ==
  /\ subscriber[h].conn = "open" /\ by \in subscriber[h].pings
  /\ subscriber' = [subscriber EXCEPT ![h].pings = @ \ {by}, ![h].in = Append(@, <<"ping", by>>)]
  /\ UNCHANGED <<job, shared, wait, life, drops>>

\* A message: the outcome of the job, to every listener of the channel.
EventHeard(h, q) ==
  LET s == [subscriber[h] EXCEPT !.in = Tail(@)]
      W == {w \in subscriber[h].of[q].who \ Workers : Pending(w)}
  IN  /\ wait' = [w \in Waits |-> IF w \in W THEN OverWith(w, "told") ELSE wait[w]]
      /\ IF Ready(s, q) THEN Unlisten(h, s, W)
         ELSE subscriber' = [subscriber EXCEPT ![h] = s] /\ UNCHANGED shared
      /\ UNCHANGED life

\* SUBSCRIBE or UNSUBSCRIBE answered: a listen resolves, and a call that is
\* over by then unlistens.
TurnAnswered(h, q) ==
  LET s == [subscriber[h] EXCEPT
              !.in = Tail(@), !.cut = @ \ {q}, !.of[q].turns = Tail(@), !.of[q].ran = FALSE]
      W == {w \in s.of[q].who : wait[w].at = "listen"}
  IN  /\ IF Ready(s, q)
         THEN /\ wait' = [w \in Waits |->
                   IF w \in W THEN [wait[w] EXCEPT !.at = Goes(w)] ELSE wait[w]]
              /\ Unlisten(h, s, {w \in s.of[q].who : wait[w].at = "over"})
         ELSE subscriber' = [subscriber EXCEPT ![h] = s] /\ UNCHANGED <<shared, wait>>
      /\ UNCHANGED life

\* PING answered: flush resolves, for a call that read no job or for the close.
Ponged(h, by) ==
  /\ IF by = Life
     THEN /\ life' = IF life = "flushing" THEN "flushed" ELSE life
          /\ subscriber' = [subscriber EXCEPT ![h].in = Tail(@)] /\ UNCHANGED <<shared, wait>>
     ELSE LET s == [subscriber[h] EXCEPT !.in = Tail(@)] IN
          /\ UNCHANGED life
          /\ IF wait[by].at = "flush"
             THEN wait' = [wait EXCEPT ![by] = OverWith(by, "not found")] /\ Unlisten(h, s, {by})
             ELSE subscriber' = [subscriber EXCEPT ![h] = s] /\ UNCHANGED <<shared, wait>>

Receive(h) ==
  /\ subscriber[h].in # <<>>
  /\ LET c == Head(subscriber[h].in) IN
       CASE c[1] = "event" -> EventHeard(h, c[2])
         [] c[1] = "ping"  -> Ponged(h, c[2])
         [] OTHER          -> TurnAnswered(h, c[2])
  /\ UNCHANGED <<job, drops>>

\* The flush of the close ends with the connection its PING is on.
FlushedBy(h) ==
  LET s == subscriber[h] IN
  IF /\ life = "flushing"
     /\ Life \in s.pings \/ \E i \in DOMAIN s.in : s.in[i] = <<"ping", Life>>
  THEN "flushed" ELSE life

\* The server drops the connection: it is not resubscribed, what was under way
\* is lost, and the commands of it fail - a listen with its SUBSCRIBE, a flush
\* as if it were answered.
Drop(h) ==
  LET of     == subscriber[h].of
      broken == {q \in Channels : of[q].turns # <<>>}
      dead   == {w \in Waits : /\ h \in SubscriberOf(w) /\ ~Ready(subscriber[h], ChannelOf[w])
                               /\ Len(of[ChannelOf[w]].turns) = 1}
      pinged == {w \in Waits : h \in SubscriberOf(w) /\ wait[w].at = "flush"}
      failed == [q \in Channels |->
                   IF q \in broken THEN [of[q] EXCEPT !.turns = Tail(@), !.ran = FALSE] ELSE of[q]]
      s      == [subscriber[h] EXCEPT
                   !.heard = {}, !.cut = {q \in Channels : of[q].who # {}}, !.pings = {},
                   !.in = <<>>, !.of = failed]
  IN  /\ subscriber[h].conn = "open" /\ drops < MaxDrops /\ drops' = drops + 1
      /\ wait' = [w \in Waits |->
           IF w \in dead /\ Pending(w) THEN OverWith(w, "told")
           ELSE IF w \in pinged THEN [OverWith(w, "not found") EXCEPT !.owed = FALSE]
           ELSE IF h \in SubscriberOf(w) THEN [wait[w] EXCEPT !.owed = FALSE] ELSE wait[w]]
      /\ UNCHANGED job
      /\ life' = FlushedBy(h)
      /\ Unlisten(h, s, dead \cup pinged)

\* The close of a connection nobody listens to, behind its UNSUBSCRIBEs.
CloseSubscriber(h) ==
  /\ subscriber[h].closing /\ subscriber[h].conn = "open"
  /\ \A q \in Channels : subscriber[h].of[q].turns = <<>>
  /\ subscriber' = [subscriber EXCEPT ![h] = [NewState EXCEPT !.conn = "closed"]]
  /\ life' = FlushedBy(h)
  /\ UNCHANGED <<job, shared, wait, drops>>

-----------------------------------------------------------------------------
(* Reading the job. *)

\* The first read runs, and is answered: an absent job is believed once the
\* events on their way have been heard.
ReadRuns(w) ==
  /\ wait[w].at = "read" /\ wait[w].read = NoRead
  /\ wait' = [wait EXCEPT ![w].read = job[ChannelOf[w]]]
  /\ UNCHANGED <<job, subscriber, shared, life, drops>>

ReadAnswered(w) ==
  /\ wait[w].at = "read" /\ wait[w].read # NoRead
  /\ IF wait[w].read = "kept" THEN EndCalls({w}, "told")
     ELSE IF wait[w].read = "there"
     THEN wait' = [wait EXCEPT ![w].at = "wait"] /\ Stays
     ELSE /\ wait' = [wait EXCEPT ![w].at = "flush"]
          /\ subscriber' = [h \in Subscribers |->
               IF h \in SubscriberOf(w) THEN [subscriber[h] EXCEPT !.pings = @ \cup {w}]
               ELSE subscriber[h]]
          /\ UNCHANGED shared
  /\ UNCHANGED <<job, life, drops>>

\* An event of its queue is on its way to a call.
OnItsWay(w) ==
  \E h \in SubscriberOf(w) :
    \E i \in DOMAIN subscriber[h].in : subscriber[h].in[i] = <<"event", ChannelOf[w]>>

\* The second re-read in a row that finds no job is believed.
Believed(w) == wait[w].absent

\* A re-read, REREAD_MS after the one before: an event takes less than that.
Reread(w) ==
  /\ w \notin Workers /\ wait[w].at \in {"read", "flush", "wait"}
  /\ wait[w].absent => ~OnItsWay(w)
  /\ LET stored == job[ChannelOf[w]] IN
     IF stored = "gone" /\ ~Believed(w)
     THEN wait' = [wait EXCEPT ![w].absent = TRUE] /\ Stays
     ELSE IF stored = "there"
     THEN wait' = [wait EXCEPT ![w].absent = FALSE] /\ Stays
     ELSE EndCalls({w}, IF stored = "kept" THEN "told" ELSE "not found")
  /\ UNCHANGED <<job, life, drops>>

\* The first read fails; a re-read that fails waits for the next.
ReadFails(w) == wait[w].at = "read" /\ EndsCall(w, "told")

\* The timeout of a call, or the close of a worker.
TimesOut(w) == EndsCall(w, "told")

-----------------------------------------------------------------------------
(* The job, and the close. *)

\* The calls an event reaches for sure: they listen, and are still answered by
\* what they hear.
Hearing(q) ==
  {w \in Waits \ Workers :
     /\ Pending(w) /\ ChannelOf[w] = q
     /\ \E h \in SubscriberOf(w) : Ready(subscriber[h], q) /\ q \notin subscriber[h].cut}

\* The job ends, in a script that publishes it: its hash is kept, or deleted (a
\* cancel; keepCompleted false).
JobEnds(q, to) ==
  /\ job[q] = "there" /\ job' = [job EXCEPT ![q] = to]
  /\ wait' = [w \in Waits |->
       IF w \in Hearing(q) /\ life \in {"open", "closing"} THEN [wait[w] EXCEPT !.owed = TRUE]
       ELSE wait[w]]
  /\ subscriber' = [h \in Subscribers |->
       IF q \in subscriber[h].heard /\ subscriber[h].of[q].who # {}
       THEN [subscriber[h] EXCEPT !.in = Append(@, <<"event", q>>)] ELSE subscriber[h]]
  /\ UNCHANGED <<shared, life, drops>>

\* remove, or the trim of ended jobs: nothing is published.
JobRemoved(q) ==
  /\ job[q] # "gone" /\ job' = [job EXCEPT ![q] = "gone"]
  /\ UNCHANGED <<subscriber, shared, wait, life, drops>>

\* The workers close with their grace: jobs may end meanwhile.
CloseBegins ==
  /\ life = "open" /\ life' = "closing"
  /\ UNCHANGED <<job, subscriber, shared, wait, drops>>

Listening == \E w \in Waits : SubscriberOf(w) # {}

\* The workers are closed: a flush, while a call waits.
CloseFlushes ==
  /\ life = "closing" /\ \A w \in Workers : ~Pending(w)
  /\ IF Listening /\ shared # NoSubscriber
     THEN life' = "flushing" /\ subscriber' = [subscriber EXCEPT ![shared].pings = @ \cup {Life}]
     ELSE life' = "flushed" /\ UNCHANGED subscriber
  /\ UNCHANGED <<job, shared, wait, drops>>

\* The PING is not answered within RELEASE_MS.
FlushExpires ==
  /\ life = "flushing" /\ life' = "flushed"
  /\ wait' = [w \in Waits |-> [wait[w] EXCEPT !.owed = FALSE]]
  /\ UNCHANGED <<job, subscriber, shared, drops>>

\* Every call still pending is rejected.
Aborts ==
  /\ life = "flushed" /\ life' = "closed"
  /\ EndCalls({w \in Waits : Pending(w)}, "closed")
  /\ UNCHANGED <<job, drops>>

FinishedNext ==
  \/ \E w \in Waits :
       \/ Finished(w) \/ ReadRuns(w) \/ ReadAnswered(w) \/ Reread(w)
       \/ ReadFails(w) \/ TimesOut(w)
  \/ \E h \in Subscribers :
       \/ Opened(h) \/ OpenFails(h) \/ Receive(h) \/ Drop(h) \/ CloseSubscriber(h)
       \/ \E q \in Channels : RunTurn(h, q)
       \/ \E by \in Waits \cup {Life} : RunPing(h, by)
  \/ \E q \in Ending : JobRemoved(q) \/ \E to \in {"kept", "gone"} : JobEnds(q, to)
  \/ CloseBegins \/ CloseFlushes \/ FlushExpires \/ Aborts

FinishedSpec == FinishedInit /\ [][FinishedNext]_finishedVars

-----------------------------------------------------------------------------
(* Properties. *)

FinishedTypeOK ==
  /\ job \in [Channels -> {"there", "kept", "gone"}]
  /\ shared \in {NoSubscriber} \cup Subscribers /\ drops \in 0 .. MaxDrops
  /\ life \in {"open", "closing", "flushing", "flushed", "closed"}
  /\ \A w \in Waits : wait[w].at \in {"new", "listen", "read", "flush", "wait", "over"}
                      /\ Cardinality(SubscriberOf(w)) <= 1

\* A call that was listening when its job ended is told its outcome: it is
\* neither told that there is no such job, though the hash is gone by the time
\* it is read, nor that the Redis closed, if the job ended in the grace -
\* unless the server dropped the connection, or did not answer the close
\* (handle.ts waitFinished; life.ts run).
TellsOutcome ==
  \A w \in Waits : wait[w].answer \in {"not found", "closed"} => ~wait[w].owed

=============================================================================
