---------------------------- MODULE KeyedStreams ----------------------------
(***************************************************************************)
(* The streams of one channel in one process: iterators that each hear the *)
(* messages of a key, over one subscription that the first of them opens   *)
(* and the last to leave closes.  An attempt to subscribe that the hub let *)
(* go of may still resolve: it is closed in the background, and until      *)
(* Redis has closed it its connection brings every message beside the      *)
(* next.  A publish that fails may be delivered here instead.              *)
(*                                                                         *)
(* The buffer of an iterator, which drops its oldest messages past its     *)
(* size, is left out: what is told is what was pushed into it.             *)
(***************************************************************************)
EXTENDS Naturals, Sequences, FiniteSets

CONSTANTS
  Streams,       \* the iterators
  Messages,      \* the messages, each published once
  KeyOf,         \* the key of each iterator and of each message
  MaxSubscribes, \* how many attempts to subscribe are made at most
  NoAttempt

ASSUME StreamsAssumption == MaxSubscribes \in Nat \ {0} /\ NoAttempt \notin 1 .. MaxSubscribes

Attempts == 1 .. MaxSubscribes

VARIABLES
  hub,        \* the hub's fields: the iterators of byKey, count, opened, live, closed
  attempts,   \* each attempt's state, and what is on its connection's way here
  streams,    \* each iterator's state, the attempt its ready() awaits, and what it was pushed
  messages,   \* each message's state, and the iterators that were promised it
  fallback    \* whether the channel is defined with fallback: 'local'

streamVars == <<hub, attempts, streams, messages, fallback>>

NewHub == [by |-> {}, count |-> 0, opened |-> NoAttempt, live |-> FALSE, closed |-> FALSE]

StreamsInit ==
  /\ hub = NewHub
  /\ attempts = [a \in Attempts |-> [at |-> "none", pipe |-> <<>>]]
  /\ streams = [s \in Streams |-> [at |-> "new", awaits |-> NoAttempt, ready |-> FALSE,
                                   heard |-> [m \in Messages |-> 0]]]
  /\ messages = [m \in Messages |-> [at |-> "new", owed |-> {}]]
  /\ fallback \in BOOLEAN

\* What an iterator of its key is pushed, for each that byKey holds.
Pushed(m) ==
  [s \in Streams |->
     IF s \in hub.by /\ KeyOf[s] = KeyOf[m] THEN [streams[s] EXCEPT !.heard[m] = @ + 1] ELSE streams[s]]

-----------------------------------------------------------------------------
(* The subscription. *)

\* The attempt a hub that has none makes.
Fresh == {a \in Attempts : attempts[a].at = "none" /\ \A b \in 1 .. a - 1 : attempts[b].at # "none"}

\* A first read, or a ready(), registers the iterator once and opens the
\* subscription, or joins the one the hub has; ready() then awaits it.
Start(s, waits) ==
  /\ streams[s].at \in IF waits THEN {"new", "in"} ELSE {"new"}
  /\ ~hub.closed /\ streams[s].awaits = NoAttempt
  /\ \E a \in IF hub.opened = NoAttempt THEN Fresh ELSE {hub.opened} :
       /\ hub' = [hub EXCEPT !.by = @ \cup {s}, !.opened = a,
                             !.count = IF streams[s].at = "new" THEN @ + 1 ELSE @]
       /\ attempts' = IF hub.opened = NoAttempt THEN [attempts EXCEPT ![a].at = "sent"] ELSE attempts
       /\ streams' = [streams EXCEPT
            ![s].at = "in",
            ![s].awaits = IF waits /\ attempts'[a].at # "open" THEN a ELSE @,
            ![s].ready = @ \/ (waits /\ attempts'[a].at = "open")]
  /\ UNCHANGED <<messages, fallback>>

\* Redis takes the SUBSCRIBE: from here on it sends this connection messages.
Confirm(a) ==
  /\ attempts[a].at = "sent"
  /\ attempts' = [attempts EXCEPT ![a].at = "confirmed"]
  /\ UNCHANGED <<hub, streams, messages, fallback>>

\* The answer: the hub's own attempt is live, one it let go of is closed.
Resolve(a) ==
  /\ attempts[a].at = "confirmed"
  /\ attempts' = [attempts EXCEPT ![a].at = IF hub.opened = a THEN "open" ELSE "closing"]
  /\ hub' = IF hub.opened = a THEN [hub EXCEPT !.live = TRUE] ELSE hub
  /\ streams' = [s \in Streams |->
       IF streams[s].awaits = a THEN [streams[s] EXCEPT !.awaits = NoAttempt, !.ready = TRUE]
       ELSE streams[s]]
  /\ UNCHANGED <<messages, fallback>>

\* An attempt that fails is forgotten, and every ready() that awaits it rejects.
SubscribeFails(a) ==
  /\ attempts[a].at = "sent"
  /\ attempts' = [attempts EXCEPT ![a].at = "over"]
  /\ hub' = IF hub.opened = a THEN [hub EXCEPT !.opened = NoAttempt] ELSE hub
  /\ streams' = [s \in Streams |->
       IF streams[s].awaits = a THEN [streams[s] EXCEPT !.awaits = NoAttempt] ELSE streams[s]]
  /\ UNCHANGED <<messages, fallback>>

\* Redis takes the UNSUBSCRIBE, and the connection is closed.
Closed(a) ==
  /\ attempts[a].at = "closing"
  /\ attempts' = [attempts EXCEPT ![a].at = "over", ![a].pipe = <<>>]
  /\ UNCHANGED <<hub, streams, messages, fallback>>

\* The attempts once the hub let go of its own: a live one is closed, one in
\* flight when it resolves.
LetGoOf == IF hub.live THEN [attempts EXCEPT ![hub.opened].at = "closing"] ELSE attempts

\* A mistake: every attempt that is still subscribed delivers.
BadDelivers(a) == TRUE

\* Only the attempt the hub holds delivers.
Delivers(a) == hub.opened = a

Delivery(a) ==
  /\ attempts[a].at \in {"confirmed", "open", "closing"} /\ attempts[a].pipe # <<>>
  /\ attempts' = [attempts EXCEPT ![a].pipe = Tail(@)]
  /\ streams' = IF Delivers(a) THEN Pushed(Head(attempts[a].pipe)) ELSE streams
  /\ UNCHANGED <<hub, messages, fallback>>

-----------------------------------------------------------------------------
(* Leaving. *)

\* An iterator is counted out of byKey once, however often it leaves.
CountsOut(s) == s \in hub.by

\* return(), throw(), await using, and a next() after the end: the last one
\* out lets the subscription go.
Leave(s) ==
  LET last == hub.count = 1 IN
  /\ streams' = [streams EXCEPT ![s].at = "left"]
  /\ IF CountsOut(s)
     THEN /\ hub' = [hub EXCEPT !.by = @ \ {s}, !.count = @ - 1,
                                !.opened = IF last THEN NoAttempt ELSE @, !.live = IF last THEN FALSE ELSE @]
          /\ attempts' = IF last THEN LetGoOf ELSE attempts
     ELSE UNCHANGED <<hub, attempts>>
  /\ UNCHANGED <<messages, fallback>>

\* close(): every iterator ends, and none begins; a later stream() is of
\* another hub.
CloseHub ==
  /\ ~hub.closed
  /\ hub' = [NewHub EXCEPT !.closed = TRUE]
  /\ attempts' = LetGoOf
  /\ streams' = [s \in Streams |-> [streams[s] EXCEPT !.at = "left"]]
  /\ UNCHANGED <<messages, fallback>>

-----------------------------------------------------------------------------
(* Publishing. *)

\* Redis takes the message, and sends it to every connection subscribed.
Reaches(m) ==
  /\ messages[m].at = "new"
  /\ attempts' = [a \in Attempts |->
       IF attempts[a].at \in {"confirmed", "open", "closing"}
       THEN [attempts[a] EXCEPT !.pipe = Append(@, m)] ELSE attempts[a]]
  /\ messages' = [messages EXCEPT ![m] =
       [at |-> "reached",
        owed |-> {s \in Streams : streams[s].at = "in" /\ streams[s].ready /\ KeyOf[s] = KeyOf[m]}]]
  /\ UNCHANGED <<hub, streams, fallback>>

\* The publisher's connection fails, before Redis took the message or after:
\* with a fallback and a reader of its key here it is delivered here.
PublishFails(m) ==
  /\ messages[m].at \in {"new", "reached"}
  /\ messages' = [messages EXCEPT ![m].at = IF @ = "reached" THEN "repeated" ELSE "here"]
  /\ streams' = IF fallback THEN Pushed(m) ELSE streams
  /\ UNCHANGED <<hub, attempts, fallback>>

Answered(m) ==
  /\ messages[m].at = "reached" /\ messages' = [messages EXCEPT ![m].at = "answered"]
  /\ UNCHANGED <<hub, attempts, streams, fallback>>

StreamsNext ==
  \/ \E s \in Streams : Start(s, TRUE) \/ Start(s, FALSE) \/ Leave(s)
  \/ \E a \in Attempts : Confirm(a) \/ Resolve(a) \/ SubscribeFails(a) \/ Closed(a) \/ Delivery(a)
  \/ \E m \in Messages : Reaches(m) \/ PublishFails(m) \/ Answered(m)
  \/ CloseHub

StreamsSpec == StreamsInit /\ [][StreamsNext]_streamVars

-----------------------------------------------------------------------------
(* Properties. *)

\* The hub, the attempts, the iterators and the messages are ones the code can
\* hold, and the hub counts the iterators it holds.
StreamsTypeOK ==
  /\ hub.by \subseteq Streams /\ hub.count = Cardinality(hub.by)
  /\ hub.opened \in Attempts \cup {NoAttempt} /\ hub.live \in BOOLEAN /\ hub.closed \in BOOLEAN
  /\ attempts \in [Attempts -> [at : {"none", "sent", "confirmed", "open", "closing", "over"},
                                pipe : Seq(Messages)]]
  /\ streams \in [Streams -> [at : {"new", "in", "left"}, awaits : Attempts \cup {NoAttempt},
                              ready : BOOLEAN, heard : [Messages -> 0 .. 2]]]
  /\ messages \in [Messages -> [at : {"new", "reached", "answered", "here", "repeated"}, owed : SUBSET Streams]]

\* An iterator hears a message once, though the hub let go of a subscription
\* whose connection still brings messages beside the next; but for a message
\* whose publish failed after Redis had taken it.  And one that is published
\* after its ready() resolved, and until it leaves, it does hear: it is heard,
\* or on its way on the subscription the hub holds (iterator.ts ready;
\* subscription.ts open).
HearsOnce ==
  \A s \in Streams, m \in Messages :
    /\ streams[s].heard[m] <= IF messages[m].at = "repeated" THEN 2 ELSE 1
    /\ (s \in messages[m].owed /\ streams[s].at = "in") =>
         \/ streams[s].heard[m] > 0
         \/ hub.opened # NoAttempt /\ \E i \in 1 .. Len(attempts[hub.opened].pipe) : attempts[hub.opened].pipe[i] = m

=============================================================================
