----------------------------- MODULE Connections ----------------------------
(***************************************************************************)
(* The clients of a process.  Every connection to one URI shares a client, *)
(* connected once, closed by the last to let it go, or with all of them.   *)
(* On them, what an application opens: a Redis or a Mongo of one or more   *)
(* instances, whose close ends its queues, then its subscriptions - each   *)
(* on a connection of its own - and gives its clients back.  What failed   *)
(* to open gives back what it had opened.                                  *)
(***************************************************************************)
EXTENDS Naturals, Sequences, FiniteSets

CONSTANTS
  Uris,
  Apps,        \* what is opened: calls of openRedis and openMongo
  Instances,   \* the URIs of each, in order, all unlike
  MaxClients   \* how many clients are made at most

ASSUME ConnectionsAssumption ==
  /\ Instances \in [Apps -> Seq(Uris)] /\ MaxClients \in Nat \ {0}
  /\ \A a \in Apps : \A i, j \in DOMAIN Instances[a] : Instances[a][i] = Instances[a][j] => i = j

Clients == 1 .. MaxClients
NoClient == 0

VARIABLES
  clients,   \* the client each URI is shared under
  client,    \* each client, and how many hold it
  app,       \* how far each application object is, and what it holds
  sub,       \* its subscription
  ending     \* the clients closeRedis or closeMongo still has to close

connectionVars == <<clients, client, app, sub, ending>>

ConnectionsInit ==
  /\ clients = [u \in Uris |-> NoClient]
  /\ client = [c \in Clients |-> [at |-> "none", holders |-> 0]]
  /\ app = [a \in Apps |-> [at |-> "new", held |-> {}, waits |-> NoClient]]
  /\ sub = [a \in Apps |-> "none"]
  /\ ending = {}

\* The URI of the instance an application is at.
NextUri(a) == Instances[a][Cardinality(app[a].held) + 1]

-----------------------------------------------------------------------------
(* Sharing a client. *)

\* A mistake: a hold counts once it is connected.
BadShared(c) ==
  IF client[c].at = "none" THEN [client[c] EXCEPT !.at = "connecting"] ELSE client[c]

\* A client found, or made and connecting; the hold counts from here.
Shared(c) ==
  [client[c] EXCEPT !.at = IF @ = "none" THEN "connecting" ELSE @, !.holders = @ + 1]

\* openRedis, openMongo: the next instance connects.
Opens(a) ==
  /\ app[a].at \in {"new", "opening"} /\ app[a].waits = NoClient
  /\ Cardinality(app[a].held) < Len(Instances[a])
  /\ LET u == NextUri(a) IN
     \E c \in Clients :
       /\ IF clients[u] # NoClient THEN c = clients[u] ELSE client[c].at = "none"
       /\ client' = [client EXCEPT ![c] = Shared(c)]
       /\ clients' = [clients EXCEPT ![u] = c]
       /\ app' = [app EXCEPT ![a].at = "opening", ![a].waits = c]
  /\ UNCHANGED <<sub, ending>>

Connects(c) ==
  /\ client[c].at = "connecting" /\ client' = [client EXCEPT ![c].at = "open"]
  /\ UNCHANGED <<clients, app, sub, ending>>

\* A failed connect is forgotten.
ConnectFails(c) ==
  /\ client[c].at = "connecting" /\ client' = [client EXCEPT ![c].at = "failed"]
  /\ clients' = [u \in Uris |-> IF clients[u] = c THEN NoClient ELSE clients[u]]
  /\ UNCHANGED <<app, sub, ending>>

\* connectRedis, connectMongo: connected, unless it failed or every client was
\* closed meanwhile.
Connected(a) ==
  LET c == app[a].waits IN
  /\ c # NoClient /\ client[c].at # "connecting"
  /\ app' = [app EXCEPT
       ![a].waits = NoClient,
       ![a].held = IF client[c].at = "failed" \/ clients[NextUri(a)] # c THEN @ ELSE @ \cup {c},
       ![a].at = IF client[c].at = "failed" \/ clients[NextUri(a)] # c THEN "refused" ELSE @]
  /\ UNCHANGED <<clients, client, sub, ending>>

\* An instance is refused, by a check or for options unlike those its URI is
\* connected with.
Refused(a) ==
  /\ app[a].at \in {"new", "opening"} /\ app[a].waits = NoClient
  /\ app' = [app EXCEPT ![a].at = "refused"]
  /\ UNCHANGED <<clients, client, sub, ending>>

OpenDone(a) ==
  /\ app[a].at = "opening" /\ Cardinality(app[a].held) = Len(Instances[a])
  /\ app' = [app EXCEPT ![a].at = "open"]
  /\ UNCHANGED <<clients, client, sub, ending>>

\* Whether a connection that lets go closes its client: it is the last, and
\* the client is still the one its URI is shared under.
ClosesIt(c) == client[c].holders = 1 /\ \E u \in Uris : clients[u] = c

\* close() of a connection.
GivesBack(a, c) ==
  /\ app[a].at \in {"refused", "closingClients"} /\ c \in app[a].held
  /\ app' = [app EXCEPT ![a].held = @ \ {c}]
  /\ client' = [client EXCEPT ![c].holders = @ - 1, ![c].at = IF ClosesIt(c) THEN "closed" ELSE @]
  /\ clients' = [u \in Uris |-> IF clients[u] = c /\ ClosesIt(c) THEN NoClient ELSE clients[u]]
  /\ UNCHANGED <<sub, ending>>

-----------------------------------------------------------------------------
(* A subscription of an application. *)

\* subscribe: a connection of its own, duplicated from the client.
Subscribes(a) ==
  /\ app[a].at = "open" /\ sub[a] = "none" /\ sub' = [sub EXCEPT ![a] = "connecting"]
  /\ UNCHANGED <<clients, client, app, ending>>

\* It is subscribed, and recorded for the close.
Subscribed(a) ==
  /\ sub[a] = "connecting" /\ sub' = [sub EXCEPT ![a] = "on"]
  /\ UNCHANGED <<clients, client, app, ending>>

\* Its caller closes it; or it never was.
Unsubscribes(a) ==
  /\ sub[a] \in {"connecting", "on"} /\ app[a].at # "closing" /\ sub' = [sub EXCEPT ![a] = "off"]
  /\ UNCHANGED <<clients, client, app, ending>>

-----------------------------------------------------------------------------
(* Closing. *)

\* close(), once: the queues end first.
Closes(a) ==
  /\ app[a].at = "open" /\ app' = [app EXCEPT ![a].at = "closingQueues"]
  /\ UNCHANGED <<clients, client, sub, ending>>

\* closeLife is over, whether or not a worker's close failed: the
\* subscriptions recorded by then are closed.
Sweeps(a) ==
  /\ app[a].at = "closingQueues"
  /\ app' = [app EXCEPT ![a].at = IF sub[a] = "on" THEN "closing" ELSE "closingClients"]
  /\ UNCHANGED <<clients, client, sub, ending>>

\* The close of one gives its connection back, and ends the close of all if
\* its UNSUBSCRIBE fails.
Swept(a) ==
  /\ app[a].at = "closing" /\ sub' = [sub EXCEPT ![a] = "off"]
  /\ \E to \in {"closingClients", "stopped"} : app' = [app EXCEPT ![a].at = to]
  /\ UNCHANGED <<clients, client, ending>>

ClosesDone(a) ==
  /\ app[a].at \in {"refused", "closingClients"} /\ app[a].held = {}
  /\ app' = [app EXCEPT ![a].at = IF @ = "refused" THEN "failed" ELSE "closed"]
  /\ UNCHANGED <<clients, client, sub, ending>>

\* closeRedis, closeMongo of connect.ts: every client, whoever holds it, each
\* once it is connected.
ClosesAll ==
  /\ ending = {} /\ \E u \in Uris : clients[u] # NoClient
  /\ ending' = {clients[u] : u \in Uris} \ {NoClient}
  /\ clients' = [u \in Uris |-> NoClient]
  /\ UNCHANGED <<client, app, sub>>

Ended(c) ==
  /\ c \in ending /\ client[c].at # "connecting"
  /\ ending' = ending \ {c}
  /\ client' = [client EXCEPT ![c].at = "ended"]
  /\ UNCHANGED <<clients, app, sub>>

ConnectionsNext ==
  \/ \E a \in Apps :
       \/ Opens(a) \/ Connected(a) \/ Refused(a) \/ OpenDone(a)
       \/ Subscribes(a) \/ Subscribed(a) \/ Unsubscribes(a)
       \/ Closes(a) \/ Sweeps(a) \/ Swept(a) \/ ClosesDone(a)
       \/ \E c \in Clients : GivesBack(a, c)
  \/ \E c \in Clients : Connects(c) \/ ConnectFails(c) \/ Ended(c)
  \/ ClosesAll

ConnectionsSpec == ConnectionsInit /\ [][ConnectionsNext]_connectionVars

-----------------------------------------------------------------------------
(* Properties. *)

ConnectionsTypeOK ==
  /\ clients \in [Uris -> Clients \cup {NoClient}] /\ ending \subseteq Clients
  /\ client \in [Clients -> [at : {"none", "connecting", "open", "failed", "closed", "ended"},
                              holders : Nat]]
  /\ app \in [Apps -> [at : {"new", "opening", "refused", "failed", "open", "closingQueues",
                             "closing", "closingClients", "stopped", "closed"},
                        held : SUBSET Clients, waits : Clients \cup {NoClient}]]
  /\ sub \in [Apps -> {"none", "connecting", "on", "off"}]

\* A client is open while somebody holds it, and no longer: none is closed
\* under an application that did not let it go, but by closeRedis and
\* closeMongo, which close them all; and none is left open that no application
\* holds or waits for (connect.ts connectRedis, connectMongo; open-redis.ts,
\* open-mongo.ts).
OpenWhileHeld ==
  /\ \A a \in Apps, c \in Clients :
       c \in app[a].held => client[c].at \in {"open", "ended"}
  /\ \A c \in Clients :
       client[c].at = "open" =>
         \/ c \in ending
         \/ \E a \in Apps : c \in app[a].held \/ app[a].waits = c

\* "`close()` closes every subscription the wiring started and then the
\* clients it opened" (README.md).
ClosesSubscriptions == \A a \in Apps : app[a].at = "closed" => sub[a] # "on"

=============================================================================
