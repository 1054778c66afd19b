----------------------------- MODULE SchemaSync -----------------------------
(***************************************************************************)
(* Bringing a collection in line with its definition.  A sync lists the    *)
(* collection's options, creates it or compares them with what it asks     *)
(* for, changes those collMod accepts, then the validator, then the        *)
(* indexes: each step decides on what the sync read and sends one request. *)
(* Several deploys, of the same definition or of two versions, run at      *)
(* once; a dry run only reports; one process syncs before its first        *)
(* operation and remembers it did.  The server fills in its own defaults.  *)
(***************************************************************************)
EXTENDS Naturals, FiniteSets, TLC

CONSTANTS
  Syncs,         \* the calls of syncCollection, at most one per member
  SyncAsks,      \* what they are called for: [definition, dryRun, dropUnknown]
  Auto,          \* what the process that syncs by itself asks for
  MaxAtOnce,     \* how many are under way at once
  MaxMishaps,    \* how many of a crash, a drop, documents alike there are
  NoLive         \* listed: there is no such collection

ASSUME SchemaSyncAssumption ==
  /\ Auto \in SyncAsks /\ ~Auto.dryRun /\ ~Auto.dropUnknown
  /\ \A a \in SyncAsks : a.definition.capped \in Nat /\ a.definition.level \in {"off", "moderate", "strict"}
  /\ MaxAtOnce \in Nat /\ MaxMishaps \in Nat

VARIABLES
  coll,    \* the collection on the server
  sync,    \* each call
  memo,    \* the sync the process waits on, by autoSync: a set of at most one
  spent    \* what has happened: a drop, documents alike in an indexed field, a crash

schemaVars == <<coll, sync, memo, spent>>

Unsaid == <<>>      \* the function that says nothing
Says(f) == DOMAIN f # {}

NoCollection ==
  [there |-> FALSE, capped |-> 0, collation |-> Unsaid, schema |-> "none",
   level |-> "strict", indexes |-> Unsaid]

NewReport ==
  [created |-> FALSE, validator |-> "unchanged", changed |-> FALSE, immutable |-> {},
   create |-> {}, recreate |-> {}, dropped |-> {}]

NewSync ==
  [at |-> "idle", asks |-> Auto.definition, dryRun |-> FALSE, dropUnknown |-> FALSE, live |-> NoLive,
   drops |-> {}, report |-> NewReport, sent |-> FALSE, alone |-> TRUE, stale |-> FALSE,
   seen |-> NoCollection, left |-> NoCollection]

SchemaInit ==
  /\ coll = NoCollection
  /\ sync = [s \in Syncs |-> NewSync]
  /\ memo = {}
  /\ spent = {}

MayHappen(m) == m \notin spent /\ Cardinality(spent) < MaxMishaps
UnderWay(s) == sync[s].at \notin {"idle", "done", "rejected", "dead"}

-----------------------------------------------------------------------------
(* The server. *)

\* A collation comes back with every field, and its version.
Filled(collation) ==
  IF Says(collation) THEN collation @@ [strength |-> 3, version |-> 1] ELSE Unsaid

Unique(index) == "unique" \in DOMAIN index.options /\ index.options["unique"]

\* An index that names no collation has the one of its collection.
Built(c, index) ==
  LET asked == IF "collation" \in DOMAIN index.options THEN index.options["collation"] ELSE c.collation IN
  [index EXCEPT !.options = IF Says(asked) THEN ("collation" :> Filled(asked)) @@ @ ELSE @]

\* createIndexes refuses another index of the same name or key, and a unique
\* one over documents alike.
Buildable(c, indexes) ==
  /\ \A n \in DOMAIN indexes, m \in DOMAIN c.indexes :
       (n = m \/ indexes[n].key = c.indexes[m].key)
         => n = m /\ Built(c, indexes[n]) = c.indexes[m]
  /\ "alike" \in spent => \A n \in DOMAIN indexes : ~Unique(indexes[n])

WithIndexes(c, indexes) ==
  [c EXCEPT !.there = TRUE, !.indexes = [n \in DOMAIN indexes |-> Built(c, indexes[n])] @@ @]

Validation(c, d) ==
  IF d.level = "off" THEN [c EXCEPT !.schema = "none"]
  ELSE [c EXCEPT !.schema = d.schema, !.level = d.level]

-----------------------------------------------------------------------------
(* What differs. *)

\* The server's value carries all that was asked for.
Covers(live, wanted) == \A f \in DOMAIN wanted : f \in DOMAIN live /\ live[f] = wanted[f]

\* diffCollectionOptions: only what the definition says is compared; the size
\* of a cap can be changed, the cap itself and the collation cannot.
Immutable(d, live) ==
  {o \in {"capped", "collation"} :
     IF o = "capped" THEN d.capped > 0 /\ live.capped = 0 ELSE ~Covers(live.collation, d.collation)}

Mutable(d, live) == d.capped > 0 /\ d.capped # live.capped

ValidationMatches(d, live) ==
  IF d.level = "off" THEN live.schema = "none"
  ELSE live.schema = d.schema /\ live.level = d.level

CanonicalCollation(c) ==
  [f \in {"locale", "strength"} |-> IF f \in DOMAIN c THEN c[f] ELSE 3]

\* What makes two indexes the same: an option at its default is none, and a
\* collation is all of its fields but the version.
NormalOptions(index) ==
  [o \in {o \in DOMAIN index.options : o = "unique" => index.options[o]} |->
     IF o = "collation" THEN CanonicalCollation(index.options[o]) ELSE index.options[o]]

IndexMatches(wanted, live) == wanted.key = live.key /\ NormalOptions(wanted) = NormalOptions(live)

Recreated(d, live) ==
  {n \in DOMAIN d.indexes \cap DOMAIN live : ~IndexMatches(d.indexes[n], live[n])}

-----------------------------------------------------------------------------
(* A sync. *)

\* What is kept of a sync that is over: of one that was not alone, whether
\* what it asked for should still stand.
KeptOf(r) ==
  IF r.at \notin {"done", "rejected"} THEN r
  ELSE IF r.alone THEN [r EXCEPT !.live = NoLive, !.drops = {}]
  ELSE [NewSync EXCEPT !.at = r.at, !.asks = r.asks, !.dryRun = r.dryRun, !.stale = r.stale, !.alone = FALSE]

\* What every step notes: a write by another version makes what a sync left,
\* or has read, out of date; any write beside one ends its being alone.
Wrote(s, next) ==
  [t \in Syncs |->
     IF t = s THEN KeptOf([next EXCEPT !.sent = TRUE, !.left = coll'])
     ELSE [sync[t] EXCEPT !.alone = @ /\ ~UnderWay(t), !.stale = @ \/ sync[t].asks # sync[s].asks]]

\* A step that sends nothing, and one that sends a request the server takes.
StepsOn(s, next) == sync' = [sync EXCEPT ![s] = KeptOf(next)] /\ UNCHANGED coll
SendsIt(s, next, to) == coll' = to /\ sync' = Wrote(s, next)

\* It ends without being done, at a request refused or lost, or as its process
\* dies.  One that may have dropped an index leaves it so.
EndsAs(s, at) ==
  /\ sync' = [t \in Syncs |->
                IF t = s THEN KeptOf([sync[t] EXCEPT !.at = at])
                ELSE [sync[t] EXCEPT !.stale = @ \/ (sync[s].at \in {"drop", "build"} /\ sync[s].sent)]]
  /\ UNCHANGED coll

Fails(s) == EndsAs(s, "rejected")

\* What is written unless it is a dry run: a request the server takes or not.
Writes(s, next, taken, to) ==
  IF sync[s].dryRun THEN StepsOn(s, next) ELSE IF taken THEN SendsIt(s, next, to) ELSE Fails(s)

Begun(s, a) ==
  [t \in Syncs |->
     IF t = s
     THEN [NewSync EXCEPT !.at = "list", !.asks = a.definition, !.dryRun = a.dryRun,
                          !.dropUnknown = a.dropUnknown, !.seen = coll, !.left = coll,
                          !.alone = \A u \in Syncs : ~UnderWay(u)]
     ELSE [sync[t] EXCEPT !.alone = @ /\ ~UnderWay(t)]]

MayBegin(s) == sync[s].at = "idle" /\ Cardinality({t \in Syncs : UnderWay(t)}) < MaxAtOnce

\* syncCollection is called: by a deploy, as a dry run or not.
Begins(s) ==
  /\ MayBegin(s)
  /\ \E a \in SyncAsks : sync' = Begun(s, a)
  /\ UNCHANGED <<coll, memo, spent>>

\* The collection is listed; one that is not there is to be created.
Lists(s) ==
  /\ sync[s].at = "list"
  /\ StepsOn(s, IF coll.there THEN [sync[s] EXCEPT !.at = "options", !.live = coll, !.stale = FALSE]
             ELSE [sync[s] EXCEPT
                     !.at = IF sync[s].dryRun THEN "options" ELSE "create", !.stale = FALSE,
                     !.report.created = TRUE,
                     !.report.validator = IF sync[s].asks.level = "off" THEN @ ELSE "created"])
  /\ UNCHANGED <<memo, spent>>

\* A mistake: the validator is left to the phase that follows, which takes a
\* collection it did not list for one that has its own.
BadCreatedAs(d) == [NoCollection EXCEPT !.there = TRUE, !.capped = d.capped, !.collation = Filled(d.collation)]

CreatedAs(d) ==
  Validation([NoCollection EXCEPT !.there = TRUE, !.capped = d.capped, !.collation = Filled(d.collation)], d)

\* createCollection: with its options and its validator, unless another sync
\* made it since: then it is listed and compared like any other.
CreatesCollection(s) ==
  /\ sync[s].at = "create"
  /\ IF coll.there THEN StepsOn(s, [sync[s] EXCEPT !.at = "relist"])
     ELSE SendsIt(s, [sync[s] EXCEPT !.at = "options"], CreatedAs(sync[s].asks))
  /\ UNCHANGED <<memo, spent>>

Relists(s) ==
  /\ sync[s].at = "relist"
  /\ StepsOn(s, [sync[s] EXCEPT !.at = "options", !.live = coll, !.stale = FALSE,
                             !.report.created = FALSE, !.report.validator = "unchanged"])
  /\ UNCHANGED <<memo, spent>>

\* applyOptions: what cannot be changed rejects before anything is written.
AppliesOptions(s) ==
  /\ sync[s].at = "options"
  /\ LET d == sync[s].asks
         live == sync[s].live
         immutable == IF live = NoLive THEN {} ELSE Immutable(d, live)
         changed == live # NoLive /\ Mutable(d, live)
         next == [sync[s] EXCEPT !.at = "validator", !.report.changed = changed,
                                 !.report.immutable = immutable]
     IN IF immutable # {} /\ ~sync[s].dryRun THEN Fails(s)
        ELSE IF changed THEN Writes(s, next, coll.capped > 0, [coll EXCEPT !.capped = d.capped])
        ELSE StepsOn(s, next)
  /\ UNCHANGED <<memo, spent>>

\* applyValidation.
AppliesValidation(s) ==
  /\ sync[s].at = "validator"
  /\ LET d == sync[s].asks
         live == sync[s].live
         outcome == IF d.level = "off" THEN "removed"
                    ELSE IF live.schema = "none" THEN "created" ELSE "updated"
     IN IF live = NoLive \/ ValidationMatches(d, live) THEN StepsOn(s, [sync[s] EXCEPT !.at = "indexes"])
        ELSE Writes(s, [sync[s] EXCEPT !.at = "indexes", !.report.validator = outcome],
                    coll.there, Validation(coll, d))
  /\ UNCHANGED <<memo, spent>>

\* applyIndexes: the indexes are listed and compared by name.
ListsIndexes(s) ==
  /\ sync[s].at = "indexes"
  /\ LET d == sync[s].asks
         live == IF sync[s].dryRun /\ sync[s].report.created THEN Unsaid ELSE coll.indexes
         recreate == Recreated(d, live)
         create == DOMAIN d.indexes \ DOMAIN live
         dropped == IF sync[s].dropUnknown THEN DOMAIN live \ DOMAIN d.indexes ELSE {}
         drops == recreate \cup dropped
     IN StepsOn(s, [sync[s] EXCEPT
                   !.at = IF sync[s].dryRun \/ drops \cup create = {} THEN "done"
                          ELSE IF drops = {} THEN "build" ELSE "drop",
                   !.drops = drops, !.report.recreate = recreate, !.report.create = create,
                   !.report.dropped = dropped])
  /\ UNCHANGED <<memo, spent>>

\* One index dropped; another's drop of it, or of the collection, rejects.
DropsIndex(s) ==
  /\ sync[s].at = "drop"
  /\ \E n \in sync[s].drops :
       IF n \notin DOMAIN coll.indexes THEN Fails(s)
       ELSE LET rest == sync[s].drops \ {n}
                build == sync[s].report.create \cup sync[s].report.recreate
            IN SendsIt(s, [sync[s] EXCEPT
                           !.drops = rest,
                           !.at = IF rest # {} THEN "drop" ELSE IF build = {} THEN "done" ELSE "build"],
                     [coll EXCEPT !.indexes = [m \in DOMAIN @ \ {n} |-> @[m]]])
  /\ UNCHANGED <<memo, spent>>

\* createIndexes: all of them or none; it makes a collection that is not there.
Builds(s) ==
  /\ sync[s].at = "build"
  /\ LET names == sync[s].report.create \cup sync[s].report.recreate
         build == [n \in names |-> sync[s].asks.indexes[n]]
     IN IF Buildable(coll, build) THEN SendsIt(s, [sync[s] EXCEPT !.at = "done"], WithIndexes(coll, build))
        ELSE Fails(s)
  /\ UNCHANGED <<memo, spent>>

\* A request fails, is not allowed, or its process dies.
SyncDies(s) ==
  /\ UnderWay(s) /\ MayHappen("crash")
  /\ EndsAs(s, "dead") /\ spent' = spent \cup {"crash"}
  /\ UNCHANGED memo

-----------------------------------------------------------------------------
(* The process that syncs by itself, and the rest of the world. *)

\* An operation: its process's sync, started by the first and awaited by all.
SyncsOnce(s) ==
  /\ MayBegin(s) /\ \A t \in memo : sync[t].at \in {"rejected", "dead"}
  /\ sync' = Begun(s, Auto)
  /\ memo' = {s}
  /\ UNCHANGED <<coll, spent>>

\* resetAutoSync.
Resets == memo # {} /\ memo' = {} /\ UNCHANGED <<coll, sync, spent>>

Others(c) ==
  /\ coll' = c
  /\ sync' = [t \in Syncs |-> [sync[t] EXCEPT !.alone = @ /\ ~UnderWay(t), !.stale = TRUE]]

\* The collection is dropped, with its documents.
CollectionDropped ==
  /\ coll.there /\ MayHappen("drop")
  /\ Others(NoCollection) /\ spent' = (spent \cup {"drop"}) \ {"alike"}
  /\ UNCHANGED memo

\* Documents alike are written, where no unique index refuses them.
WrittenAlike ==
  /\ coll.there /\ MayHappen("alike")
  /\ \A n \in DOMAIN coll.indexes : ~Unique(coll.indexes[n])
  /\ spent' = spent \cup {"alike"}
  /\ UNCHANGED <<coll, sync, memo>>

SchemaNext ==
  \/ \E s \in Syncs :
       \/ Begins(s) \/ Lists(s) \/ CreatesCollection(s) \/ Relists(s) \/ AppliesOptions(s)
       \/ AppliesValidation(s) \/ ListsIndexes(s) \/ DropsIndex(s) \/ Builds(s)
       \/ SyncDies(s) \/ SyncsOnce(s)
  \/ Resets \/ CollectionDropped \/ WrittenAlike

SchemaSpec == SchemaInit /\ [][SchemaNext]_schemaVars

-----------------------------------------------------------------------------
(* The collection is as a definition asks, read off it and not compared as   *)
(* a sync compares. *)
AsAsked(d, c) ==
  /\ c.there /\ d.capped \in {0, c.capped}
  /\ \A f \in DOMAIN d.collation : f \in DOMAIN c.collation /\ c.collation[f] = d.collation[f]
  /\ IF d.level = "off" THEN c.schema = "none" ELSE <<c.schema, c.level>> = <<d.schema, d.level>>
  /\ \A n \in DOMAIN d.indexes :
       LET asked == d.indexes[n]
           built == c.indexes[n]
       IN /\ n \in DOMAIN c.indexes /\ asked.key = built.key /\ Unique(asked) = Unique(built)
          /\ "collation" \in DOMAIN asked.options =>
               \A f \in DOMAIN asked.options["collation"] :
                 built.options["collation"][f] = asked.options["collation"][f]

\* What a sync that ended well asked for - and so what an operation that
\* waited for it finds - stands, whatever ran beside it: until a sync of
\* another version writes, one leaves an index half rebuilt, or the
\* collection is dropped.  (sync-collection.ts, phases.ts: steps decided on
\* what was read, between those of other syncs.)
InLine ==
  (\A s \in Syncs : ~UnderWay(s)) =>
    \A s \in Syncs :
      (sync[s].at = "done" /\ ~sync[s].dryRun /\ ~sync[s].stale) => AsAsked(sync[s].asks, coll)

\* An index that has a collation only because its collection has one.
Inherits(d) == Says(d.collation) /\ \E n \in DOMAIN d.indexes : "collation" \notin DOMAIN d.indexes[n].options

\* A sync of what a sync left sends nothing, whatever the server has filled
\* in - but for an index that inherits its collection's collation, which each
\* sync drops and builds again.
\* (index-diff.ts, options-diff.ts: covers, the defaults, canonicalCollation.)
SendsNothing ==
  \A s, t \in Syncs :
    /\ sync[s].at \in {"done", "rejected"} /\ sync[t].at = "done" /\ sync[s].asks = sync[t].asks
    /\ sync[s].alone /\ sync[t].alone /\ ~sync[t].dryRun /\ sync[s].seen = sync[t].left
    /\ sync[s].dropUnknown = sync[t].dropUnknown /\ ~Inherits(sync[s].asks)
    => sync[s].at = "done" /\ ~sync[s].sent

\* A dry run sends nothing and tells what a run of the same call, on the same
\* collection, does: it rejects for an option that cannot be changed, or
\* reports the same.  (phases.ts: one path, cut short before each request.)
DryRunTells ==
  \A s \in {s \in Syncs : sync[s].at = "done" /\ sync[s].dryRun} :
    /\ ~sync[s].sent
    /\ \A t \in Syncs :
         /\ sync[t].at = "done" /\ ~sync[t].dryRun /\ sync[s].alone /\ sync[t].alone
         /\ <<sync[s].seen, sync[s].asks, sync[s].dropUnknown>> = <<sync[t].seen, sync[t].asks, sync[t].dropUnknown>>
         => sync[s].report = sync[t].report

\* A sync leaves what it was asked for, sends no more than was needed, and
\* what a dry run tells.
SyncsAgree == InLine /\ SendsNothing /\ DryRunTells
=============================================================================
