---------------------------- MODULE MongoBackup -----------------------------
(***************************************************************************)
(* The backups of a MongoDB database: full ones read in a snapshot,        *)
(* incremental and differential ones read from its change stream, while    *)
(* others write to it, create, rename and drop its collections, and while  *)
(* its oplog loses its oldest events.  A run makes one backup at a time,   *)
(* and may fail, or its process die, at any step.  A backup, or some of    *)
(* its collections, is restored into a live database, or fails on the way. *)
(*                                                                         *)
(* A collection is one document, or none, and its metadata, one value for  *)
(* its options and its indexes.  Views, time-series collections and        *)
(* renames into other databases are left out, and so are the objects of a  *)
(* backup and its rotation (Backups.tla, Rotation.tla).                    *)
(***************************************************************************)
EXTENDS Naturals, Sequences, SequencesExt, FiniteSets

CONSTANTS
  Listing,     \* the names collections have, in their order
  Filters,     \* what `collections' may be: the names it takes
  MaxEvents,   \* bounds the writes to the database
  MaxRestored, \* and those before a restore
  MaxBackups,  \* bounds the backups made
  Sources,     \* what the database may hold at first
  AskedFor,       \* what is asked for of a backup
  Lives,       \* what the database restored into may hold
  NoColl

ASSUME MongoBackupAssumption ==
  MaxEvents \in Nat /\ MaxBackups \in Nat

Names == ToSet(Listing)

VARIABLES
  past,    \* the database after each event, and before any: the last is as it is
  oplog,   \* the events, each with its cluster time
  making,  \* the backup under way
  backups, \* the backups made, oldest first
  landing, \* the restore under way
  liveDb, scratchDb  \* the databases restored into

mongoVars == <<past, oplog, making, backups, landing, liveDb, scratchDb>>

source == Last(past)

Now == IF oplog = <<>> THEN 0 ELSE Last(oplog).at

\* Its documents' one value; 0 is none.
Coll(uuid, meta, doc) == [uuid |-> uuid, meta |-> meta, doc |-> doc]

\* One of another process, in a database restored into.
Foreign == Coll(0, 0, 9)

There(db) == { n \in Names : db[n] # NoColl }

\* The same collection but for its UUID.
Alike(c, d) == IF NoColl \in {c, d} THEN c = d ELSE <<c.meta, c.doc>> = <<d.meta, d.doc>>

Empty == [n \in Names |-> NoColl]

Idle == [at |-> "idle", filter |-> {}, catalog |-> Empty, time |-> 0,
         parent |-> 0, next |-> 0, until |-> 0, held |-> {}, changes |-> <<>>, resume |-> <<>>]

NoLanding == [at |-> "none", mode |-> "whole", replace |-> FALSE, part |-> {}, left |-> <<>>,
              changes |-> <<>>, was |-> Empty]

MongoBackupInit ==
  /\ past \in { <<db>> : db \in Sources } /\ oplog = <<>>
  /\ making = Idle /\ backups = <<>>
  /\ landing = NoLanding /\ liveDb = Empty /\ scratchDb = Empty

-----------------------------------------------------------------------------
(* The database, and its events. *)

Event(op, coll) == [op |-> op, coll |-> coll, at |-> 0, doc |-> 0, to |-> coll, over |-> FALSE]

\* One write, whose events have one cluster time.
Happens(events, db) ==
  /\ landing.at = "none" /\ Len(oplog) + Len(events) <= MaxEvents
  /\ oplog' = oplog \o [i \in DOMAIN events |-> [events[i] EXCEPT !.at = Now + 1]]
  /\ past' = past \o [i \in DOMAIN events |-> db]
  /\ UNCHANGED <<making, backups, landing, liveDb, scratchDb>>

Wrote(op, n, doc) == [Event(op, n) EXCEPT !.doc = doc]

Insert(n) ==
  /\ source[n] # NoColl /\ source[n].doc = 0
  /\ Happens(<<Wrote("insert", n, 1)>>, [source EXCEPT ![n].doc = 1])

Delete(n) ==
  /\ source[n] # NoColl /\ source[n].doc # 0
  /\ Happens(<<Wrote("delete", n, 0)>>, [source EXCEPT ![n].doc = 0])

\* An update comes with its post-image, or a replacement with the document; or
\* its description says it; or, of a field with a dot, cannot.
Update(n) ==
  /\ source[n] # NoColl /\ source[n].doc # 0
  /\ \E op \in {"replace", "update", "dotted"} :
       Happens(<<Wrote(op, n, 3 - source[n].doc)>>, [source EXCEPT ![n].doc = 3 - @])

\* A transaction writes two documents.
WriteTwo(n, o) ==
  /\ n # o /\ {n, o} \subseteq There(source) /\ source[n].doc = 0 /\ source[o].doc = 0
  /\ Happens(<<Wrote("insert", n, 1), Wrote("insert", o, 1)>>,
             [source EXCEPT ![n].doc = 1, ![o].doc = 1])

\* createIndexes, dropIndexes, collMod.
Modify(n) ==
  /\ source[n] # NoColl
  /\ Happens(<<Wrote("modify", n, 1 - source[n].meta)>>, [source EXCEPT ![n].meta = 1 - @])

Create(n) ==
  /\ source[n] = NoColl
  /\ Happens(<<Event("create", n)>>, [source EXCEPT ![n] = Coll(Now + 1, 0, 0)])

Drop(n) ==
  /\ source[n] # NoColl
  /\ Happens(<<Event("drop", n)>>, [source EXCEPT ![n] = NoColl])

Rename(n, to) ==
  /\ n # to /\ source[n] # NoColl
  /\ Happens(<<[Event("rename", n) EXCEPT !.to = to, !.over = source[to] # NoColl]>>,
             [source EXCEPT ![n] = NoColl, ![to] = source[n]])

\* Each of its collections was dropped first.
DropDatabase ==
  /\ There(source) = {} /\ \A i \in DOMAIN oplog : oplog[i].op # "dropDatabase"
  /\ Happens(<<Event("dropDatabase", NoColl), Event("invalidate", NoColl)>>, source)

-----------------------------------------------------------------------------
(* A full backup: the collections read, a snapshot pinned, the collections  *)
(* read again.                                                              *)

\* Where a change stream starts.
Just(at) == [by |-> "time", is |-> at]
After(i) == [by |-> "token", is |-> i]

FirstAfter(resume) ==
  IF resume.by = "token" THEN resume.is + 1
  ELSE 1 + Cardinality({ i \in DOMAIN oplog : oplog[i].at < resume.is })

AtTime(t) == past[FirstAfter(Just(t + 1))]

after(at) == at + 1

Makes(is) ==
  /\ making' = is
  /\ UNCHANGED <<past, oplog, backups, landing, liveDb, scratchDb>>

describe(filter) == [n \in Names |-> IF n \in filter THEN source[n] ELSE NoColl]

\* The pin is taken again as long as what was read around it differs, five times
\* at most: the run fails then, as it may at any time.
Describes(filter) ==
  Makes([Idle EXCEPT !.at = "pin", !.filter = filter, !.catalog = describe(filter)])

StartFull(filter) ==
  /\ making.at = "idle" /\ landing.at = "none" /\ Len(backups) < MaxBackups
  /\ Describes(filter)

Pin ==
  /\ making.at = "pin"
  /\ Makes([making EXCEPT !.at = "again", !.time = Now])

\* A collection dropped and made again has another UUID.
Same(before, again) ==
  \A n \in Names : IF NoColl \in {before[n], again[n]} THEN before[n] = again[n]
                   ELSE <<before[n].uuid, before[n].meta>> = <<again[n].uuid, again[n].meta>>

\* A backup; `of' is the database when it stopped, and `true' whether the full
\* backup it builds on is the database at the time of its snapshot.
Backup(full, changes, resume, held, of, true) ==
  [full |-> full, changes |-> changes, resume |-> resume,
   added |-> held \ There(full), removed |-> There(full) \ held, of |-> of, true |-> true]

Held(b) == (There(b.full) \cup b.added) \ b.removed

Publishes(b) ==
  /\ backups' = Append(backups, b) /\ making' = Idle
  /\ UNCHANGED <<past, oplog, landing, liveDb, scratchDb>>

\* The documents are those of the snapshot, whenever they are read; the metadata
\* those read around it.
ReadSnapshot ==
  LET snapshot == AtTime(making.time)
      full == [n \in Names |-> IF making.catalog[n] = NoColl THEN NoColl
                               ELSE Coll(0, making.catalog[n].meta,
                                         IF snapshot[n] = NoColl THEN 0 ELSE snapshot[n].doc)]
  IN  Publishes(Backup(full, <<>>, Just(after(making.time)), There(full), snapshot,
                       \A n \in making.filter : Alike(full[n], snapshot[n])))

DescribeAgain ==
  /\ making.at = "again"
  /\ IF Same(making.catalog, describe(making.filter)) THEN ReadSnapshot
     ELSE Describes(making.filter)

-----------------------------------------------------------------------------
(* An incremental or a differential backup: the change stream followed from *)
(* where the parent stopped.                                                *)

IsFull(b) == b.changes = <<>>

Latest == Len(backups)

\* An incremental backup builds on the newest one, a differential on the newest full one.
Parents ==
  { i \in DOMAIN backups : \/ i = Latest
                           \/ /\ IsFull(backups[i])
                              /\ \A j \in i + 1 .. Latest : ~IsFull(backups[j]) }

StartChanges(parent, filter) ==
  /\ making.at = "idle" /\ landing.at = "none" /\ Len(backups) < MaxBackups
  /\ Makes([Idle EXCEPT !.at = "watch", !.filter = filter, !.parent = parent, !.until = Now,
                        !.held = Held(backups[parent]), !.resume = backups[parent].resume,
                        !.next = FirstAfter(backups[parent].resume)])

\* The oplog no longer reaches where the stream starts, or is.  A run that was to
\* make an incremental backup makes a full one.
HistoryLost ==
  /\ making.at = "watch" /\ making.parent = Latest
  /\ Describes(making.filter)

passedOver(e) ==
  /\ e.op \notin {"rename", "dropDatabase"}
  /\ e.coll \notin IF e.op = "create" THEN making.filter ELSE making.held

\* A rename into the collections followed is refused.
Unsupported(e) ==
  \/ e.op = "dotted"
  \/ e.op = "rename" /\ e.coll \notin making.held /\ e.to \in making.filter

\* A mistake: the new name is not followed.
BadRenamed(e) ==
  LET from == e.coll \in making.held
      without == making.held \ {e.coll}
  IN  IF from /\ e.to \in making.filter THEN [held |-> without, kept |-> <<e>>]
      ELSE [held |-> without, kept |-> IF from THEN <<Event("drop", e.coll)>> ELSE <<>>]

renamed(e) ==
  LET from == e.coll \in making.held
      without == making.held \ {e.coll}
  IN  IF from /\ e.to \in making.filter THEN [held |-> without \cup {e.to}, kept |-> <<e>>]
      ELSE [held |-> without, kept |-> IF from THEN <<Event("drop", e.coll)>> ELSE <<>>]

\* The change kept of an event, and the collections followed after it.
followed(e) ==
  CASE e.op = "dropDatabase" -> [held |-> {}, kept |-> <<e>>]
    [] e.op = "create" -> [held |-> making.held \cup {e.coll}, kept |-> <<e>>]
    [] e.op = "drop" -> [held |-> making.held \ {e.coll}, kept |-> <<e>>]
    [] e.op = "rename" -> renamed(e)
    [] OTHER -> [held |-> making.held, kept |-> <<e>>]

Coming == making.at = "watch" /\ making.next <= Len(oplog)

Read(e) ==
  IF passedOver(e) THEN [held |-> making.held, kept |-> <<>>] ELSE followed(e)

ReadChange ==
  /\ Coming
  /\ LET e == oplog[making.next] IN
       /\ e.op # "invalidate" /\ e.at <= making.until
       /\ passedOver(e) \/ ~Unsupported(e)
       /\ Makes([making EXCEPT !.next = @ + 1, !.resume = After(making.next),
                               !.held = Read(e).held, !.changes = @ \o Read(e).kept])

\* Where the stream stops: at an invalidation, at the first event after the
\* backup began, or once it has caught up.
Stop ==
  IF making.next > Len(oplog) THEN After(Len(oplog))
  ELSE IF oplog[making.next].op = "invalidate" THEN After(making.next)
  ELSE making.resume

FinishChanges ==
  /\ \/ making.at = "watch" /\ making.next > Len(oplog)
     \/ Coming /\ (oplog[making.next].op = "invalidate" \/ oplog[making.next].at > making.until)
  /\ LET parent == backups[making.parent] IN
       Publishes(Backup(parent.full, Append(parent.changes, making.changes), Stop, making.held,
                        past[FirstAfter(Stop)], parent.true))

\* The run is refused, fails, or its process dies.
FailBackup ==
  /\ making.at # "idle" /\ Makes(Idle)

-----------------------------------------------------------------------------
(* A restore of the newest backup: an older one was the newest before.  It  *)
(* is whole, into the live database, or some of it: rebuilt in a scratch      *)
(* database, then taken from there.  It shares no state with the database   *)
(* backed up, which stands by then.                                         *)

Refused == landing' = [landing EXCEPT !.at = "failed"]

\* mongoTarget on the live database, or for restoreCollections on a scratch one.
StartRestore ==
  /\ landing.at = "none" /\ making.at = "idle" /\ backups # <<>> /\ Len(oplog) <= MaxRestored
  /\ \E mode \in {"whole", "part"}, replace \in BOOLEAN, db \in Lives :
       /\ mode = "part" => ~replace /\ db = Empty
       /\ liveDb' = db /\ scratchDb' = Empty
       /\ landing' = [NoLanding EXCEPT
            !.at = "land", !.mode = mode, !.replace = replace, !.was = db,
            !.left = SelectSeq(Listing, LAMBDA n : Last(backups).full[n] # NoColl),
            !.changes = FlattenSeq(Last(backups).changes)]
  /\ UNCHANGED <<past, oplog, making, backups>>

IsWhole == landing.mode = "whole"

into == IF IsWhole THEN liveDb ELSE scratchDb

Replaces == IsWhole /\ landing.replace

Into(db) == IF IsWhole THEN liveDb' = db /\ scratchDb' = scratchDb ELSE liveDb' = liveDb /\ scratchDb' = db

\* A collection is filled apart, unless one is there.
FillApart ==
  /\ landing.at = "land" /\ landing.left # <<>>
  /\ IF ~Replaces /\ into[Head(landing.left)] # NoColl THEN Refused
     ELSE landing' = [landing EXCEPT !.at = "stage"]
  /\ UNCHANGED <<past, oplog, making, backups, liveDb, scratchDb>>

\* A mistake: renamed over one made meanwhile.
BadInPlace ==
  /\ landing.at = "stage"
  /\ LET n == Head(landing.left) IN
       /\ landing' = [landing EXCEPT !.at = "land", !.left = Tail(@)]
       /\ Into([into EXCEPT ![n] = Last(backups).full[n]])
  /\ UNCHANGED <<past, oplog, making, backups>>

\* It is renamed into place, unless one was made there meanwhile.
InPlace ==
  /\ landing.at = "stage"
  /\ LET n == Head(landing.left) IN
     IF ~Replaces /\ into[n] # NoColl THEN Refused /\ UNCHANGED <<liveDb, scratchDb>>
     ELSE /\ landing' = [landing EXCEPT !.at = "land", !.left = Tail(@)]
          /\ Into([into EXCEPT ![n] = Last(backups).full[n]])
  /\ UNCHANGED <<past, oplog, making, backups>>

\* A bulk write makes a collection that is not there.
Upserted(db, n, doc) ==
  [db EXCEPT ![n] = IF db[n] = NoColl THEN Coll(0, 0, doc) ELSE [db[n] EXCEPT !.doc = doc]]

\* The database a change gives; none when the change is refused.
AppliedChange(db, c, replaces) ==
  LET n == c.coll IN
  CASE c.op \in {"insert", "replace"} -> Upserted(db, n, c.doc)
    [] c.op \in {"update", "delete"} ->
         IF db[n] = NoColl \/ db[n].doc = 0 THEN db ELSE [db EXCEPT ![n].doc = c.doc]
    [] c.op = "modify" -> IF db[n] = NoColl THEN db ELSE [db EXCEPT ![n].meta = c.doc]
    [] c.op = "create" -> IF db[n] # NoColl /\ ~replaces THEN NoColl
                          ELSE [db EXCEPT ![n] = Coll(0, 0, 0)]
    [] c.op = "drop" -> [db EXCEPT ![n] = NoColl]
    [] c.op = "rename" -> IF db[n] = NoColl THEN db
                          ELSE IF db[c.to] # NoColl /\ ~c.over /\ ~replaces THEN NoColl
                          ELSE [db EXCEPT ![n] = NoColl, ![c.to] = db[n]]
    [] c.op = "dropDatabase" -> Empty

ApplyChange ==
  /\ landing.at = "land" /\ landing.left = <<>> /\ landing.changes # <<>>
  /\ LET db == AppliedChange(into, Head(landing.changes), Replaces) IN
     IF db = NoColl THEN Refused /\ UNCHANGED <<liveDb, scratchDb>>
     ELSE Into(db) /\ landing' = [landing EXCEPT !.changes = Tail(@)]
  /\ UNCHANGED <<past, oplog, making, backups>>

\* The collections asked for of the scratch database, whole or some documents
\* of theirs, then land in the live one.
Takes(mode, replace, part, db) ==
  /\ liveDb' = db
  /\ landing' = [landing EXCEPT !.mode = mode, !.replace = replace, !.part = part, !.was = db,
       !.at = IF mode = "part" /\ ~replace /\ \E n \in part : db[n] # NoColl THEN "failed" ELSE "move",
       !.left = SelectSeq(Listing, LAMBDA n : n \in part)]

Rebuilt ==
  /\ landing.at = "land" /\ landing.left = <<>> /\ landing.changes = <<>>
  /\ IF IsWhole THEN landing' = [landing EXCEPT !.at = "done"] /\ UNCHANGED liveDb
     ELSE \E mode \in {"part", "replace", "keep"}, replace \in BOOLEAN, db \in Lives, asked \in AskedFor :
            /\ mode = "part" \/ ~replace
            /\ Takes(mode, replace, asked \cap There(scratchDb), db)
  /\ UNCHANGED <<past, oplog, making, backups, scratchDb>>

\* landWhole: a rename across databases.
MoveWhole ==
  /\ landing.at = "move" /\ landing.mode = "part" /\ landing.left # <<>>
  /\ LET n == Head(landing.left) IN
     IF liveDb[n] # NoColl /\ ~landing.replace THEN Refused /\ UNCHANGED <<liveDb, scratchDb>>
     ELSE /\ liveDb' = [liveDb EXCEPT ![n] = scratchDb[n]] /\ scratchDb' = [scratchDb EXCEPT ![n] = NoColl]
          /\ landing' = [landing EXCEPT !.left = Tail(@)]
  /\ UNCHANGED <<past, oplog, making, backups>>

\* landDocuments: merged into the collection there, or into one made like it.
Merged(there, taken) ==
  IF there = NoColl THEN taken
  ELSE IF taken.doc = 0 \/ (landing.mode = "keep" /\ there.doc # 0) THEN there
  ELSE [there EXCEPT !.doc = taken.doc]

MergeInto ==
  /\ landing.at = "move" /\ landing.mode # "part" /\ landing.left # <<>>
  /\ LET n == Head(landing.left) IN liveDb' = [liveDb EXCEPT ![n] = Merged(@, scratchDb[n])]
  /\ landing' = [landing EXCEPT !.left = Tail(@)]
  /\ UNCHANGED <<past, oplog, making, backups, scratchDb>>

EndMove ==
  /\ landing.at = "move" /\ landing.left = <<>>
  /\ landing' = [landing EXCEPT !.at = "done"] /\ scratchDb' \in {scratchDb, Empty}
  /\ UNCHANGED <<past, oplog, making, backups, liveDb>>

FailRestore ==
  /\ landing.at \in {"land", "stage", "move"}
  /\ landing' = [landing EXCEPT !.at = "failed"]
  /\ scratchDb' \in {scratchDb, Empty}
  /\ UNCHANGED <<past, oplog, making, backups, liveDb>>

\* Another process makes a collection where the restore goes, once.
Meanwhile(n) ==
  /\ landing.at \in IF IsWhole THEN {"land", "stage"} ELSE {"move"}
  /\ liveDb[n] = NoColl
  /\ \A m \in Names : landing.was[m] # Foreign
  /\ liveDb' = [liveDb EXCEPT ![n] = Foreign]
  /\ landing' = [landing EXCEPT !.was[n] = Foreign]
  /\ UNCHANGED <<past, oplog, making, backups, scratchDb>>

-----------------------------------------------------------------------------

MongoBackupNext ==
  \/ \E n \in Names : Insert(n) \/ Delete(n) \/ Update(n) \/ Modify(n) \/ Create(n) \/ Drop(n)
  \/ \E n, o \in Names : WriteTwo(n, o) \/ Rename(n, o)
  \/ DropDatabase
  \/ \E f \in Filters : StartFull(f) \/ \E parent \in Parents : StartChanges(parent, f)
  \/ Pin \/ DescribeAgain
  \/ HistoryLost \/ ReadChange \/ FinishChanges \/ FailBackup
  \/ StartRestore \/ FillApart \/ InPlace \/ ApplyChange \/ Rebuilt
  \/ MoveWhole \/ MergeInto \/ EndMove \/ FailRestore
  \/ \E n \in Names : Meanwhile(n)

MongoBackupSpec == MongoBackupInit /\ [][MongoBackupNext]_mongoVars

-----------------------------------------------------------------------------
(* The properties. *)

IsDatabase(db) ==
  \A n \in Names : db[n] = NoColl \/ (db[n].meta \in 0 .. 1 /\ db[n].doc \in 0 .. 9)

MongoBackupTypeOK ==
  /\ Len(past) = Len(oplog) + 1
  /\ \A i \in DOMAIN past : IsDatabase(past[i])
  /\ IsDatabase(liveDb) /\ IsDatabase(scratchDb)
  /\ making.held \subseteq Names /\ ToSet(landing.left) \subseteq Names

\* The metadata of a full backup, and the collections it holds, are those of the
\* time its documents are of: "the same both times, they are what the snapshot
\* holds" (source/catalog.ts:94-101).
SnapshotHolds == \A i \in DOMAIN backups : backups[i].true

\* What a backup restores into an empty database; none when it is refused.
RestoredFrom(b) ==
  FoldLeft(LAMBDA db, c : IF db = NoColl THEN db ELSE AppliedChange(db, c, FALSE),
           b.full, FlattenSeq(b.changes))

\* The collections a backup follows, those every filter takes among them.
Follows(b) == Held(b) \cup { n \in There(b.of) : \A f \in Filters : n \in f }

\* Whatever was written, created, renamed and dropped before, while and between
\* they were made, the newest backup gives, in an empty database, each collection
\* it follows as it was when it stopped (README.md:9-17), unless the collections
\* read around the snapshot were not those of the snapshot.
RestoresAsOf ==
  \A i \in DOMAIN backups :
    LET b == backups[i] IN
    b.true => /\ RestoredFrom(b) # NoColl
              /\ \A n \in Names : Alike(RestoredFrom(b)[n], IF n \in Follows(b) THEN b.of[n] ELSE NoColl)

\* An incremental backup keeps the changes to every collection the chain follows,
\* whatever `collections' is by then (docs/guide/incremental.md:171-172).
KeepsFollowed ==
  \A i \in DOMAIN backups :
    LET b == backups[i] IN
    (b.true /\ RestoredFrom(b) # NoColl) =>
      \A n \in Held(b) : Alike(RestoredFrom(b)[n], b.of[n])

DropsAll ==
  \E c \in ToSet(FlattenSeq(Last(backups).changes)) : c.op = "dropDatabase"

\* A restore that ended gave every collection asked for, whole or merged.  None
\* that was there, or that another made meanwhile, is lost to one that is not to
\* replace, unless the backup holds a drop of the whole database (README.md:258,449).
LandsSafely ==
  (landing.at # "none" /\ Last(backups).true) =>
    LET all == RestoredFrom(Last(backups))
        Lands(n) == IF landing.mode \in {"whole", "part"} THEN all[n]
                    ELSE Merged(landing.was[n], all[n])
        taken == { n \in Names : landing.was[n] # NoColl }
    IN  /\ landing.at = "done" =>
             \A n \in There(all) : IsWhole \/ n \in landing.part => liveDb[n] = Lands(n)
        /\ (landing.mode \in {"whole", "part"} /\ ~landing.replace /\ (IsWhole => ~DropsAll)) =>
             \A n \in taken : liveDb[n] = landing.was[n]

=============================================================================
