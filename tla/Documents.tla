----------------------------- MODULE Documents ------------------------------
(***************************************************************************)
(* The writes of a collection of @nxgt/mongo and of a repository of        *)
(* @nxgt/drizzle, which keep the same stamps: a version that every audited *)
(* write raises, and the mark of a soft delete.  A caller may read a       *)
(* document, work on it, and update it at the version it read; others      *)
(* write meanwhile.  Between the call and its one statement the `before'   *)
(* hooks of a collection run, and after the statement its `after' hooks.   *)
(*                                                                         *)
(* The two differ in four things: a repository has no hooks; MongoDB       *)
(* writes many documents one after the other and PostgreSQL in one         *)
(* statement; a patch that writes nothing only reads in PostgreSQL; and a  *)
(* repository says that a row moved only when its version did, where a     *)
(* collection says so of every document it still finds.                    *)
(***************************************************************************)
EXTENDS Naturals, FiniteSets

CONSTANTS
  Writers,    \* callers, each of which makes one call
  Keys,        \* the documents' keys; a unique index covers them
  Asks,   \* what a caller may ask: records of Asked
  NoRow      \* no document

\* What a call says: its method, its documents, whether its patch names the
\* version it read, whether it is audited and whether it writes any field.
Asked == [op : {"create", "createMany", "update", "updateMany", "upsert", "delete", "deleteMany",
                "hardDelete", "hardDeleteMany", "restore"},
          ids : SUBSET Keys \ {{}}, expects : BOOLEAN, audit : BOOLEAN, empty : BOOLEAN]

ASSUME DocumentsAssumption ==
  /\ IsFiniteSet(Writers) /\ IsFiniteSet(Keys)
  /\ Asks \subseteq Asked
  /\ \A r \in Asks :
       /\ r.op \notin {"createMany", "updateMany", "deleteMany", "hardDeleteMany"} => Cardinality(r.ids) = 1
       /\ r.op \notin {"update", "updateMany"} => r.audit
       /\ r.op \notin {"update", "updateMany", "upsert"} => ~r.empty /\ ~r.expects

VARIABLES
  keeping,   \* which of the two keeps the documents, and whether it soft-deletes
  stored,    \* id -> its document
  asking     \* caller -> its call

documentVars == <<keeping, stored, asking>>

\* A stored document.  `born' counts the documents its key has had, and
\* `writes' the audited writes of this one; only the model has those two.
Row == [born : 0..Cardinality(Writers), there : BOOLEAN, deleted : BOOLEAN,
        version : 0..Cardinality(Writers), writes : 0..Cardinality(Writers)]

\* A call: what it asks, the document its caller had read, the documents it
\* has yet to write, the one it met, and its answer.
WriteCall == [at : {"idle", "statement", "reread", "after", "ended"},
           does : Asks \cup {NoRow}, seen : Row \cup {NoRow}, met : Row \cup {NoRow},
           left : SUBSET Keys,
           answer : {"none", "written", "missing", "moved", "conflict", "refused", "hookFailed"}]

NoCall == [at |-> "idle", does |-> NoRow, seen |-> NoRow, met |-> NoRow, left |-> {},
           answer |-> "none"]

DocumentsInit ==
  /\ keeping \in [by : {"mongo", "pg"}, softDeletes : BOOLEAN]
  /\ \E present \in SUBSET Keys :
       stored = [i \in Keys |-> [born |-> 0, there |-> i \in present, deleted |-> FALSE, version |-> 0,
                                 writes |-> 0]]
  /\ asking = [c \in Writers |-> NoCall]

\* A call that ends keeps its answer alone.
Ends(c, answer) == asking' = [asking EXCEPT ![c] = [NoCall EXCEPT !.at = "ended", !.answer = answer]]

\* What a read, an update and a delete see.
Live(row) == row.there /\ ~row.deleted

\* A mistake: a write leaves its stamps but for the lock.
BadTouched(row) == [row EXCEPT !.writes = @ + 1]

\* An audited write raises the version.
Touched(row) == [row EXCEPT !.version = @ + 1, !.writes = @ + 1]

Gone(row) == [row EXCEPT !.there = FALSE, !.deleted = FALSE, !.version = 0, !.writes = 0]

Created(row) == [row EXCEPT !.there = TRUE, !.born = @ + 1]

SoftDeleted(row) == [Touched(row) EXCEPT !.deleted = TRUE]

Restored(row) == [Touched(row) EXCEPT !.deleted = FALSE]

-----------------------------------------------------------------------------
(* A call, up to its statement. *)

\* A caller reads a document first, if it will, a soft-deleted one too
\* (withDeleted).
ReadDocument(c) ==
  /\ asking[c].at = "idle" /\ asking[c].seen = NoRow
  /\ \E i \in Keys : stored[i].there /\ asking' = [asking EXCEPT ![c].seen = stored[i], ![c].left = {i}]
  /\ UNCHANGED <<keeping, stored>>

\* What a patch may not say: an expected version where one cannot be checked,
\* nothing at all to MongoDB, and a restore where there is no soft delete.
MayNot(r) ==
  \/ r.expects /\ r.op # "update"
  \/ keeping.by = "mongo" /\ r.op \in {"update", "updateMany"} /\ r.empty /\ ~r.audit
  \/ r.op = "restore" /\ ~keeping.softDeletes

\* A call is refused, or its before hooks run and one of them may throw,
\* before anything is sent.
CallsWrite(c) ==
  /\ asking[c].at = "idle"
  /\ \E r \in Asks :
       /\ r.expects => asking[c].seen # NoRow /\ asking[c].left = r.ids
       /\ \/ keeping.by = "mongo" /\ Ends(c, "hookFailed")
          \/ MayNot(r) /\ Ends(c, "refused")
          \/ ~MayNot(r) /\ asking' = [asking EXCEPT ![c].does = r, ![c].left = r.ids, ![c].at = "statement"]
  /\ UNCHANGED <<keeping, stored>>

-----------------------------------------------------------------------------
(* The statement. *)

\* A patch that writes nothing sets no stamp in a repository.
NothingToSet(r) == keeping.by = "pg" /\ r.empty

\* A write that is audited and writes something leaves its stamps.
Patched(r, row) == IF r.audit /\ ~NothingToSet(r) THEN Touched(row) ELSE row

AtExpected(c, row) == asking[c].does.expects => row.version = asking[c].seen.version

\* The documents the statement of a call finds.
Finds(c, row) ==
  CASE asking[c].does.op = "update" -> Live(row) /\ AtExpected(c, row)
    [] asking[c].does.op \in {"create", "createMany"} -> ~row.there
    [] asking[c].does.op = "upsert" -> ~row.there \/ Live(row)
    [] asking[c].does.op \in {"updateMany", "delete", "deleteMany"} -> Live(row)
    [] OTHER -> row.there

\* And what becomes of one it finds.
Becomes(r, row) ==
  CASE r.op \in {"create", "createMany"} -> Created(row)
    [] r.op \in {"update", "updateMany"} -> Patched(r, row)
    [] r.op = "upsert" -> IF row.there THEN Patched([r EXCEPT !.audit = TRUE], row) ELSE Created(row)
    [] r.op = "restore" -> Restored(row)
    [] r.op \in {"delete", "deleteMany"} /\ keeping.softDeletes -> SoftDeleted(row)
    [] OTHER -> Gone(row)

\* The calls that end whatever they find.
Many(r) == r.op \in {"updateMany", "deleteMany", "hardDeleteMany"}

\* The after hooks of an update that is not audited do not run.
AfterIt(r) == IF keeping.by = "mongo" /\ r.audit THEN "after" ELSE "ended"

\* PostgreSQL writes every document of a statement, or none when an insert
\* meets one that is there; MongoDB writes one at a time.
AtOnce(left) == IF keeping.by = "pg" THEN {left} ELSE {{i} : i \in left}

WriteStatement(c) ==
  LET r == asking[c].does IN
  /\ asking[c].at = "statement" /\ ~(r.op = "update" /\ NothingToSet(r))
  /\ \E some \in AtOnce(asking[c].left) :
       LET found == {i \in some : Finds(c, stored[i])}
           left == asking[c].left \ some
       IN  /\ found = some \/ Many(r)
           /\ stored' = [i \in Keys |-> IF i \in found THEN Becomes(r, stored[i]) ELSE stored[i]]
           /\ asking' = [asking EXCEPT
                ![c].left = left,
                ![c].met = IF r.expects THEN stored[CHOOSE i \in some : TRUE] ELSE NoRow,
                ![c].at = IF left = {} THEN AfterIt(r) ELSE "statement",
                ![c].answer = IF left = {} THEN "written" ELSE "none"]
  /\ UNCHANGED keeping

\* A statement that finds nothing: an insert conflicts, and what it had
\* inserted stays; an update at a version reads again to say why.
FindsNothing(c) ==
  LET r == asking[c].does IN
  /\ asking[c].at = "statement" /\ ~Many(r) /\ ~(r.op = "update" /\ NothingToSet(r))
  /\ \E i \in asking[c].left : ~Finds(c, stored[i])
  /\ \/ r.op \in {"create", "createMany", "upsert"} /\ Ends(c, "conflict")
     \/ r.expects /\ asking' = [asking EXCEPT ![c].at = "reread"]
     \/ r.op \notin {"create", "createMany", "upsert"} /\ ~r.expects /\ Ends(c, "missing")
  /\ UNCHANGED <<keeping, stored>>

\* The call of an update at a version, once it has read its document again.
Told(c, row, answer) ==
  asking' = [asking EXCEPT ![c].at = "ended", ![c].left = {}, ![c].met = row, ![c].answer = answer]

\* A repository says a row moved when it finds it at another version, a
\* collection when it finds the document at all, soft-deleted or not.
SaysMoved(c, row) ==
  IF keeping.by = "pg" THEN Live(row) /\ ~AtExpected(c, row) ELSE row.there

ReadAgain(c) ==
  /\ asking[c].at = "reread"
  /\ \E i \in asking[c].left :
       Told(c, stored[i], IF SaysMoved(c, stored[i]) THEN "moved" ELSE "missing")
  /\ UNCHANGED <<keeping, stored>>

\* A repository's update of nothing only reads, and checks the version.
ReadsOnly(c) ==
  LET r == asking[c].does IN
  /\ asking[c].at = "statement" /\ r.op = "update" /\ NothingToSet(r)
  /\ \E i \in asking[c].left :
       Told(c, stored[i], CASE ~Live(stored[i]) -> "missing"
                            [] Live(stored[i]) /\ ~AtExpected(c, stored[i]) -> "moved"
                            [] OTHER -> "written")
  /\ UNCHANGED <<keeping, stored>>

\* The after hooks run, and one of them may throw: the write stands.
HooksAfter(c) ==
  /\ asking[c].at = "after"
  /\ \/ Ends(c, "hookFailed")
     \/ asking' = [asking EXCEPT ![c].at = "ended"]
  /\ UNCHANGED <<keeping, stored>>

DocumentsNext ==
  \E c \in Writers : \/ ReadDocument(c) \/ CallsWrite(c) \/ WriteStatement(c)
                     \/ FindsNothing(c) \/ ReadAgain(c) \/ ReadsOnly(c) \/ HooksAfter(c)

DocumentsSpec == DocumentsInit /\ [][DocumentsNext]_documentVars

-----------------------------------------------------------------------------
(* Properties. *)

\* The collection is one of the two, and the documents and calls are ones the
\* code can hold.
DocumentsTypeOK ==
  /\ keeping \in [by : {"mongo", "pg"}, softDeletes : BOOLEAN]
  /\ stored \in [Keys -> Row] /\ asking \in [Writers -> WriteCall]

\* The lock of an update at a version.  One that is written has met the
\* document as its caller read it: no audited write of it came between, be it
\* an update, an upsert, a delete or a restore.  One told that the document
\* moved has met another version of it, another document of its key, or, in a
\* collection, a document that was soft-deleted when it was read and still is.
LockTells ==
  \A c \in Writers :
    LET a == asking[c] IN
    (a.does # NoRow /\ a.met # NoRow) =>
      /\ (a.answer = "written" /\ a.does.expects /\ a.met.born = a.seen.born) => a.met.writes = a.seen.writes
      /\ (a.answer = "moved") =>
           \/ <<a.met.born, a.met.version>> # <<a.seen.born, a.seen.version>>
           \/ keeping.by = "mongo" /\ a.met.deleted /\ a.seen.deleted

=============================================================================
