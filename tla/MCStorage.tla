----------------------------- MODULE MCStorage ------------------------------
(***************************************************************************)
(* Parts of the packages that keep data, one of them per behaviour: the    *)
(* files of a GridFS bucket, a transaction, deploys that migrate one       *)
(* database, the documents of a collection, a rotation of backups, an      *)
(* index rebuilt beside the live one, a collection brought in line with    *)
(* its definition and lists read page by page.  `part' is the one that     *)
(* runs; the others stand as they began.                                   *)
(***************************************************************************)
EXTENDS MCGridFS, Rotation, Documents, Transactions, Migrations, IndexRebuild, SchemaSync, Pages

CONSTANTS m1, m2, m3, d1, d2, k1, k2, x, y

VARIABLE part

Order(kind, list, to) == [kind |-> kind, list |-> list, to |-> to]

All == Order("migrate", <<m1, m2, m3>>, NoId)

\* A migrate of a newer and of an older list, to the end or up to an id, and
\* rollbacks of both.
MCOrders ==
  LET order == <<All, Order("migrate", <<m1, m3>>, m3),
                 Order("rollback", <<m1, m2, m3>>, m1), Order("rollback", <<m1, m2>>, NoId)>>
  IN  UNION { {(d1 :> order[i]) @@ (d2 :> order[j]) : j \in i .. 4} : i \in 1 .. 4 }

MCPasts == {{}, {m1}, {m1, m2}}

\* The first of its cases, for a part that stands.
OneMigration == records = {} /\ \A d \in Deploys : <<deploy[d].kind, deploy[d].list>> = <<"migrate", All.list>>

\* Up to four backups, each full or built on any older one, of one or two
\* bytes, held or not; the newest may be newer than now, and one of the held
\* may stand in for a manifest that does not read.  Two share a period.
MCOff == -1
MCPeriod(age) == age \div 2

Candidate(i) ==
  {[age |-> a, parent |-> p, size |-> s, held |-> h \/ u, standIn |-> u] :
     a \in IF i = 4 THEN {4 - i, -1} ELSE {4 - i},
     p \in {j \in 0 .. 3 : j < i}, s \in 1 .. IF i \in {2, 3} THEN 2 ELSE 1, h \in BOOLEAN, u \in {FALSE, i = 2}}

MCRepositories ==
  {<<a, b, c, d>> : a \in Candidate(1), b \in Candidate(2),
                    c \in Candidate(3), d \in Candidate(4)}

Policy(l, c, w, m) == [last |-> l, calendar |-> c, within |-> w, maxTotalSize |-> m]

MCPolicies ==
  {Policy(1, Off, Off, Off), Policy(Off, 2, Off, Off), Policy(Off, Off, 1, 3),
   Policy(2, Off, Off, 3), Policy(1, 2, Off, 4)}

\* Callers about one document, and about two with createMany and updateMany:
\* every method that writes a document by its id, updates at a version,
\* silent ones and ones of nothing.
Call(op, ids, expects, audit, empty) ==
  [op |-> op, ids |-> ids, expects |-> expects, audit |-> audit, empty |-> empty]

MCAsks ==
  {Call("update", {k1}, TRUE, TRUE, FALSE), Call("update", {k1}, TRUE, TRUE, TRUE),
   Call("update", {k1}, TRUE, FALSE, FALSE), Call("update", {k1}, FALSE, TRUE, FALSE),
   Call("update", {k1}, FALSE, FALSE, TRUE), Call("upsert", {k1}, TRUE, TRUE, FALSE)}
  \cup {Call(op, {k1}, FALSE, TRUE, FALSE) : op \in {"create", "delete", "restore", "hardDelete"}}
  \cup {Call(op, {k1, k2}, FALSE, TRUE, FALSE) : op \in {"createMany", "updateMany"}}

\* A list of all the rows, and one of the last two.
MCInScope == [s \in Scopes |-> IF s = "all" THEN Rows ELSE {k \in Rows : k > 2}]

\* Two versions of a definition, and one with a collation of its own.
Fr == [locale |-> "fr"]
Definition(capped, collation, level, schema, built) ==
  [capped |-> capped, collation |-> collation, level |-> level, schema |-> schema, indexes |-> built]
On(key, options) == [key |-> key, options |-> options]
Old == Definition(1, Unsaid, "strict", "old",
                  "a" :> On(<<"x", "y">>, "unique" :> FALSE) @@ "b" :> On(<<"y">>, Unsaid))
New == Definition(2, Unsaid, "moderate", "new",
                  "a" :> On(<<"y", "x">>, "unique" :> TRUE @@ "collation" :> Fr))
French == Definition(0, Fr, "off", "none", "b" :> On(<<"y">>, "unique" :> TRUE))

SyncOf(d, dryRun, dropUnknown) ==
  [definition |-> d, dryRun |-> dryRun, dropUnknown |-> dropUnknown]
MCAuto == SyncOf(New, FALSE, FALSE)
MCSyncAsks ==
  {SyncOf(Old, FALSE, FALSE), MCAuto, SyncOf(New, TRUE, FALSE), SyncOf(French, FALSE, TRUE)}

StorageInit ==
  /\ GridInit /\ TransactionsInit /\ MigrationsInit /\ DocumentsInit /\ RebuildInit /\ SchemaInit
  /\ part \in {"gridfs", "transactions", "migrations", "documents", "rotation", "rebuild", "schema", "pages"}
  /\ part # "transactions" => call.retryTransient
  /\ part # "migrations" => OneMigration
  /\ part # "documents" => keeping = [by |-> "pg", softDeletes |-> TRUE] /\ \A i \in Keys : stored[i].there
  /\ part = "documents" => stored[k1].there = stored[k2].there /\ (keeping.softDeletes \/ stored[k1].there)
  /\ plain => indexes["live"] # NoIndex
  /\ part # "rebuild" => ~plain /\ indexes["live"] = NoIndex
  /\ IF part = "pages" THEN PagesInit
     ELSE /\ listed = [k \in Rows |-> [shown |-> FALSE, value |-> Null]]
          /\ walk = (CHOOSE w \in Walks : TRUE) /\ moved = {}
  /\ IF part = "rotation" THEN Init
     ELSE candidates = <<>> /\ policy = (CHOOSE p \in Policies : TRUE) /\ kept = Undecided

storageVars == <<gridVars, transactionVars, migrationVars, documentVars, vars, rebuildVars, schemaVars, pageVars, part>>

StorageNext ==
  /\ UNCHANGED part /\ (part = "schema" \/ UNCHANGED schemaVars) /\ (part = "pages" \/ UNCHANGED pageVars)
  /\ \/ part = "gridfs" /\ GridNext
          /\ UNCHANGED <<transactionVars, migrationVars, documentVars, vars, rebuildVars>>
     \/ part = "transactions" /\ TransactionsNext
          /\ UNCHANGED <<gridVars, migrationVars, documentVars, vars, rebuildVars>>
     \/ part = "migrations" /\ MigrationsNext
          /\ UNCHANGED <<gridVars, transactionVars, documentVars, vars, rebuildVars>>
     \/ part = "documents" /\ DocumentsNext
          /\ UNCHANGED <<gridVars, transactionVars, migrationVars, vars, rebuildVars>>
     \/ part = "rotation" /\ Decide
          /\ UNCHANGED <<gridVars, transactionVars, migrationVars, documentVars, rebuildVars>>
     \/ part = "rebuild" /\ RebuildNext
          /\ UNCHANGED <<gridVars, transactionVars, migrationVars, documentVars, vars>>
     \/ part = "schema" /\ SchemaNext
          /\ UNCHANGED <<gridVars, transactionVars, migrationVars, documentVars, vars, rebuildVars>>
     \/ part = "pages" /\ PagesNext
          /\ UNCHANGED <<gridVars, transactionVars, migrationVars, documentVars, vars, rebuildVars>>

StorageSpec == StorageInit /\ [][StorageNext]_storageVars

\* The calls of a part are alike, and the batches of a rebuild are.  No part has
\* both, so one group of permutations serves: those that leave one call alone
\* change the batches over.
StorageSymmetry ==
  {p @@ (IF Cardinality({c \in Callers : p[c] = c}) = 1 THEN (x :> y @@ y :> x) ELSE (x :> x @@ y :> y)) :
     p \in Permutations(Callers)}

\* The type invariants, each of the part that runs.
StorageTypeOK ==
  CASE part = "gridfs" -> GridTypeOK
    [] part = "transactions" -> TransactionsTypeOK
    [] part = "migrations" -> MigrationsTypeOK
    [] part = "documents" -> DocumentsTypeOK
    [] part = "rebuild" -> RebuildTypeOK
    [] OTHER -> TRUE

=============================================================================
