------------------------------- MODULE Pages -------------------------------
(***************************************************************************)
(* Lists read a page at a time while they are written to: the documents of *)
(* a collection, the rows of a table and the files of a bucket after a     *)
(* cursor, and a collection by page number.  A cursor holds the ordering   *)
(* it was cut in, the scope of its list, and where its page ended.         *)
(***************************************************************************)
EXTENDS Integers, Sequences, FiniteSets

CONSTANTS
  Rows,        \* the primary keys, in their order
  Values,      \* what the field a list is ordered by may hold
  Scopes,      \* the lists: which documents each is of
  InScope,
  Limit,       \* how many a page holds
  MaxMoves,    \* how many changes are made during a walk
  NoCursor, NotRead

\* A primary key is not null.
ASSUME PagesAssumption ==
  /\ Rows \subseteq Nat \ {0} /\ IsFiniteSet(Rows) /\ Values \subseteq Nat \ {0}
  /\ Limit \in Nat \ {0} /\ MaxMoves \in Nat /\ InScope \in [Scopes -> SUBSET Rows]

ASSUME CursorAssumption ==
  NoCursor \notin [key : Seq({"id", "value", "asc", "desc"} \cup Scopes),
               value : Values \cup {0}, id : Rows]

\* A null, or a missing field: MongoDB sorts them together, before the rest.
Null == 0

VARIABLES
  listed,  \* each document: whether the list shows it, and the value it is ordered by
  walk,    \* one reading of a list, page after page
  moved    \* the documents written since it began

pageVars == <<listed, walk, moved>>

\* What is asked for with each page.
Orderings ==
  [field : {"id", "value"}, direction : {"asc", "desc"}, scope : Scopes]

\* by: paginateByCursor of a collection or of a table, paginate of a bucket;
\* paginate of a repository, or of any query.
Walks ==
  {[by |-> by, ordering |-> o, cursor |-> NoCursor, pages |-> <<>>, ended |-> FALSE,
    page |-> 1, items |-> NotRead, total |-> NotRead] :
     by \in {"collection", "table", "files", "number", "query"}, o \in Orderings}

\* A table is paged along a NOT NULL column, the files along their dates.
PagesInit ==
  /\ listed \in [Rows -> [shown : BOOLEAN, value : Values \cup {Null}]]
  /\ walk \in Walks /\ moved = {}
  /\ \A k \in Rows : ~listed[k].shown => listed[k].value = Null
  /\ walk.by \in {"table", "files"} => \A k \in Rows : listed[k].shown => listed[k].value # Null
  /\ walk.by = "files" => walk.ordering.field = "value"
  /\ walk.by \in {"number", "query"} => walk.ordering.field = "id" /\ walk.ordering.direction = "asc"

-----------------------------------------------------------------------------
(* Orderings and cursors. *)

Least(p, q) == p[1] < q[1] \/ (p[1] = q[1] /\ p[2] < q[2])

Place(k, o) == IF o.field = "id" THEN <<0, k>> ELSE <<listed[k].value, k>>

\* The sort of a query: the key breaks the ties.
Ahead(j, k, o) ==
  IF o.direction = "asc" THEN Least(Place(j, o), Place(k, o)) ELSE Least(Place(k, o), Place(j, o))

Matching(o) == {k \in InScope[o.scope] : listed[k].shown}

\* The first `n' of some documents.
TheFirst(ks, n, o) == {k \in ks : Cardinality({j \in ks : Ahead(j, k, o)}) < n}

TheLast(ks, o) == CHOOSE k \in ks : \A j \in ks \ {k} : Ahead(j, k, o)

\* A range operator, which matches no null.
Beyond(x, y, o) ==
  x # Null /\ y # Null /\ (IF o.direction = "asc" THEN x > y ELSE x < y)

\* A mistake: the null side of the ordering is not spelled out.
BadKeyset(k, v, id, o) ==
  \/ Beyond(listed[k].value, v, o)
  \/ listed[k].value = v /\ Beyond(k, id, o)

\* keyset of @nxgt/mongo: after every value descending come the nulls, after
\* the nulls ascending every value.
Keyset(k, v, id, o) ==
  \/ v # Null /\ Beyond(listed[k].value, v, o)
  \/ v # Null /\ o.direction = "desc" /\ listed[k].value = Null
  \/ v = Null /\ o.direction = "asc" /\ listed[k].value # Null
  \/ listed[k].value = v /\ Beyond(k, id, o)

\* keysetAfter of @nxgt/drizzle: a > x OR (a = x AND b > y).
KeysetAfter(k, v, id, o) ==
  Beyond(listed[k].value, v, o) \/ (listed[k].value = v /\ Beyond(k, id, o))

\* The two sides written out, on the date and the key.
FilesAfter(k, date, id, o) ==
  Beyond(listed[k].value, date, o) \/ (listed[k].value = date /\ Beyond(k, id, o))

After(k, o) ==
  \/ walk.cursor = NoCursor
  \/ /\ walk.cursor # NoCursor
     /\ LET v == walk.cursor.value
            id == walk.cursor.id IN
        CASE o.field = "id" -> Beyond(k, id, o)
          [] o.field = "value" /\ walk.by = "collection" -> Keyset(k, v, id, o)
          [] o.field = "value" /\ walk.by = "table" -> KeysetAfter(k, v, id, o)
          [] walk.by = "files" -> FilesAfter(k, v, id, o)

\* A cursor of a table or of a bucket: its ordering.
BareKey(o) == <<o.field, o.direction>>

\* cursorKey: one of a collection is bound to its scope as well.
CursorKey(o) == IF walk.by = "collection" THEN BareKey(o) \o <<o.scope>> ELSE BareKey(o)

CursorAt(k, o) == [key |-> CursorKey(o), value |-> listed[k].value, id |-> k]

\* A mistake: any cursor is taken.
BadAccepted(o) == TRUE

\* decodeCursor: not one of another ordering, or of another scope.
Accepted(o) == walk.cursor # NoCursor => walk.cursor.key = CursorKey(o)

-----------------------------------------------------------------------------
(* Reading. *)

\* One more than the page holds is read, to know whether there is another.
ReadsAfter(o) ==
  LET found == TheFirst({k \in Matching(o) : After(k, o)}, Limit + 1, o)
      items == TheFirst(found, Limit, o)
      more == Cardinality(found) > Limit IN
  /\ ~walk.ended /\ Accepted(o)
  /\ walk' = [walk EXCEPT !.pages = Append(@, items), !.ended = ~more,
                          !.cursor = IF more THEN CursorAt(TheLast(items, o), o) ELSE NoCursor]
  /\ UNCHANGED <<listed, moved>>

\* The first page is of the walk's list; with a cursor the caller may by
\* mistake ask for another.
Askable == {o \in Orderings : walk.cursor = NoCursor => o = walk.ordering}

CollectionPage == walk.by = "collection" /\ \E o \in Askable : ReadsAfter(o)

TablePage ==
  walk.by = "table" /\ \E o \in Askable : o.scope = walk.ordering.scope /\ ReadsAfter(o)

FilesPage ==
  /\ walk.by = "files"
  /\ \E o \in Askable : o.scope = walk.ordering.scope /\ o.field = "value" /\ ReadsAfter(o)

\* pageWindow
Skip(page) == (page - 1) * Limit

\* paginate: a repository asks for the documents of the page and the total at
\* once, a query is counted first.
ReadsItems ==
  /\ ~walk.ended /\ walk.by \in {"number", "query"} /\ walk.items = NotRead
  /\ walk.by = "query" => walk.total # NotRead
  /\ LET o == walk.ordering
         skipped == TheFirst(Matching(o), Skip(walk.page), o) IN
     walk' = [walk EXCEPT !.items = TheFirst(Matching(o) \ skipped, Limit, o)]
  /\ UNCHANGED <<listed, moved>>

ReadsTotal ==
  /\ ~walk.ended /\ walk.by \in {"number", "query"} /\ walk.total = NotRead
  /\ walk' = [walk EXCEPT !.total = Cardinality(Matching(walk.ordering))]
  /\ UNCHANGED <<listed, moved>>

\* toPage
PageCount(total) == (total + Limit - 1) \div Limit

\* The caller goes on while there is a page.
TakesPage ==
  /\ walk.items # NotRead /\ walk.total # NotRead
  /\ walk' = [walk EXCEPT !.pages = Append(@, walk.items), !.page = @ + 1,
                          !.ended = walk.page >= PageCount(walk.total),
                          !.items = NotRead, !.total = NotRead]
  /\ UNCHANGED <<listed, moved>>

-----------------------------------------------------------------------------
(* The writes beside it. *)

\* A document is made, deleted, hidden, or its value changes.
Moves ==
  /\ ~walk.ended /\ Cardinality(moved) < MaxMoves
  /\ \E k \in Rows, shown \in BOOLEAN, v \in Values \cup {Null} :
       /\ ~shown => v = Null
       /\ walk.by \in {"table", "files"} /\ shown => v # Null
       /\ [shown |-> shown, value |-> v] # listed[k]
       /\ listed' = [listed EXCEPT ![k] = [shown |-> shown, value |-> v]]
       /\ moved' = moved \cup {k}
  /\ UNCHANGED walk

PagesNext == CollectionPage \/ TablePage \/ FilesPage \/ ReadsItems \/ ReadsTotal \/ TakesPage \/ Moves

PagesSpec == PagesInit /\ [][PagesNext]_pageVars

-----------------------------------------------------------------------------
(* Properties. *)

Still == Matching(walk.ordering) \ moved
SeenOn(i) == walk.pages[i] \cap Still
Seen == UNION {SeenOn(i) : i \in DOMAIN walk.pages}

\* Whatever is written beside it, a walk by cursors gives each document that
\* stands still once, in the order of its list, and nothing of another list;
\* it has given all of them up to its cursor, and all when it ends.
WalksWhole ==
  walk.by \notin {"number", "query"} \/ moved = {} =>
    /\ \A i, j \in DOMAIN walk.pages :
         i < j => \A a \in SeenOn(i), b \in SeenOn(j) : Ahead(a, b, walk.ordering)
    /\ \A i \in DOMAIN walk.pages : walk.pages[i] \subseteq InScope[walk.ordering.scope]
    /\ walk.ended => Seen = Still
    /\ walk.cursor # NoCursor => \A k \in Still : k \in Seen \/ After(k, walk.ordering)
=============================================================================
