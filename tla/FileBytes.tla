----------------------------- MODULE FileBytes -----------------------------
(***************************************************************************)
(* The bytes of one id of a bucket (packages/mongo/src/gridfs): what put   *)
(* reads of a source and cuts into chunks, again when its transaction runs *)
(* again; what a reader of a range gets while the file is deleted, stored  *)
(* anew under its id, or damaged; and the index that elects between two    *)
(* puts, which a process creates once and another may drop.                *)
(***************************************************************************)
EXTENDS Integers, Sequences, FiniteSets

CONSTANTS
  Putters,      \* the calls of put, all with this id
  Pieces,       \* how many bytes each piece of their sources has
  ChunkSizes,   \* the chunk size of each
  Batch,        \* how many chunks an insert holds
  Processes,
  ProcessOf,    \* the process of each put
  Dropper,      \* the one that may drop the bucket
  Ranges,       \* what a reader may ask for
  MaxUpsets,    \* failures, crashes, aborts, drops and damages
  NoFileYet

ASSUME FileBytesAssumption ==
  /\ \A p \in Putters : Pieces[p] \in Seq(Nat) /\ ChunkSizes[p] \in Nat \ {0}
  /\ Batch \in Nat \ {0} /\ MaxUpsets \in Nat
  /\ ProcessOf \in [Putters -> Processes] /\ Dropper \in Processes

VARIABLES
  pieces,   \* the chunk documents under the id
  meta,     \* the document of the file
  indexed,  \* whether the unique index { files_id, n } is there
  synced,   \* the processes that remember having created it
  putter,   \* the calls of put
  deleter,  \* one delete of the file, or drop of the bucket
  reader,   \* one reader of the file
  upsets

byteVars == <<pieces, meta, indexed, synced, putter, deleter, reader, upsets>>

\* `within': in a transaction; `once': a source that can be read once;
\* `auto': bound with autoSync.
NewPut ==
  [phase : {"new"}, within : BOOLEAN, once : BOOLEAN, auto : BOOLEAN, run : {1}, next : {1},
   got : {0}, cut : {0}, n : {0}, batch : {<<>>}, held : {{}}]

Whole == [kind |-> "whole", from |-> 0, to |-> 0]

FileBytesInit ==
  /\ pieces = {} /\ meta = NoFileYet /\ indexed \in BOOLEAN /\ synced = {} /\ upsets = 0
  /\ putter \in [Putters -> NewPut]
  /\ \A p, q \in Putters : putter[p].auto = putter[q].auto /\ (putter[p].once => putter[p].within)
  /\ deleter \in [phase : {"new"}, op : {"delete", "drop"}, n : {0}]
  /\ reader = [phase |-> "new", doc |-> NoFileYet, asked |-> Whole, status |-> 0,
               start |-> 0, end |-> 0, expected |-> 0, last |-> 0, buffer |-> <<>>, spent |-> FALSE,
               out |-> <<>>, safe |-> TRUE]

Upset == upsets < MaxUpsets /\ upsets' = upsets + 1

-----------------------------------------------------------------------------
(* put: the source, its chunks and the document. *)

InPut(p, phase) == putter[p].phase = phase

PutGoes(p, phase) == putter' = [putter EXCEPT ![p].phase = phase]

\* syncBucketIndexes: the unique index is created where it is not, which the
\* chunks of two puts refuse.
IndexRefused == ~indexed /\ \E c, d \in pieces : c # d /\ c.n = d.n

\* A bucket bound with autoSync waits for its process's sync, outside of the
\* session; one that fails is forgotten, and the call with it.
SyncsOnce(p) ==
  /\ InPut(p, "new")
  /\ IF putter[p].auto /\ ProcessOf[p] \notin synced
     THEN /\ indexed' = ~IndexRefused
          /\ synced' = IF IndexRefused THEN synced ELSE synced \cup {ProcessOf[p]}
          /\ PutGoes(p, IF IndexRefused THEN "refused" ELSE "checking")
     ELSE PutGoes(p, "checking") /\ UNCHANGED <<indexed, synced>>
  /\ UNCHANGED <<pieces, meta, deleter, reader, upsets>>

\* fileExists
ChecksId(p) ==
  /\ InPut(p, "checking")
  /\ PutGoes(p, IF meta # NoFileYet THEN "refused" ELSE "writing")
  /\ UNCHANGED <<pieces, meta, indexed, synced, deleter, reader, upsets>>

\* What can be read once was, by the run before.
Spent(p) == putter[p].once /\ putter[p].run > 1

\* What a source that was read has left is nothing.
SourceEnds(p) ==
  putter[p].next > Len(Pieces[p]) \/ (putter[p].once /\ putter[p].run > 1 /\ putter[p].next = 1)

Filled(p) == putter[p].got - putter[p].cut

MayPull(p) ==
  /\ InPut(p, "writing") /\ Filled(p) < ChunkSizes[p] /\ Len(putter[p].batch) < Batch

GivesUp(p) == putter' = [putter EXCEPT ![p].phase = "dropping", ![p].batch = <<>>]

\* The refusal of a spent source comes with the first pull.
PullsPiece(p) ==
  /\ MayPull(p)
  /\ IF putter[p].next = 1 /\ Spent(p) THEN GivesUp(p)
     ELSE IF SourceEnds(p) THEN PutGoes(p, "trailing")
     ELSE putter' = [putter EXCEPT ![p].next = @ + 1, ![p].got = @ + Pieces[p][putter[p].next]]
  /\ UNCHANGED <<pieces, meta, indexed, synced, deleter, reader, upsets>>

Emitted(p, upto) ==
  [putter[p] EXCEPT !.n = @ + 1, !.cut = upto,
                    !.batch = Append(@, [by |-> p, n |-> putter[p].n, from |-> putter[p].cut, upto |-> upto])]

\* A full chunk, or what is left when the source has ended: never an empty one.
CutsChunk(p) ==
  /\ Len(putter[p].batch) < Batch
  /\ \/ /\ InPut(p, "writing") /\ Filled(p) >= ChunkSizes[p]
        /\ putter' = [putter EXCEPT ![p] = Emitted(p, putter[p].cut + ChunkSizes[p])]
     \/ /\ InPut(p, "trailing")
        /\ putter' = [putter EXCEPT ![p] =
             [(IF Filled(p) > 0 THEN Emitted(p, putter[p].got) ELSE putter[p]) EXCEPT !.phase = "flushing"]]
  /\ UNCHANGED <<pieces, meta, indexed, synced, deleter, reader, upsets>>

Collides(c) == indexed /\ \E d \in pieces : d.n = c.n

\* One insert, in order: what comes before the one that is refused, or before
\* a failure, is there.  In a transaction nobody sees it yet.
InsertsBatch(p) ==
  LET batch == putter[p].batch
      upto(i) == {batch[j] : j \in 1 .. i}
      clear(i) == \A j \in 1 .. i : ~Collides(batch[j]) IN
  /\ batch # <<>> /\ putter[p].phase \in {"writing", "trailing", "flushing"}
  /\ Len(batch) = Batch \/ InPut(p, "flushing")
  /\ \E i \in 0 .. Len(batch) :
       /\ clear(i)
       /\ IF i < Len(batch) /\ clear(i + 1) THEN Upset ELSE UNCHANGED upsets
       /\ LET after == [putter[p] EXCEPT !.batch = <<>>, !.phase = IF i < Len(batch) THEN "dropping" ELSE @] IN
          IF putter[p].within
          THEN putter' = [putter EXCEPT ![p] = [after EXCEPT !.held = @ \cup upto(i)]] /\ UNCHANGED pieces
          ELSE putter' = [putter EXCEPT ![p] = after] /\ pieces' = pieces \cup upto(i)
  /\ UNCHANGED <<meta, indexed, synced, deleter, reader>>

Document(p) == [by |-> p, length |-> putter[p].got, size |-> ChunkSizes[p]]

\* The document last.
InsertsDocument(p) ==
  /\ InPut(p, "flushing") /\ putter[p].batch = <<>>
  /\ IF meta # NoFileYet THEN PutGoes(p, "dropping") /\ UNCHANGED meta
     ELSE IF putter[p].within THEN PutGoes(p, "committing") /\ UNCHANGED meta
     ELSE PutGoes(p, "stored") /\ meta' = Document(p)
  /\ UNCHANGED <<pieces, indexed, synced, deleter, reader, upsets>>

\* A commit that meets what was stored meanwhile, or fails on its own, runs
\* the callback again, over the same source.
Commits(p) ==
  /\ InPut(p, "committing")
  /\ \/ /\ meta = NoFileYet /\ ~\E c \in putter[p].held : Collides(c)
        /\ meta' = Document(p) /\ pieces' = pieces \cup putter[p].held
        /\ putter' = [putter EXCEPT ![p].phase = "stored", ![p].held = {}]
        /\ UNCHANGED upsets
     \/ /\ IF meta # NoFileYet \/ \E c \in putter[p].held : Collides(c) THEN UNCHANGED upsets ELSE Upset
        /\ putter' = [putter EXCEPT ![p] =
             [@ EXCEPT !.phase = IF putter[p].run = 2 THEN "refused" ELSE "checking",
                       !.run = 2, !.next = 1, !.got = 0, !.cut = 0, !.n = 0, !.held = {}]]
        /\ UNCHANGED <<meta, pieces>>
  /\ UNCHANGED <<indexed, synced, deleter, reader>>

\* What this call wrote, and that only.
OwnPieces(p) == {c \in pieces : c.by = p}

DropsOwn(p) ==
  /\ InPut(p, "dropping")
  /\ IF OwnPieces(p) = {} THEN putter' = [putter EXCEPT ![p].phase = "refused", ![p].held = {}] /\ UNCHANGED pieces
     ELSE /\ \E c \in OwnPieces(p) : (\A d \in OwnPieces(p) : c.n <= d.n) /\ pieces' = pieces \ {c}
          /\ UNCHANGED putter
  /\ UNCHANGED <<meta, indexed, synced, deleter, reader, upsets>>

\* The source fails, the removal fails, or the process ends.
PutFails(p) ==
  /\ putter[p].phase \notin {"new", "stored", "refused"} /\ Upset
  /\ \/ putter[p].phase \in {"writing", "flushing"} /\ GivesUp(p)
     \/ putter' = [putter EXCEPT ![p].phase = "refused", ![p].held = {}, ![p].batch = <<>>]
  /\ UNCHANGED <<pieces, meta, indexed, synced, deleter, reader>>

-----------------------------------------------------------------------------
(* delete, drop, and what befalls the chunks. *)

Deleter(phase) == deleter.phase = phase

Vanishes == reader' = [reader EXCEPT !.safe = FALSE]

FindsFile ==
  /\ Deleter("new")
  /\ deleter' = [deleter EXCEPT !.phase = IF deleter.op = "drop" \/ meta # NoFileYet THEN "unlinking" ELSE "over"]
  /\ IF deleter.op = "drop" THEN Upset ELSE UNCHANGED upsets
  /\ UNCHANGED <<pieces, meta, indexed, synced, putter, reader>>

\* The document first.
Unlinks ==
  /\ Deleter("unlinking")
  /\ meta' = NoFileYet /\ Vanishes
  /\ deleter' = [deleter EXCEPT !.phase = "sweeping"]
  /\ UNCHANGED <<pieces, indexed, synced, putter, upsets>>

\* Then the chunks, along the index; or the collection, and what the process
\* that drops it remembers.
Sweeps ==
  /\ Deleter("sweeping")
  /\ IF deleter.op = "drop"
     THEN /\ pieces' = {} /\ indexed' = FALSE /\ synced' = synced \ {Dropper} /\ Vanishes
          /\ deleter' = [deleter EXCEPT !.phase = "over"]
     ELSE /\ LET left == {c \in pieces : c.n >= deleter.n} IN
             IF left = {} THEN deleter' = [deleter EXCEPT !.phase = "over"] /\ UNCHANGED pieces
             ELSE \E c \in left :
                    /\ \A d \in left : c.n <= d.n
                    /\ pieces' = pieces \ {d \in left : d.n = c.n}
                    /\ deleter' = [deleter EXCEPT !.n = c.n + 1]
          /\ UNCHANGED <<indexed, synced, reader>>
  /\ UNCHANGED <<meta, putter, upsets>>

\* A chunk is truncated; or lost, when no put could write another for it.
Damages ==
  /\ Upset
  /\ \E c \in pieces :
       \/ pieces' = pieces \ {c} /\ \A p \in Putters : putter[p].phase \in {"new", "stored", "refused"}
       \/ c.upto > c.from /\ pieces' = (pieces \ {c}) \cup {[c EXCEPT !.upto = @ - 1]}
  /\ UNCHANGED <<meta, indexed, synced, putter, deleter, reader>>

-----------------------------------------------------------------------------
(* Reading. *)

Lower(a, b) == IF a < b THEN a ELSE b
Upper(a, b) == IF a > b THEN a ELSE b
Up(a, b) == (a + b - 1) \div b

\* satisfiable of a range given to response, its end exclusive: what the file
\* has of it.
Satisfiable(r, size) ==
  LET end == Lower(r.to, size) IN
  [start |-> r.from, end |-> end, fits |-> ~(r.from < 0 \/ r.from >= size \/ end <= r.from)]

\* parseRange of bytes=from-, bytes=from-to and bytes=-to, and its end exclusive;
\* response then asks satisfiable, which agrees.
ParsedRange(r, size) ==
  LET start == IF r.kind = "last" THEN Upper(0, size - r.to) ELSE r.from
      end == IF r.kind = "between" THEN Lower(size, r.to + 1) ELSE size IN
  [start |-> start, end |-> end,
   fits |-> IF r.kind = "last" THEN r.to # 0 /\ size # 0 ELSE start < size /\ end > start]

\* readChunks of a range given to stream.
Clamped(r, size) ==
  LET start == Upper(0, Lower(r.from, size)) IN
  [start |-> start, end |-> Upper(start, Lower(r.to, size)), fits |-> TRUE]

RangeOf(r, size) ==
  CASE r.kind = "whole" -> [start |-> 0, end |-> size, fits |-> TRUE]
    [] r.kind = "stream" -> Clamped(r, size)
    [] r.kind = "response" -> Satisfiable(r, size)
    [] OTHER -> ParsedRange(r, size)

Answered(r, status) ==
  [reader EXCEPT !.phase = "answered", !.status = status, !.doc = meta, !.asked = r]

\* response: the status and the length are decided before a chunk is read.
Responds(r) ==
  LET found == RangeOf(r, meta.length) IN
  IF ~found.fits THEN Answered(r, 416)
  ELSE [Answered(r, IF found.start > 0 \/ found.end < meta.length THEN 206 ELSE 200) EXCEPT
          !.phase = IF found.end = found.start THEN "closed" ELSE "reading",
          !.start = found.start, !.end = found.end, !.safe = indexed /\ (Deleter("new") \/ deleter.op = "delete"),
          !.expected = found.start \div meta.size, !.last = Up(found.end, meta.size) - 1]

\* serveFile: a request may carry the digest of the bytes its client has.
Matches(r, tag) == tag = meta.by /\ r.kind \notin {"response", "stream"}

\* The file is found, and its document kept.
Serves ==
  /\ reader.phase = "new"
  /\ \E r \in Ranges, tag \in Putters \cup {NoFileYet} :
       reader' = IF meta = NoFileYet THEN [reader EXCEPT !.phase = "answered", !.status = 404]
                 ELSE IF Matches(r, tag) THEN Answered(r, 304)
                 ELSE Responds(r)
  /\ UNCHANGED <<pieces, meta, indexed, synced, putter, deleter, upsets>>

\* The cursor takes any number of the next chunks as they are by now; without
\* the index it sorts them all at once.
Fetches ==
  /\ reader.phase = "reading" /\ reader.buffer = <<>> /\ ~reader.spent
  /\ LET next == {c \in pieces : reader.expected <= c.n /\ c.n <= reader.last} IN
     \E k \in IF indexed /\ next # {} THEN 1 .. Cardinality(next) ELSE {Cardinality(next)} :
       \E taken \in {t \in [1 .. k -> next] :
                       \A i \in 1 .. k : \A j \in 1 .. i - 1 : t[i] # t[j] /\ t[j].n <= t[i].n} :
         /\ \A c \in next : c \in {taken[i] : i \in 1 .. k} \/ \A i \in 1 .. k : taken[i].n <= c.n
         /\ reader' = [reader EXCEPT !.buffer = taken, !.spent = k = 0 \/ ~indexed]
  /\ UNCHANGED <<pieces, meta, indexed, synced, putter, deleter, upsets>>

ReaderGoes(phase) == reader' = [reader EXCEPT !.phase = phase, !.buffer = <<>>]

\* A mistake: nobody adds up what the chunks held.
BadAddsUp == TRUE

\* Every chunk may be there, and one hold less than it should.
AddsUp == Len(reader.out) = reader.end - reader.start

\* One pull: a chunk that is not the next one, or no chunk while one is due, is
\* missing; only the first and the last are cut.
GivesChunk ==
  /\ reader.phase = "reading"
  /\ IF reader.buffer = <<>>
     THEN reader.spent /\ ReaderGoes(IF reader.expected <= reader.last \/ ~AddsUp THEN "corrupt" ELSE "closed")
     ELSE LET c == Head(reader.buffer)
              at == reader.expected * reader.doc.size
              from == Upper(0, reader.start - at)
              to == Lower(c.upto - c.from, reader.end - at) IN
          IF c.n # reader.expected THEN ReaderGoes("corrupt")
          ELSE reader' = [reader EXCEPT !.expected = @ + 1, !.buffer = Tail(@),
                            !.out = @ \o [i \in 1 .. Upper(0, to - from) |-> <<c.by, c.from + from + i - 1>>]]
  /\ UNCHANGED <<pieces, meta, indexed, synced, putter, deleter, upsets>>

FileBytesNext ==
  \/ \E p \in Putters : \/ SyncsOnce(p) \/ ChecksId(p) \/ PullsPiece(p) \/ CutsChunk(p) \/ InsertsBatch(p)
                        \/ InsertsDocument(p) \/ Commits(p) \/ DropsOwn(p) \/ PutFails(p)
  \/ FindsFile \/ Unlinks \/ Sweeps \/ Damages
  \/ Serves \/ Fetches \/ GivesChunk

-----------------------------------------------------------------------------
(* Properties. *)

\* The bytes a range names, of so many.
AskedBytes(r, size) ==
  {i \in 0 .. size - 1 :
     CASE r.kind = "whole" -> TRUE
       [] r.kind = "from" -> r.from <= i
       [] r.kind = "between" -> r.from <= i /\ i <= r.to
       [] r.kind = "last" -> size - r.to <= i
       [] r.kind = "response" -> 0 <= r.from /\ r.from <= i /\ i < r.to
       [] r.kind = "stream" -> r.from <= i /\ i < r.to}

Given == {p \in Putters : InPut(p, "stored")}

SourceLength(p) == LET upTo[i \in 0 .. Len(Pieces[p])] == IF i = 0 THEN 0 ELSE upTo[i - 1] + Pieces[p][i]
                   IN upTo[Len(Pieces[p])]

\* An answer that ends gives as many bytes as its headers said; and, unless the
\* file was deleted or the bucket dropped, or there was no index to elect between
\* chunks, exactly those that were asked for of the file that was found, whatever is stored,
\* given up or damaged beside it.  A range is refused when it names none.  And
\* a put that answers stored all that its source had, whatever was run again.
\* (chunks.ts, serve.ts, handle.ts, source/read-once.ts.)
ServesAsked ==
  /\ reader.phase = "closed" =>
       /\ Len(reader.out) = reader.end - reader.start
       /\ reader.safe =>
            /\ {reader.out[i] : i \in DOMAIN reader.out} =
                 {<<reader.doc.by, i>> : i \in AskedBytes(reader.asked, reader.doc.length)}
            /\ \A i, j \in DOMAIN reader.out : i < j => reader.out[i][2] < reader.out[j][2]
  /\ reader.status = 416 => AskedBytes(reader.asked, reader.doc.length) = {}
  /\ reader.status = 206 => Cardinality(AskedBytes(reader.asked, reader.doc.length)) < reader.doc.length
  /\ \A p \in Given : putter[p].got = SourceLength(p)
=============================================================================
