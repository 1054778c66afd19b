------------------------------- MODULE GridFS -------------------------------
(***************************************************************************)
(* Calls of put, putOnce and delete on one bucket                          *)
(* (packages/mongo/src/gridfs): the chunks go in before the document of    *)
(* the file, and putOnce moves its chunks under the id its bytes decide,   *)
(* the first one alone, so that the unique index on { files_id, n } elects *)
(* between callers with the same bytes.                                    *)
(*                                                                         *)
(* The index is there, and a write that ran is not reported as failed: the *)
(* driver sends it once more.                                              *)
(***************************************************************************)
EXTENDS Naturals, FiniteSets

CONSTANTS
  Callers,    \* the calls
  Contents,   \* what a file may hold: also the id those bytes decide
  Size,       \* how many chunks each content makes
  MaxChunks,  \* how many they make at most
  ChosenIds,  \* ids given to put
  Requests,   \* the calls that may be made
  Retries,    \* how many times a claim that was let go is taken over
  Nobody, NoFile

ASSUME GridFSAssumption ==
  /\ MaxChunks \in Nat \ {0} /\ Size \in [Contents -> 0 .. MaxChunks] /\ Contents # {}
  /\ Retries \in Nat
  /\ Nobody \notin Callers /\ NoFile \notin Callers \cup Contents \cup ChosenIds
  /\ Callers \cap (Contents \cup ChosenIds) = {}  \* an id made for a call is a new one
  /\ Requests \subseteq [op : {"put", "putOnce", "delete"},
                         content : Contents, id : Contents \cup ChosenIds \cup {NoFile}]
  /\ \A q \in Requests : q.op = "putOnce" => q.id = NoFile

VARIABLES
  fileOf,     \* the id each chunk written is under
  document,   \* the documents of the files: who inserted it, and what it holds
  caller      \* the calls

gridVars == <<fileOf, document, caller>>

FileIds == Callers \cup Contents \cup ChosenIds

\* A chunk is named by the call that wrote it, and its number.
Chunks == Callers \X (0 .. MaxChunks - 1)

NoDocument == [by |-> Nobody, content |-> NoFile]

Documents == [by : Callers, content : Contents] \cup {NoDocument}

CallPhases == {"new", "checking", "writing", "asking", "claiming", "moving", "inserting",
               "looking", "peeking", "again", "dropping", "finding", "unlinking", "sweeping",
               "over", "crashed"}

\* `n': the next chunk; `left': the claims it may still make; `found': whose
\* file a delete saw; `tidy': nothing it had to remove was left behind.
CallState == [phase : CallPhases, op : {"put", "putOnce", "delete"}, content : Contents,
              id : FileIds \cup {NoFile}, n : 0 .. MaxChunks, left : 0 .. Retries,
              found : Callers \cup {Nobody}, tidy : BOOLEAN]

GridInit ==
  /\ fileOf = [k \in Chunks |-> NoFile]
  /\ document = [f \in FileIds |-> NoDocument]
  /\ caller = [c \in Callers |->
       [phase |-> "new", op |-> "put", content |-> CHOOSE b \in Contents : TRUE, id |-> NoFile,
        n |-> 0, left |-> Retries, found |-> Nobody, tidy |-> TRUE]]

(***************************************************************************)
(* The two collections                                                     *)
(***************************************************************************)

ContentOf(k) == caller[k[1]].content

\* What the unique index { files_id, n } says is taken.
Taken(f, n) == \E k \in Chunks : fileOf[k] = f /\ k[2] = n

Own(c) == { k \in Chunks : k[1] = c /\ fileOf[k] # NoFile }

Has(f) == document[f] # NoDocument

\* fileWithDigest: some file with these bytes, under whatever id.
SomeFileWith(b) == \E f \in FileIds : document[f].content = b

\* A mistake: a chunk past the last.
BadLengthOf(c) == Size[caller[c].content] + 1

LengthOf(c) == Size[caller[c].content]

OnceId(c) == caller[c].content

Goes(c, phase) == caller' = [caller EXCEPT ![c].phase = phase]

At(c, phase) == caller[c].phase = phase

Chunk(c) == <<c, caller[c].n>>

(***************************************************************************)
(* Writing                                                                 *)
(***************************************************************************)

\* A source that can be read twice is looked up before anything is written.
Ask(c, q) ==
  /\ At(c, "new")
  /\ \E phase \in CASE q.op = "put"     -> {IF q.id = NoFile THEN "writing" ELSE "checking"}
                    [] q.op = "putOnce" -> {"writing"}
                                           \cup (IF SomeFileWith(q.content) THEN {"over"} ELSE {})
                    [] q.op = "delete"  -> {"finding"} :
       caller' = [caller EXCEPT ![c] =
         [@ EXCEPT !.phase = phase, !.op = q.op, !.content = q.content,
                   !.id = IF q.id = NoFile THEN c ELSE q.id]]
  /\ UNCHANGED <<fileOf, document>>

\* An id the caller chose may be taken.
CheckId(c) ==
  /\ At(c, "checking")
  /\ Goes(c, IF Has(caller[c].id) THEN "over" ELSE "writing")
  /\ UNCHANGED <<fileOf, document>>

\* A chunk that is taken, or any failure of the source or the server, takes
\* down what was written so far.
WriteChunk(c) ==
  /\ At(c, "writing") /\ caller[c].n < LengthOf(c)
  /\ \/ /\ ~Taken(caller[c].id, caller[c].n)
        /\ fileOf' = [fileOf EXCEPT ![Chunk(c)] = caller[c].id]
        /\ caller' = [caller EXCEPT ![c].n = @ + 1]
     \/ Goes(c, "dropping") /\ UNCHANGED fileOf
  /\ UNCHANGED document

Written(c) ==
  /\ At(c, "writing") /\ caller[c].n = LengthOf(c)
  /\ Goes(c, IF caller[c].op = "put" THEN "inserting" ELSE "asking")
  /\ UNCHANGED <<fileOf, document>>

\* A finished copy that is there is the answer.  Asked once more by a call
\* that takes a claim over.
AskDigest(c) ==
  /\ caller[c].phase \in {"asking", "again"}
  /\ IF SomeFileWith(caller[c].content) THEN Goes(c, "dropping")
     ELSE caller' = [caller EXCEPT ![c].phase = IF LengthOf(c) = 0 THEN "inserting" ELSE "claiming",
                                   ![c].id = OnceId(c), ![c].n = 0,
                                   ![c].left = IF At(c, "again") THEN @ - 1 ELSE @]
  /\ UNCHANGED <<fileOf, document>>

(***************************************************************************)
(* The election                                                            *)
(***************************************************************************)

\* A chunk a delete swept away in the meantime moves nothing: nobody counts.
Moved(c) == IF fileOf[Chunk(c)] = NoFile THEN fileOf ELSE [fileOf EXCEPT ![Chunk(c)] = OnceId(c)]

\* Taken by another's chunk.
Elsewhere(c) == \E k \in Chunks \ {Chunk(c)} : fileOf[k] = OnceId(c) /\ k[2] = caller[c].n

\* The first chunk alone.
Claim(c) ==
  /\ At(c, "claiming")
  /\ IF Elsewhere(c) /\ fileOf[Chunk(c)] # NoFile THEN Goes(c, "looking") /\ UNCHANGED fileOf
     ELSE /\ fileOf' = Moved(c)
          /\ caller' = [caller EXCEPT ![c].n = 1, ![c].phase = IF LengthOf(c) = 1 THEN "inserting" ELSE "moving"]
  /\ UNCHANGED document

\* The rest: refused by what an interrupted write left.
MoveRest(c) ==
  /\ At(c, "moving")
  /\ IF Elsewhere(c) /\ fileOf[Chunk(c)] # NoFile THEN Goes(c, "dropping") /\ UNCHANGED fileOf
     ELSE /\ fileOf' = Moved(c)
          /\ caller' = [caller EXCEPT ![c].n = @ + 1,
                                      ![c].phase = IF caller[c].n + 1 = LengthOf(c) THEN "inserting" ELSE @]
  /\ UNCHANGED document

\* The document last.  One that is there is a put's failure, and a putOnce that
\* lost.
InsertDocument(c) ==
  /\ At(c, "inserting")
  /\ IF Has(caller[c].id)
     THEN Goes(c, IF caller[c].op = "put" THEN "dropping" ELSE "looking") /\ UNCHANGED document
     ELSE /\ document' = [document EXCEPT ![caller[c].id] = [by |-> c, content |-> caller[c].content]]
          /\ Goes(c, "over")
  /\ UNCHANGED fileOf

\* The winner's document: the answer, unless it holds other bytes: either way
\* this call's chunks go.
Look(c) ==
  /\ At(c, "looking")
  /\ Goes(c, IF Has(OnceId(c)) THEN "dropping" ELSE IF LengthOf(c) = 0 THEN "looking" ELSE "peeking")
  /\ UNCHANGED <<fileOf, document>>

\* Whether the claim is still there: a call whose claim was let go takes it
\* over while it may; one that waits too long gives up.
Peek(c) ==
  /\ At(c, "peeking")
  /\ Goes(c, IF Taken(OnceId(c), 0) THEN "looking" ELSE IF caller[c].left > 0 THEN "again" ELSE "dropping")
  /\ UNCHANGED <<fileOf, document>>

(***************************************************************************)
(* Removing                                                                *)
(***************************************************************************)

\* A mistake: everything under the id goes.
BadChunkDropped(c) == { k \in Chunks : fileOf[k] = caller[c].id }

\* What the call wrote, and nothing else.
ChunkDropped(c) == Own(c)

\* One at a time, in the order they were written.
DropChunk(c) ==
  /\ At(c, "dropping")
  /\ IF ChunkDropped(c) = {} THEN Goes(c, "over") /\ UNCHANGED fileOf
     ELSE /\ UNCHANGED caller
          /\ \E k \in ChunkDropped(c) :
               /\ \A j \in ChunkDropped(c) : k[2] <= j[2]
               /\ fileOf' = [fileOf EXCEPT ![k] = NoFile]
  /\ UNCHANGED document

\* Any request fails, or takes too long: what was written is removed.
CallFails(c) ==
  /\ caller[c].phase \in {"asking", "claiming", "moving", "inserting", "looking", "peeking", "again"}
  /\ Goes(c, "dropping")
  /\ UNCHANGED <<fileOf, document>>

\* The removal itself fails, and is let go; so is a delete half done.
DropFails(c) ==
  /\ caller[c].phase \in {"dropping", "unlinking", "sweeping"}
  /\ caller' = [caller EXCEPT ![c].phase = "over", ![c].tidy = FALSE]
  /\ UNCHANGED <<fileOf, document>>

CallCrashes(c) ==
  /\ caller[c].phase \notin {"new", "over", "crashed"}
  /\ caller' = [caller EXCEPT ![c].phase = "crashed", ![c].tidy = FALSE]
  /\ UNCHANGED <<fileOf, document>>

FindFile(c) ==
  /\ At(c, "finding")
  /\ caller' = [caller EXCEPT ![c].phase = IF Has(caller[c].id) THEN "unlinking" ELSE "over",
                              ![c].found = document[caller[c].id].by]
  /\ UNCHANGED <<fileOf, document>>

\* The document first, whoever's it is by now.
Unlink(c) ==
  /\ At(c, "unlinking")
  /\ document' = [document EXCEPT ![caller[c].id] = NoDocument]
  /\ Goes(c, "sweeping")
  /\ UNCHANGED fileOf

\* Then the chunks, along the index.
Sweep(c) ==
  /\ At(c, "sweeping")
  /\ fileOf' = [k \in Chunks |->
       IF fileOf[k] = caller[c].id /\ k[2] = caller[c].n THEN NoFile ELSE fileOf[k]]
  /\ caller' = [caller EXCEPT ![c].n = @ + 1,
                              ![c].phase = IF caller[c].n + 1 = MaxChunks THEN "over" ELSE @]
  /\ UNCHANGED document

GridNext == \E c \in Callers :
  \/ \E q \in Requests : Ask(c, q)
  \/ CheckId(c) \/ WriteChunk(c) \/ Written(c) \/ AskDigest(c)
  \/ Claim(c) \/ MoveRest(c) \/ InsertDocument(c) \/ Look(c) \/ Peek(c)
  \/ DropChunk(c) \/ CallFails(c) \/ DropFails(c) \/ CallCrashes(c)
  \/ FindFile(c) \/ Unlink(c) \/ Sweep(c)

GridSpec == GridInit /\ [][GridNext]_gridVars

(***************************************************************************)
(* Properties                                                              *)
(***************************************************************************)

\* The types of the three variables.
GridTypeOK ==
  /\ fileOf \in [Chunks -> FileIds \cup {NoFile}]
  /\ document \in [FileIds -> Documents]
  /\ caller \in [Callers -> CallState]

Whole(f) == \A n \in 0 .. Size[document[f].content] - 1 :
  \E k \in Chunks : fileOf[k] = f /\ k[2] = n /\ ContentOf(k) = document[f].content

\* A delete of this id that found an earlier file under it.
DeletedBefore(f) == \E c \in Callers :
  /\ caller[c].op = "delete" /\ caller[c].id = f
  /\ caller[c].found \notin {Nobody, document[f].by}

\* A file that is there has every byte of it there, whoever stores, gives up,
\* fails or crashes beside it, unless a delete that found an earlier file under
\* the same id is on its way (chunks.ts dropChunks, claim.ts claim).  And a call
\* that ended left no chunk that is no file's, unless it crashed or its removal
\* failed, or a delete took its file away and has not come to the chunk
\* (chunks.ts writeChunks, put-once.ts putFileOnce).
StoredWhole ==
  /\ \A f \in FileIds : Has(f) => Whole(f) \/ DeletedBefore(f)
  /\ \A k \in Chunks :
       fileOf[k] # NoFile /\ caller[k[1]].phase = "over" /\ caller[k[1]].tidy =>
         \/ document[fileOf[k]].by = k[1]
         \/ \E c \in Callers : /\ caller[c].op = "delete" /\ caller[c].id = fileOf[k]
                               /\ At(c, "sweeping") \/ ~caller[c].tidy

\* The same without the exception (claim.ts: a file "stored short, and read as
\* corrupt" is "exactly what this call exists to prevent").
NeverShort == \A f \in FileIds : Has(f) => Whole(f)

=============================================================================
