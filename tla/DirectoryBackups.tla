-------------------------- MODULE DirectoryBackups --------------------------
(***************************************************************************)
(* What backups of a folder hold.  A create reads the folder's files one   *)
(* by one while they go on being written, and stores them in several       *)
(* repositories: all of them, or those that changed since an earlier       *)
(* backup, pointing to where the others are.  A repository that fails is   *)
(* left out from then on.  restore and verify read a backup back from one  *)
(* repository, which may have lost or damaged any of what it was given.    *)
(* One create at a time: BackupLock and Backups model several.             *)
(***************************************************************************)
EXTENDS Naturals, Sequences

CONSTANTS
  Files,        \* the files
  Contents,     \* what may be in them
  Repos,        \* the repositories
  MaxBackup,    \* the backups made are 1 .. MaxBackup
  MaxClock,
  Settled,      \* SETTLED_NS: how recent a change must not be for a fingerprint
  Granule,      \* how coarse the times of the file system are
  MaxWrites,
  MaxMishaps,   \* how many puts, creates or things stored may fail or be harmed
  NoFileThere,  \* in place of the content of a file that is not there
  NoBackupThere, Damaged

ASSUME DirectoryAssumption ==
  /\ Granule \in 1 .. Settled
  /\ {MaxBackup, MaxClock, Settled, MaxWrites, MaxMishaps} \subseteq Nat
  /\ Damaged \notin Contents /\ NoFileThere \notin Contents

VARIABLES
  now,
  folder,   \* the files: what is in each, and when it changed as its times say
  create,   \* the create under way
  store,    \* what each repository holds of each backup that has a manifest
  keys,     \* what bindBackup is given: the first keys, a signing key too, or new recipients
  used,     \* the ids given to creates
  truth,    \* what was in each file of a backup when it was read
  spoiled,  \* the backups that stood on what a repository harmed later
  left      \* what may still happen: writes, mishaps

directoryVars == <<now, folder, create, store, keys, used, truth, spoiled, left>>

NoBase == 0
NoPrint == MaxClock + 1

NoCreate ==
  [at |-> "none", id |-> NoBase, kind |-> "full", out |-> {}, base |-> NoBase, known |-> {},
   todo |-> {}, file |-> NoFileThere, print |-> NoPrint, entries |-> {}, objects |-> <<>>]

DirectoryInit ==
  /\ now = 0
  /\ folder = [f \in Files |-> [content |-> CHOOSE c \in Contents : TRUE, changed |-> 0]]
  /\ create = NoCreate /\ keys = "first" /\ used = 0
  /\ store = [r \in Repos |-> [i \in 1 .. MaxBackup |-> NoBackupThere]]
  /\ truth = [i \in 1 .. MaxBackup |-> {}] /\ spoiled = {}
  /\ left = [writes |-> MaxWrites, mishaps |-> MaxMishaps]

Spend(what) == left[what] > 0 /\ left' = [left EXCEPT ![what] = @ - 1]

-----------------------------------------------------------------------------
(* Reading a backup back. *)

Saved(r, i) == store[r][i] # NoBackupThere

Trusted == keys = "signing"
Recipients == IF keys = "rotated" THEN "new" ELSE "old"

\* readManifest
ManifestReads(r, i) == store[r][i].parent # Damaged

\* signedByAny: one of the trusted keys signed it.
Signed(r, i) == store[r][i].signed

\* fetchManifest: one that reads and, given trusted keys, is signed.
Fetches(r, i) == Saved(r, i) /\ (Trusted => Signed(r, i)) /\ ManifestReads(r, i)

\* chainOf: a backup and those it builds on, down to a full one; a parent is
\* older than its child.  Empty when one of them does not read.
ChainIn(r, i) ==
  LET chain[j \in 0 .. i] ==
        IF j = NoBase \/ ~Fetches(r, j) THEN {}
        ELSE IF store[r][j].parent = NoBase THEN {j}
        ELSE LET rest == chain[store[r][j].parent] IN IF rest = {} THEN {} ELSE rest \cup {j}
  IN chain[i]

\* expect: what comes is what was measured when it was sealed.
Measures(bytes, measured) == bytes = measured

\* stage: an object is what its manifest says.
Staged(r, i, k) == Measures(store[r][i].objects[k], store[r][i].listed[k])

\* readCatalog: one whose entries are well formed and account for the objects.
CatalogReads(r, i) == store[r][i].catalog # Damaged

\* locate: the object of an entry, in the backup of the chain that stored it.
Locates(r, i, e) == e.in \in ChainIn(r, i) /\ e.object \in DOMAIN store[r][e.in].listed

\* openFile: the identities of the backup's recipients decrypt it, and its
\* bytes are those its source gave.
Decrypts(r, i, e) ==
  store[r][e.in].to = store[r][i].to /\ Measures(store[r][e.in].objects[e.object], e.content)

\* openEntry
Opens(r, i, e) == Locates(r, i, e) /\ Staged(r, e.in, e.object) /\ Decrypts(r, i, e)

\* restore, and verify with a key, resolve: every entry of the catalog opens.
Restores(r, i) ==
  /\ ChainIn(r, i) # {} /\ CatalogReads(r, i)
  /\ \A e \in store[r][i].catalog : Opens(r, i, e)

\* directoryTarget: what an empty folder has then.
Restored(r, i) == {<<e.name, store[r][e.in].objects[e.object]>> : e \in store[r][i].catalog}

\* verify, without a key: every object of every backup of the chain.
VerifiesStored(r, i) ==
  /\ ChainIn(r, i) # {}
  /\ \A j \in ChainIn(r, i) :
       CatalogReads(r, j) /\ \A k \in DOMAIN store[r][j].listed : Staged(r, j, k)

-----------------------------------------------------------------------------
(* create. *)

Alive == Repos \ create.out

\* It ends, stored or not: what it stored stays where it is.
Over == create' = NoCreate

\* lockAll: a repository that cannot be locked is not in the run.
Starts ==
  /\ create.at = "none" /\ used < MaxBackup
  /\ used' = used + 1
  /\ \E kind \in {"full", "incremental", "differential"}, out \in {{}} \cup {{r} : r \in Repos} :
       /\ IF out = {} THEN UNCHANGED left ELSE Spend("mishaps")
       /\ create' = [NoCreate EXCEPT !.at = IF kind = "full" THEN "walk" ELSE "base",
                                     !.id = used', !.kind = kind, !.out = out]
  /\ UNCHANGED <<now, folder, store, keys, truth, spoiled>>

\* newestFor: the newest that reads, or the newest full one that does.
Bases(r) ==
  {j \in 1 .. create.id - 1 :
     Fetches(r, j) /\ (create.kind = "incremental" \/ store[r][j].parent = NoBase)}

\* A mistake: a repository that has the base, and not what it builds on, stays.
BadLacking(r, base) == {s \in Alive \ {r} : ~Fetches(s, base)}

\* sameRecipients: a backup builds on no object a key it is not for can open.
SameRecipients(r, base) == store[r][base].to = Recipients

\* requireEverywhere: those without the whole chain are left out.
Lacking(r, base) == {s \in Alive \ {r} : ChainIn(s, base) = {}}

\* baseOf: `from', or the first repository in the run.
FindsBase ==
  /\ create.at = "base"
  /\ \E r \in Alive :
       LET base == CHOOSE j \in Bases(r) : \A k \in Bases(r) : k <= j IN
       IF \/ Bases(r) = {} \/ ChainIn(r, base) = {}
          \/ ~SameRecipients(r, base) \/ ~CatalogReads(r, base) THEN Over
       ELSE create' = [create EXCEPT !.at = "walk", !.base = base,
                                     !.known = store[r][base].catalog,
                                     !.out = @ \cup Lacking(r, base)]
  /\ UNCHANGED <<now, folder, store, keys, used, truth, spoiled, left>>

\* walkFiles: the files there are; each is read afterwards.
Walks ==
  /\ create.at = "walk"
  /\ create' = [create EXCEPT !.at = "entries",
                              !.todo = {f \in Files : folder[f].content # NoFileThere}]
  /\ UNCHANGED <<now, folder, store, keys, used, truth, spoiled, left>>

\* A mistake: a file that changed just now has a fingerprint.
BadFingerprint(f) == folder[f].changed

\* fingerprintOf: none when the file changed just now.
Fingerprint(f) == IF now - folder[f].changed < Settled THEN NoPrint ELSE folder[f].changed

Entry(f, in, object, content, print) ==
  [name |-> f, in |-> in, object |-> object, content |-> content, print |-> print]

KnownOf(f) == {e \in create.known : e.name = f}

\* The file as it is goes into the backup, and this is what it held.
Adds(f, e, objects, out) ==
  /\ create' = [create EXCEPT !.at = "entries", !.file = NoFileThere, !.print = NoPrint,
                              !.todo = @ \ {f}, !.entries = @ \cup {e}, !.objects = objects,
                              !.out = out]
  /\ truth' = [truth EXCEPT ![create.id] = @ \cup {<<f, folder[f].content>>}]

Pointer(e, print) == [e EXCEPT !.print = print]

\* The next file: gone since the walk, it is not in the backup; one whose
\* fingerprint the base recorded is not opened.
Stats ==
  /\ create.at = "entries" /\ create.todo # {}
  /\ LET f == CHOOSE f \in create.todo : TRUE
         known == {e \in KnownOf(f) : e.print = Fingerprint(f) /\ e.print # NoPrint} IN
     IF folder[f].content = NoFileThere
     THEN create' = [create EXCEPT !.todo = @ \ {f}] /\ UNCHANGED truth
     ELSE IF known # {}
     THEN \E e \in known : Adds(f, e, create.objects, create.out)
     ELSE /\ create' = [create EXCEPT !.at = "open", !.file = f, !.print = Fingerprint(f)]
          /\ UNCHANGED truth
  /\ UNCHANGED <<now, folder, store, keys, used, spoiled, left>>

\* putAll: at most one repository fails it, and is left out.
PutsAll(out) ==
  \/ out = create.out /\ UNCHANGED left
  \/ (\E r \in Alive : out = create.out \cup {r}) /\ Spend("mishaps")

\* storeOne: what was recorded is pointed to, the rest is stored; a file that
\* is gone by now ends the create.
OpensFile ==
  /\ create.at = "open"
  /\ LET f == create.file
         c == folder[f].content
         known == {e \in KnownOf(f) : e.content = c} IN
     IF c = NoFileThere THEN Over /\ UNCHANGED <<truth, left>>
     ELSE IF known # {}
     THEN /\ \E e \in known : Adds(f, Pointer(e, create.print), create.objects, create.out)
          /\ UNCHANGED left
     ELSE \E out \in SUBSET Repos :
            /\ PutsAll(out)
            /\ IF out = Repos THEN Over /\ UNCHANGED truth
               ELSE Adds(f, Entry(f, create.id, Len(create.objects) + 1, c, create.print),
                         Append(create.objects, c), out)
  /\ UNCHANGED <<now, folder, store, keys, used, spoiled>>

\* finish: the catalog, the signature, and the manifest last, into those that
\* took all the rest.
Finishes ==
  /\ create.at = "entries" /\ create.todo = {}
  /\ \E out \in SUBSET Repos :
       /\ PutsAll(out)
       /\ store' = [r \in Repos |->
            IF r \in out THEN store[r]
            ELSE [store[r] EXCEPT ![create.id] =
                    [parent |-> create.base, to |-> Recipients, signed |-> Trusted,
                     listed |-> create.objects, objects |-> create.objects,
                     catalog |-> create.entries]]]
  /\ Over
  /\ UNCHANGED <<now, folder, keys, used, truth, spoiled>>

Dies ==
  /\ create.at # "none" /\ Spend("mishaps") /\ Over
  /\ UNCHANGED <<now, folder, store, keys, used, truth, spoiled>>

-----------------------------------------------------------------------------
(* The folder, the keys and the repositories. *)

\* The last create is not over: what the folder holds afterwards no longer matters.
MoreToRead == used < MaxBackup \/ create.at # "none"

\* A write, or a removal: the file's times are as coarse as its file system's.
WritesFile ==
  /\ MoreToRead /\ Spend("writes")
  /\ \E f \in Files, c \in Contents \cup {NoFileThere} :
       /\ c # folder[f].content
       /\ folder' = [folder EXCEPT ![f] = [content |-> c, changed |-> (now \div Granule) * Granule]]
  /\ UNCHANGED <<now, create, store, keys, used, truth, spoiled>>

Ticks ==
  /\ MoreToRead /\ now < MaxClock /\ now' = now + 1
  /\ UNCHANGED <<folder, create, store, keys, used, truth, spoiled, left>>

\* Between two creates, the program starts again with other options.
KeysGiven ==
  /\ used > 0 /\ MoreToRead /\ keys = "first" /\ keys' \in {"signing", "rotated"} /\ create.at = "none"
  /\ UNCHANGED <<now, folder, create, store, used, truth, spoiled, left>>

\* The backups that stand on one, and the one being made.
Standing(r, j) ==
  {i \in 1 .. MaxBackup :
     j \in ChainIn(r, IF i = create.id /\ create.at # "none" THEN create.base ELSE i)}

\* A repository loses or damages a manifest, a catalog or an object.
Harms ==
  /\ Spend("mishaps")
  /\ \E r \in Repos, j \in 1 .. MaxBackup :
       /\ Saved(r, j)
       /\ \/ /\ store' = [store EXCEPT ![r][j] = NoBackupThere]
             /\ spoiled' = spoiled \cup {<<r, i>> : i \in Standing(r, j)}
          \/ /\ store' = [store EXCEPT ![r][j].parent = Damaged]
             /\ spoiled' = spoiled \cup {<<r, i>> : i \in Standing(r, j)}
          \/ store' = [store EXCEPT ![r][j].catalog = Damaged] /\ UNCHANGED spoiled
          \/ /\ \E k \in DOMAIN store[r][j].objects : store' = [store EXCEPT ![r][j].objects[k] = Damaged]
             /\ UNCHANGED spoiled
  /\ UNCHANGED <<now, folder, create, keys, used, truth>>

DirectoryNext ==
  \/ Starts \/ FindsBase \/ Walks \/ Stats \/ OpensFile \/ Finishes \/ Dies
  \/ WritesFile \/ Ticks \/ KeysGiven \/ Harms

-----------------------------------------------------------------------------
(* Properties. *)

\* What a restore gives back is what the files held when they were read, and
\* a verify without a key that passes means that a restore does.
GivesBack ==
  \A r \in Repos, i \in 1 .. MaxBackup :
    /\ Saved(r, i) /\ Restores(r, i) => Restored(r, i) = truth[i]
    /\ Saved(r, i) /\ VerifiesStored(r, i) => Restores(r, i)

\* A backup is stored only where all that it points to is: until the
\* repository harms a manifest, each of its entries is found there, and those
\* that sign trust the whole chain of what they sign.
Findable ==
  \A r \in Repos, i \in 1 .. MaxBackup :
    /\ Saved(r, i) /\ <<r, i>> \notin spoiled /\ CatalogReads(r, i)
    /\ Trusted => Signed(r, i)
    => \A e \in store[r][i].catalog : Locates(r, i, e)

\* The whole: what a backup holds can be had back from each of the
\* repositories it was stored in, as it was.
ReadsBack == GivesBack /\ Findable
=============================================================================
