----------------------------- MODULE MCBackups ------------------------------
(***************************************************************************)
(* The backups of a definition - two calls over a repository that holds    *)
(* two of them -, those of a MongoDB database or those of a folder, as     *)
(* `part' says; the others stand as they began.                            *)
(***************************************************************************)
EXTENDS Backups, MCMongoBackup, DirectoryBackups, TLC

VARIABLE part

MCOff == -1
MCPeriod(age) == age

Policy(l, w) == [last |-> l, calendar |-> Off, within |-> w, maxTotalSize |-> Off]

MCPolicies == {Policy(1, Off), Policy(Off, 0)}

Holding(second, held) ==
  [manifest |-> [i \in Ids |-> IF i = 1 THEN Full ELSE IF i = 2 THEN second ELSE Gone],
   data     |-> {1, 2}, held |-> held,
   born     |-> [i \in Ids |-> IF i <= 2 THEN IncompleteAfter ELSE Gone]]

\* A full one, and an incremental on it.
MCRepositories == {Holding([kind |-> "incremental", parent |-> 1], {})}

Symmetric == Permutations(Runs) \cup Permutations(Repos)

BackupsInit ==
  /\ Init /\ MongoBackupInit /\ DirectoryInit
  /\ part \in {"repository", "database", "folder"}
  /\ part # "database" => past = <<CHOOSE db \in Sources : TRUE>>

BackupsNext ==
  /\ UNCHANGED part
  /\ \/ part = "repository" /\ Next /\ UNCHANGED <<mongoVars, directoryVars>>
     \/ part = "database" /\ MongoBackupNext /\ UNCHANGED <<vars, directoryVars>>
     \/ part = "folder" /\ DirectoryNext /\ UNCHANGED <<vars, mongoVars>>

BackupsSpec == BackupsInit /\ [][BackupsNext]_<<vars, mongoVars, directoryVars, part>>

=============================================================================
