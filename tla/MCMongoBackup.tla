---------------------------- MODULE MCMongoBackup ---------------------------
(***************************************************************************)
(* Two collections backed up and one that is not, one of the three missing *)
(* at first; and a database restored into, empty or with one of them.      *)
(***************************************************************************)
EXTENDS MongoBackup

CONSTANTS orders, reviews, archive

MCListing == <<orders, reviews, archive>>

MCFilters == {{orders, reviews}}

\* collections, and then fewer of them.
MCNarrowing == {{orders, reviews}, {orders}}

MCSources ==
  {[n \in Names |-> IF n = x THEN NoColl ELSE Coll(0, 0, 1)] : x \in {reviews, archive}}

MCAskedFor == {{orders}, {orders, reviews}}

MCLives == {Empty, [Empty EXCEPT ![orders] = Foreign]}

=============================================================================
