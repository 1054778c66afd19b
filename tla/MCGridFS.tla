------------------------------ MODULE MCGridFS ------------------------------
(***************************************************************************)
(* A few calls on one bucket, about one content of two chunks and one of a *)
(* single one.                                                             *)
(***************************************************************************)
EXTENDS GridFS, TLC

CONSTANTS b1, b2

MCSize == [b \in Contents |-> IF b = b1 THEN 2 ELSE 1]

Asking(op, content, id) == [op |-> op, content |-> content, id |-> id]

\* Other bytes may be put under the id that b1 decides.
MCRequests ==
  {Asking("putOnce", b1, NoFile), Asking("put", b1, NoFile), Asking("put", b2, b1),
   Asking("delete", b1, b1)}

MCOnceAndDelete == {Asking("putOnce", b1, NoFile), Asking("delete", b1, b1)}

Symmetric == Permutations(Callers)

=============================================================================
