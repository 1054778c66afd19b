--------------------------- MODULE MCIdempotency ----------------------------
(***************************************************************************)
(* A few calls with one key.                                               *)
(***************************************************************************)
EXTENDS Idempotency, TLC

CONSTANTS f1, f2

\* All calls with one fingerprint, or one apart.
MCRequests ==
  {[r \in Runs |-> f1], [r \in Runs |-> IF r = CHOOSE s \in Runs : TRUE THEN f2 ELSE f1]}

Symmetric == Permutations(Runs)

=============================================================================
