--------------------------- MODULE MCConnections ---------------------------
(***************************************************************************)
(* A Redis of two instances, and one that shares the client of the first.  *)
(***************************************************************************)
EXTENDS Connections, TLC

CONSTANTS u1, u2, a1, a2

MCInstances == (a1 :> <<u1, u2>>) @@ (a2 :> <<u1>>)

=============================================================================
