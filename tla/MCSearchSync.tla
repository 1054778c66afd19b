---------------------------- MODULE MCSearchSync ----------------------------
(***************************************************************************)
(* Two processes under one sync name: p1, started again whenever it stops, *)
(* and p2, which fails when the history is lost.                           *)
(***************************************************************************)
EXTENDS SearchSync

CONSTANTS p1, p2

=============================================================================
