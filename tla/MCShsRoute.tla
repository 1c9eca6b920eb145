----------------------------- MODULE MCShsRoute -----------------------------
(***************************************************************************)
(* Values of the constants of ShsRoute for model checking.                 *)
(***************************************************************************)
EXTENDS ShsRoute

CONSTANTS s1, s2

=============================================================================
