--------------------------- MODULE MCShsLifecycle ---------------------------
(***************************************************************************)
(* Values of the constants of ShsLifecycle for model checking.             *)
(***************************************************************************)
EXTENDS ShsLifecycle

CONSTANTS u1, u2

=============================================================================
