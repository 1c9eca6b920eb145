------------------------ MODULE MCDriverRoutesHistory ------------------------
(***************************************************************************)
(* DriverRoutesHistory with the constants of MCDriverRoutes.               *)
(***************************************************************************)
EXTENDS DriverRoutesHistory, MCDriverRoutes

=============================================================================
