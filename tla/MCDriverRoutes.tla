--------------------------- MODULE MCDriverRoutes ---------------------------
(***************************************************************************)
(* Values of the constants of DriverRoutes for model checking.             *)
(***************************************************************************)
EXTENDS DriverRoutes

CONSTANTS p1, p2, a, b, ra, rb, r1

\* Distinct selectors have distinct route names.
OwnRouteName == [s \in Selectors |-> IF s = a THEN ra ELSE rb]

\* One pod name that all applications use in turn, as when the driver's name is
\* configured.
ReusedName == [p \in PodNames |-> Selectors]

\* Pods of the first application only; of the other one there may be a route, which
\* an earlier instance left.
OnlyA == [p \in PodNames |-> {a}]

\* A pod name for each application; the second pod may lack the label.
OwnNameOrNone == [p \in PodNames |-> IF p = p1 THEN {a} ELSE {b, NoSelector}]

=============================================================================
