----------------------------- MODULE MCReplicas -----------------------------
(***************************************************************************)
(* Values of the constants of Replicas for model checking.                 *)
(***************************************************************************)
EXTENDS Replicas

CONSTANTS p1, a, ra

OwnRouteName == [s \in Selectors |-> ra]

\* One pod name, used by pods of one application again and again.
OnlyA == [p \in PodNames |-> {a}]

=============================================================================
