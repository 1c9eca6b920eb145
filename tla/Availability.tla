---------------------------- MODULE Availability ----------------------------
(***************************************************************************)
(* What the rest of the program may rely on of the SHS watcher: the state  *)
(* that IsUp answers starts as down, may be behind the endpoints, and says *)
(* whether the server is ready whenever it is not behind.                  *)
(***************************************************************************)
VARIABLES
  ready,     \* some endpoint of the History Server is ready
  up,        \* State.up
  behind     \* changes of the endpoints wait to be handled

watchVars == <<ready, up, behind>>

WatchTypeOK == ready \in BOOLEAN /\ up \in BOOLEAN /\ behind \in BOOLEAN

Exact == ~behind => up = ready

\* The process starts; a server without endpoints leaves nothing to handle.
Restarted ==
  /\ up' = FALSE
  /\ behind' \in BOOLEAN
  /\ UNCHANGED ready
  /\ Exact'

WatchInit ==
  /\ WatchTypeOK
  /\ ~up
  /\ Exact

\* Endpoints change, or are listed again.
Changes ==
  /\ ready' \in BOOLEAN
  /\ behind' = TRUE
  /\ UNCHANGED up

\* A change is handled, or dropped because a later one stands for it.
Handles ==
  /\ behind
  /\ up' \in BOOLEAN
  /\ behind' \in BOOLEAN
  /\ UNCHANGED ready
  /\ Exact'

WatchNext == Changes \/ Handles \/ Restarted

WatchSpec == WatchInit /\ [][WatchNext]_watchVars

=============================================================================
