----------------------------- MODULE ApplyRoute -----------------------------
(***************************************************************************)
(* Manager.applyRoute (internal/httproute/httproute.go): create the root   *)
(* HTTPRoute, or update it under optimistic locking, with a few retries.   *)
(* Goroutines run it concurrently; each request to the API server is one   *)
(* step and may be answered with an error, and then a write may or may not *)
(* have taken effect.                                                      *)
(*                                                                         *)
(* The route is abstracted to its backend, and resource versions to what   *)
(* the API server tells from them: whether the route has a new version     *)
(* since a goroutine's Get.  Others write the route too: the gateway's     *)
(* controller reports its status, and every write of theirs is a new       *)
(* version.  Nobody deletes the route: DeleteRootRoute has no caller.      *)
(***************************************************************************)
EXTENDS Naturals

CONSTANTS Appliers,      \* the goroutines
          Backends,      \* the services the root route may point to
          None,          \* no route, or no argument
          MaxRetries,    \* maxRetries
          MaxFaults      \* bound on the API requests answered with an error

ASSUME NoBackendAssumption == None \notin Backends
ASSUME MaxRetriesAssumption == MaxRetries \in Nat /\ MaxRetries > 1
ASSUME MaxFaultsAssumption == MaxFaults \in Nat

VARIABLES
  root,      \* the backend of the root route, or None
  at,        \* where each goroutine is: the API request it makes next
  backend,   \* the backend of the route it applies
  attempt,   \* the attempt it is at
  fresh,     \* whether it has an object of this attempt's Get that is up to date
  faults     \* API requests answered with an error so far

callVars == <<at, backend, attempt>>
applyVars == <<root, callVars, fresh, faults>>

ApplyTypeOK ==
  /\ root \in Backends \cup {None}
  /\ at \in [Appliers -> {"waiting", "idle", "get", "create", "update"}]
  /\ backend \in [Appliers -> Backends \cup {None}]
  /\ attempt \in [Appliers -> 0 .. MaxRetries - 1]
  /\ fresh \in [Appliers -> BOOLEAN]
  /\ faults \in 0 .. MaxFaults

Answer == UNCHANGED faults
Error == faults < MaxFaults /\ faults' = faults + 1

\* A goroutine's write: one that changes nothing gives the route no new version.
SetRoot(c, b) ==
  /\ root' = b
  /\ fresh' = [x \in Appliers |-> x # c /\ fresh[x] /\ b = root]

\* A request of c that writes nothing and ends the attempt.
NoWrite(c) == root' = root /\ fresh' = [fresh EXCEPT ![c] = FALSE]

\* Somebody else's write, which leaves the backend alone: the gateway's controller
\* writes the status at any time, before or after a change of the backend.
StatusWritten ==
  /\ root # None
  /\ fresh' = [c \in Appliers |-> FALSE]
  /\ UNCHANGED <<root, callVars, faults>>

BeginApply(c, b) ==
  /\ at' = [at EXCEPT ![c] = "get"]
  /\ backend' = [backend EXCEPT ![c] = b]
  /\ UNCHANGED <<root, attempt, fresh, faults>>

Return(c) ==
  /\ at' = [at EXCEPT ![c] = "idle"]
  /\ backend' = [backend EXCEPT ![c] = None]
  /\ attempt' = [attempt EXCEPT ![c] = 0]

\* An error of Get is returned.
ApplyGet(c) ==
  /\ at[c] = "get"
  /\ \/ /\ Answer
        /\ at' = [at EXCEPT ![c] = IF root = None THEN "create" ELSE "update"]
        /\ fresh' = [fresh EXCEPT ![c] = root # None]
        /\ UNCHANGED <<backend, attempt>>
     \/ /\ Error
        /\ Return(c)
        /\ UNCHANGED fresh
  /\ UNCHANGED root

\* AlreadyExists counts as success.
ApplyCreate(c) ==
  /\ at[c] = "create"
  /\ \/ Answer /\ root = None /\ SetRoot(c, backend[c])
     \/ Answer /\ root # None /\ NoWrite(c)
     \/ Error /\ root = None /\ SetRoot(c, backend[c])
     \/ Error /\ NoWrite(c)
  /\ Return(c)

Retry(c) ==
  /\ at' = [at EXCEPT ![c] = "get"]
  /\ attempt' = [attempt EXCEPT ![c] = @ + 1]
  /\ UNCHANGED backend

\* Mutant: no retry at all.
IsFirstAttempt(c) == TRUE

\* Mutant: it retries as long as there is a conflict.
NoAttempt(c) == FALSE

LastAttempt(c) == attempt[c] = MaxRetries - 1

\* A stale resource version is answered with Conflict.
ApplyUpdate(c) ==
  /\ at[c] = "update"
  /\ \/ Answer /\ fresh[c] /\ SetRoot(c, backend[c]) /\ Return(c)
     \/ Answer /\ ~fresh[c] /\ ~LastAttempt(c) /\ Retry(c) /\ NoWrite(c)
     \/ Answer /\ ~fresh[c] /\ LastAttempt(c) /\ Return(c) /\ NoWrite(c)
     \/ Error /\ fresh[c] /\ SetRoot(c, backend[c]) /\ Return(c)
     \/ Error /\ Return(c) /\ NoWrite(c)

ApplyStep(c) == ApplyGet(c) \/ ApplyCreate(c) \/ ApplyUpdate(c)

=============================================================================
