---------------------------- MODULE RouteManager ----------------------------
(***************************************************************************)
(* httproute.Manager (internal/httproute/httproute.go): the HTTPRoutes in  *)
(* the cluster and the calls that several goroutines make on them at once. *)
(* A goroutine is blocked in at most one Manager call; each request to the *)
(* Kubernetes API server is one step of it, and anything can happen between*)
(* two of them.  A request may be answered with an error, and then a write *)
(* may or may not have taken effect.                                       *)
(*                                                                         *)
(* A driver route is abstracted to the selector it serves: its path prefix *)
(* is made of it, and its backend service of the AppName of that driver    *)
(* (see Store).  The root route is abstracted to its backend; only the     *)
(* dashboard occurs here: see ApplyRoute for the other one and for the     *)
(* conflicts of an Update.                                                 *)
(***************************************************************************)
EXTENDS Store, Naturals

CONSTANTS Watcher,       \* the informer goroutine
          Syncer,        \* the goroutine that runs onSynced
          Requests,      \* goroutines of the HTTP server, one per request
          RootRoute,     \* the name of the root route
          Fallback,      \* the root route's backend: this service's dashboard
          MaxFaults      \* bound on the API requests answered with an error

Callers == {Watcher, Syncer} \cup Requests

Routes == RouteNames \cup {RootRoute}

ASSUME RootRouteAssumption == RootRoute \notin RouteNames
ASSUME FallbackAssumption == Fallback \notin Selectors \cup {None}
ASSUME MaxFaultsAssumption == MaxFaults \in Nat
ASSUME CallersAssumption == /\ Watcher # Syncer
                            /\ {Watcher, Syncer} \cap Requests = {}

VARIABLES
  routes,    \* what each managed HTTPRoute in the cluster serves, or None
  pc,        \* where each goroutine is: the API request it makes next
  target,    \* the selector of the Ensure or Delete it is in
  wanted,    \* wantedByName of the Reconcile it is in
  stale,     \* the routes its Reconcile still has to delete
  missing,   \* the routes its Reconcile still has to create
  failed,    \* firstErr of its Reconcile is not nil
  faults     \* API requests answered with an error so far

callVars == <<pc, target, wanted, stale, missing, failed>>
managerVars == <<routes, callVars, faults>>

WantNothing == [n \in Routes |-> None]

Labels == {"idle", "waiting", "synced", "get", "create", "delete", "list",
           "fix", "returned", "rootget", "rootwrite"}

ManagerTypeOK ==
  /\ routes \in [Routes -> Selectors \cup {Fallback, None}]
  /\ pc \in [Callers -> Labels]
  /\ target \in [Callers -> Selectors \cup {None}]
  /\ wanted \in [Callers -> [Routes -> Selectors \cup {None}]]
  /\ stale \in [Callers -> SUBSET Routes]
  /\ missing \in [Callers -> SUBSET RouteNames]
  /\ failed \in [Callers -> BOOLEAN]
  /\ faults \in 0 .. MaxFaults

CallsInit ==
  /\ pc = [c \in Callers |-> IF c = Syncer THEN "waiting" ELSE "idle"]
  /\ target = [c \in Callers |-> None]
  /\ wanted = [c \in Callers |-> WantNothing]
  /\ stale = [c \in Callers |-> {}]
  /\ missing = [c \in Callers |-> {}]
  /\ failed = [c \in Callers |-> FALSE]

Goto(c, l) == pc' = [pc EXCEPT ![c] = l]

\* The caller's Manager call returns; its local variables go out of scope.
Return(c, l) ==
  /\ Goto(c, l)
  /\ target' = [target EXCEPT ![c] = None]
  /\ wanted' = [wanted EXCEPT ![c] = WantNothing]
  /\ stale' = [stale EXCEPT ![c] = {}]
  /\ missing' = [missing EXCEPT ![c] = {}]
  /\ failed' = [failed EXCEPT ![c] = FALSE]

----------------------------------------------------------------------------
(* The API server.                                                         *)

Present == {n \in Routes : routes[n] # None}

\* Create answers AlreadyExists, and changes nothing, when the name is taken.
Created(n, s) == IF n \in Present THEN routes ELSE [routes EXCEPT ![n] = s]

\* Delete answers NotFound, and changes nothing, when there is no such route.
Deleted(n) == [routes EXCEPT ![n] = None]

Answer == UNCHANGED faults
Error == faults < MaxFaults /\ faults' = faults + 1

\* A write that makes the routes r.
Write(r) == \/ Answer /\ routes' = r
            \/ Error /\ routes' \in {routes, r}

----------------------------------------------------------------------------
(* Ensure and Delete                                                       *)

BeginEnsure(c, s) ==
  /\ Goto(c, "get")
  /\ target' = [target EXCEPT ![c] = s]
  /\ UNCHANGED <<routes, wanted, stale, missing, failed, faults>>

BeginDelete(c, s) ==
  /\ Goto(c, "delete")
  /\ target' = [target EXCEPT ![c] = s]
  /\ UNCHANGED <<routes, wanted, stale, missing, failed, faults>>

\* Mutant: the route is not created after all.
EnsureGetOnly(c) ==
  /\ pc[c] = "get"
  /\ Answer \/ Error
  /\ Return(c, "idle")
  /\ UNCHANGED routes

\* A route that exists is left alone, and so is one whose Get failed.
EnsureGet(c) ==
  /\ pc[c] = "get"
  /\ \/ /\ Answer
        /\ RouteName[target[c]] \notin Present
        /\ Goto(c, "create")
        /\ UNCHANGED <<target, wanted, stale, missing, failed>>
     \/ /\ Answer
        /\ RouteName[target[c]] \in Present
        /\ Return(c, "idle")
     \/ /\ Error
        /\ Return(c, "idle")
  /\ UNCHANGED routes

EnsureCreate(c) ==
  /\ pc[c] = "create"
  /\ Write(Created(RouteName[target[c]], target[c]))
  /\ Return(c, "idle")

DeleteCall(c) ==
  /\ pc[c] = "delete"
  /\ Write(Deleted(RouteName[target[c]]))
  /\ Return(c, "idle")

----------------------------------------------------------------------------
(* Reconcile                                                               *)

\* The maps wantedByName can be for these selectors: of two selectors with
\* one route name, the last in the snapshot's random order wins.
WantedMaps(active) ==
  {w \in [Routes -> Selectors \cup {None}] :
     \A n \in Routes : LET named == {s \in active : RouteName[s] = n}
                       IN IF named = {} THEN w[n] = None ELSE w[n] \in named}

BeginReconcile(c, w) ==
  /\ Goto(c, "list")
  /\ wanted' = [wanted EXCEPT ![c] = w]
  /\ UNCHANGED <<routes, target, stale, missing, failed, faults>>

\* Mutant: the loop that creates the missing routes is skipped.
AfterDeletes(s, m) == IF s = {} THEN "returned" ELSE "fix"

\* What is left to do once these routes remain stale and missing.
AfterFix(s, m) == IF s = {} /\ m = {} THEN "returned" ELSE "fix"

\* Mutant: the managed root route is not excluded.
IsStaleEvenRoot(w, n) == w[n] = None

\* Mutant: what earlier instances left is kept.
IsNeverStale(w, n) == FALSE

IsStale(w, n) == n # RootRoute /\ w[n] = None

ReconcileList(c) ==
  /\ pc[c] = "list"
  /\ \/ /\ Answer
        /\ LET s == {n \in Present : IsStale(wanted[c], n)}
               m == {n \in RouteNames : wanted[c][n] # None /\ n \notin Present}
           IN /\ stale' = [stale EXCEPT ![c] = s]
              /\ missing' = [missing EXCEPT ![c] = m]
              /\ Goto(c, AfterFix(s, m))
        /\ UNCHANGED failed
     \/ /\ Error
        /\ Goto(c, "returned")
        /\ failed' = [failed EXCEPT ![c] = TRUE]
        /\ UNCHANGED <<stale, missing>>
  /\ UNCHANGED <<routes, target, wanted>>

\* An error does not stop the loops: the first one is returned at the end.
NoteError(c) == failed' = [failed EXCEPT ![c] = @ \/ faults' # faults]

ReconcileDelete(c) ==
  /\ pc[c] = "fix"
  /\ \E n \in stale[c] :
       /\ Write(Deleted(n))
       /\ stale' = [stale EXCEPT ![c] = @ \ {n}]
       /\ Goto(c, AfterFix(stale[c] \ {n}, missing[c]))
  /\ NoteError(c)
  /\ UNCHANGED <<target, wanted, missing>>

ReconcileCreate(c) ==
  /\ pc[c] = "fix"
  /\ stale[c] = {}
  /\ \E n \in missing[c] :
       /\ Write(Created(n, wanted[c][n]))
       /\ missing' = [missing EXCEPT ![c] = @ \ {n}]
       /\ Goto(c, AfterFix({}, missing[c] \ {n}))
  /\ NoteError(c)
  /\ UNCHANGED <<target, wanted, stale>>

ReconcileStep(c) == ReconcileList(c) \/ ReconcileDelete(c) \/ ReconcileCreate(c)

----------------------------------------------------------------------------
(* EnsureFallbackRootRoute.  Here its only caller is the syncer, so that    *)
(* nobody else changes the backend between its Get and its write.  An       *)
(* attempt that meets a conflict writes nothing and is left out, all of     *)
(* them meeting one is an Error; ApplyRoute has the attempts.               *)

RootGet(c) ==
  /\ pc[c] = "rootget"
  /\ \/ Answer /\ Goto(c, "rootwrite")
     \/ Error /\ Goto(c, "idle")
  /\ UNCHANGED <<routes, target, wanted, stale, missing, failed>>

RootWrite(c) ==
  /\ pc[c] = "rootwrite"
  /\ Write([routes EXCEPT ![RootRoute] = Fallback])
  /\ Goto(c, "idle")
  /\ UNCHANGED <<target, wanted, stale, missing, failed>>

=============================================================================
