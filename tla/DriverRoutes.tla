---------------------------- MODULE DriverRoutes ----------------------------
(***************************************************************************)
(* The process as main.go puts it together: the informer goroutine, the    *)
(* onSynced goroutine and the HTTP server's request goroutines share the   *)
(* store and write the same HTTPRoutes, with no lock held over a handler.  *)
(* The Spark History Server is not configured (shsState is nil).           *)
(*                                                                         *)
(* A process starts in a cluster that holds any pods, and any routes that  *)
(* an earlier instance may have left behind; it may crash, or be told to   *)
(* stop, at any moment, and a new one starts.  An API request in flight at *)
(* that moment takes effect before it or never.                            *)
(***************************************************************************)
EXTENDS PodWatcher

CONSTANT MaxCrashes      \* bound on the crashes

ASSUME MaxCrashesAssumption == MaxCrashes \in Nat

VARIABLE crashes

vars == <<drivers, managerVars, watchVars, crashes>>

\* The routes a Manager with this configuration may have left in the cluster.
LeftBehind ==
  {r \in [Routes -> Selectors \cup {Fallback, None}] :
     /\ r[RootRoute] \in {Fallback, None}
     /\ \A n \in RouteNames :
          r[n] \in {s \in Selectors : RouteName[s] = n} \cup {None}}

TypeOK ==
  /\ StoreTypeOK
  /\ ManagerTypeOK
  /\ WatchTypeOK
  /\ crashes \in 0 .. MaxCrashes

Init ==
  /\ StoreInit
  /\ routes \in LeftBehind
  /\ CallsInit
  /\ faults = 0
  /\ WatchInit
  /\ crashes = 0

Crash ==
  /\ crashes < MaxCrashes
  /\ crashes' = crashes + 1
  /\ drivers' = [p \in PodNames |-> None]
  /\ pc' = [c \in Callers |-> IF c = Syncer THEN "waiting" ELSE "idle"]
  /\ target' = [c \in Callers |-> None]
  /\ wanted' = [c \in Callers |-> WantNothing]
  /\ stale' = [c \in Callers |-> {}]
  /\ missing' = [c \in Callers |-> {}]
  /\ failed' = [c \in Callers |-> FALSE]
  /\ WatchRestart
  /\ UNCHANGED <<routes, faults>>

----------------------------------------------------------------------------
(* The onSynced goroutine                                                  *)

\* Mutant: onSynced is called without waiting for HasSynced.
SyncedAtOnce ==
  /\ pc[Syncer] = "waiting"
  /\ Goto(Syncer, "synced")
  /\ UNCHANGED <<drivers, routes, target, wanted, stale, missing, failed,
                 faults, watchVars, crashes>>

\* HasSynced takes the lock that is held while a handler runs.
Synced ==
  /\ pc[Syncer] = "waiting"
  /\ unsynced = {}
  /\ pc[Watcher] = "idle"
  /\ Goto(Syncer, "synced")
  /\ UNCHANGED <<drivers, routes, target, wanted, stale, missing, failed,
                 faults, watchVars, crashes>>

InitialReconcile ==
  /\ pc[Syncer] = "synced"
  /\ \E w \in WantedMaps(ListRunning) : BeginReconcile(Syncer, w)
  /\ UNCHANGED <<drivers, watchVars, crashes>>

\* An error of the initial reconcile is only logged.
InitialReconciled ==
  /\ pc[Syncer] = "returned"
  /\ Return(Syncer, "rootget")
  /\ UNCHANGED <<drivers, routes, faults, watchVars, crashes>>

----------------------------------------------------------------------------
(* The HTTP handlers.  The server accepts requests before the first sync.  *)

\* GET /proxy/<appID>/...  A request for a driver that is not found or not
\* Running only reads.
StatusPage(r, s) ==
  /\ pc[r] = "idle"
  /\ \E d \in FindBySelector(s) : d.state = "Running" /\ BeginEnsure(r, d.sel)
  /\ UNCHANGED <<drivers, watchVars, crashes>>

\* GET /proxy/api/reconcile
ReconcileRequest(r) ==
  /\ pc[r] = "idle"
  /\ \E w \in WantedMaps(ListRunning) : BeginReconcile(r, w)
  /\ UNCHANGED <<drivers, watchVars, crashes>>

\* Its answer: 500 when Reconcile returned an error, else 200.
ReconcileResponse(r) ==
  /\ pc[r] = "returned"
  /\ Return(r, "idle")
  /\ UNCHANGED <<drivers, routes, faults, watchVars, crashes>>

----------------------------------------------------------------------------

\* The steps a goroutine makes inside a Manager call.
ManagerStep(c) ==
  /\ \/ EnsureGet(c) \/ EnsureCreate(c) \/ DeleteCall(c)
     \/ ReconcileStep(c)
     \/ RootGet(c) \/ RootWrite(c)
  /\ UNCHANGED <<drivers, watchVars, crashes>>

ClusterStep ==
  /\ \E p \in PodNames : PodCreated(p) \/ PodUpdated(p) \/ PodDeleted(p)
  /\ UNCHANGED <<drivers, managerVars, crashes>>

BrokenWatch == Relist /\ UNCHANGED <<drivers, managerVars, crashes>>

WatcherHandles(p) == HandleDelta(p) /\ UNCHANGED crashes

SyncerStep == Synced \/ InitialReconcile \/ InitialReconciled \/ ManagerStep(Syncer)

RequestStep(r) == ManagerStep(r) \/ ReconcileResponse(r)

Next ==
  \/ ClusterStep
  \/ BrokenWatch
  \/ \E p \in PodNames : WatcherHandles(p)
  \/ ManagerStep(Watcher)
  \/ SyncerStep
  \/ \E r \in Requests :
       \/ \E s \in Selectors : StatusPage(r, s)
       \/ ReconcileRequest(r)
       \/ RequestStep(r)
  \/ Crash

Spec == Init /\ [][Next]_vars

\* A goroutine that can run runs in the end.  The informer takes pods from its
\* queue in order, so that none waits forever for the goroutine to be idle.
\* Nothing is assumed of pods, users, crashes or faults.
Fairness ==
  /\ \A p \in PodNames : SF_vars(WatcherHandles(p))
  /\ WF_vars(ManagerStep(Watcher))
  /\ WF_vars(SyncerStep)
  /\ \A r \in Requests : WF_vars(RequestStep(r))

FairSpec == Spec /\ Fairness

----------------------------------------------------------------------------
(* A route, the store and the informer goroutine                           *)

\* The selectors of the Running drivers whose route is named n.
Wanting(n) == {s \in ListRunning : RouteName[s] = n}

\* The informer goroutine is in OnAdd, or in OnRemove, for the route n.
Ensuring(n) == pc[Watcher] \in {"get", "create"} /\ RouteName[target[Watcher]] = n
Deleting(n) == pc[Watcher] = "delete" /\ RouteName[target[Watcher]] = n

----------------------------------------------------------------------------
(* Liveness                                                                *)

\* The pods that are Running serve these applications.
RunningApps ==
  {pods[p].sel : p \in {q \in PodNames : /\ pods[q] # None
                                         /\ pods[q].phase = "Running"
                                         /\ IsSparkDriver(pods[q])}}

RoutesExact ==
  \A n \in RouteNames : n \in Present <=> \E s \in RunningApps : RouteName[s] = n

PodsSettle == <>[][UNCHANGED pods]_vars

Reconciled == \E r \in Requests : ReconcileResponse(r) /\ ~failed[r]

\* GET /proxy/api/reconcile mends whatever crashes, errors and races have left:
\* once pods stop changing, calling it until it answers 200 often enough makes
\* the driver routes those of the Running drivers, and they stay so.
ReconcileConverges ==
  PodsSettle /\ []<><<Reconciled>>_vars => <>[]RoutesExact

\* The status page mends a missing route (serveProxyStatus): a driver that
\* stays Running, and whose users load the page again as long as the route is
\* missing, has its route from some moment on.
StatusPageRepairs ==
  \A s \in Selectors :
    /\ <>[](s \in RunningApps)
    /\ []<>(RouteName[s] \notin Present) =>
         []<><<\E r \in Requests : StatusPage(r, s)>>_vars
    => <>[](RouteName[s] \in Present)

----------------------------------------------------------------------------
(* What the documents and comments say, and the runs refute.               *)

\* Nothing is left to do: every delta is handled, every goroutine is idle.
Settled ==
  /\ \A p \in PodNames : deltas[p] = <<>>
  /\ \A c \in Callers : pc[c] = "idle"

\* README.md: a route is created for each driver as it starts, and deleted when
\* the job finishes.  A finished job's route may be left behind.
RouteDeletedWhenJobFinishes ==
  Settled => \A n \in RouteNames \cap Present :
               \E p \in Held : /\ RouteName[drivers[p].sel] = n
                              /\ drivers[p].state \notin Terminal

\* README.md, the other half: a driver that started may be left without route.
RouteCreatedWhenDriverStarts ==
  Settled => \A s \in ListRunning : RouteName[s] \in Present

=============================================================================
