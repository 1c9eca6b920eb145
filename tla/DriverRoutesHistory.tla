------------------------- MODULE DriverRoutesHistory -------------------------
(***************************************************************************)
(* What DriverRoutes is to achieve: every Running driver has its route and *)
(* no finished driver has one.  Goroutines that act on what they read      *)
(* earlier, and API errors, keep it from holding outright.  The history    *)
(* variables below record where that happened, so that the properties can  *)
(* say what holds everywhere else, and that a reconcile mends the rest.    *)
(***************************************************************************)
EXTENDS DriverRoutes

VARIABLES
  ran,       \* the selectors of which a driver pod has ever been Running
  drift,     \* the route names that may be wrong, see Drifts
  sound,     \* for a goroutine in a Reconcile, the names of which neither the
             \* store nor drift has changed since it took its snapshot
  steady     \* the pods that have not changed since the process started

hvars == <<vars, ran, drift, sound, steady>>

\* A goroutine other than the informer's is about to act on a reading of the
\* store that no longer holds for n.
Outdated(c, n) ==
  \/ /\ pc[c] \in {"get", "create"}
     /\ RouteName[target[c]] = n
     /\ target[c] \notin ListRunning
  \/ /\ pc[c] \in {"list", "fix"}
     /\ IF wanted[c][n] = None THEN Wanting(n) # {} ELSE wanted[c][n] \notin Wanting(n)

Moves(c) == <<pc[c], stale[c], missing[c]>>' # <<pc[c], stale[c], missing[c]>>

\* The three ways for route n to go wrong in a step: the informer goroutine's
\* request on it fails, a goroutine writes it on an outdated reading, or one
\* pod takes the place of another of which no handler has removed the entry.
Drifts(n) ==
  \/ /\ faults' # faults
     /\ Moves(Watcher)
     /\ RouteName[target[Watcher]] = n
  \/ /\ routes'[n] # routes[n]
     /\ \E c \in Callers \ {Watcher} : Moves(c) /\ Outdated(c, n)
  \/ \E p \in Held : /\ RouteName[drivers[p].sel] = n
                     /\ drivers'[p] # None
                     /\ drivers'[p] # drivers[p]
                     /\ cache[p] = None \/ drivers'[p].sel # drivers[p].sel

Drifting == {n \in RouteNames : Drifts(n)}

\* A Reconcile returns nil.
Succeeds(c) == /\ pc[c] \in {"list", "fix"}
               /\ pc'[c] = "returned"
               /\ ~failed'[c]

Reconciling(c) == pc[c] \in {"list", "fix", "returned"}

StillSound(c) ==
  IF ~Reconciling(c) THEN RouteNames
  ELSE {n \in sound[c] \ Drifting : Wanting(n)' = Wanting(n)}

RunningIn(ps) ==
  {ps[p].sel : p \in {q \in PodNames : ps[q] # None /\ ps[q].phase = "Running"}}
  \ {NoSelector}

HistoryInit ==
  /\ ran = RunningIn(pods) \cup {routes[n] : n \in RouteNames \cap Present}
  /\ drift = RouteNames
  /\ sound = [c \in Callers |-> {}]
  /\ steady = PodNames

HistoryStep ==
  /\ ran' = ran \cup RunningIn(pods')
  /\ IF crashes' # crashes
     THEN /\ drift' = RouteNames
          /\ sound' = [c \in Callers |-> {}]
          /\ steady' = PodNames
     ELSE /\ drift' = (drift \cup Drifting)
                      \ UNION {StillSound(c) : c \in {d \in Callers : Succeeds(d)}}
          /\ sound' = [c \in Callers |-> IF Reconciling(c)' THEN StillSound(c) ELSE {}]
          /\ steady' = {p \in steady : pods'[p] = pods[p]}

HInit == Init /\ HistoryInit
HNext == Next /\ HistoryStep
HSpec == HInit /\ [][HNext]_hvars

HistoryTypeOK ==
  /\ TypeOK
  /\ ran \subseteq Selectors
  /\ drift \subseteq RouteNames
  /\ sound \in [Callers -> SUBSET RouteNames]
  /\ steady \subseteq PodNames

----------------------------------------------------------------------------
(* Properties                                                              *)

\* A route serves only an application whose driver has been seen Running, in
\* whatever order deltas, requests and restarts come: no pod that is Pending
\* or was already finished when first seen gets one (watcher.go AddFunc).
RouteOnlyForDriverThatRan ==
  \A n \in RouteNames \cap Present : routes[n] \in ran

\* A driver that the store says is Running has its route, or the informer
\* goroutine is in the Ensure that creates it.
RunningDriverHasRoute ==
  \A n \in RouteNames \ drift :
    Wanting(n) # {} => Ensuring(n) \/ routes[n] \in Wanting(n)

\* Once all drivers of a route have terminated or are gone from the store the
\* route is gone, or the informer goroutine is in the Delete that removes it.
FinishedDriverHasNoRoute ==
  \A n \in RouteNames \ drift :
    (\A p \in Held : RouteName[drivers[p].sel] = n => drivers[p].state \in Terminal)
      => Deleting(n) \/ n \notin Present

\* A restart does not interrupt anybody: the route that an earlier instance left
\* for a driver which has been Running since before this one started is never
\* taken away, because the first Reconcile waits for the handler of every pod
\* listed (watcher.go onSynced).  Only a reconcile request can break this.
RestartKeepsRoutes ==
  [][\A p \in steady :
       /\ pods[p] # None /\ pods[p].phase = "Running" /\ IsSparkDriver(pods[p])
       /\ routes[RouteName[pods[p].sel]] = pods[p].sel
       => routes'[RouteName[pods[p].sel]] = pods[p].sel]_hvars

\* The store is the cluster as the informer has seen it (store.go, watcher.go):
\* once every delta of a pod has been handled the store holds that pod, in its
\* phase, under its name, and nothing once it is gone, whatever a broken watch
\* has made of the changes between.  A pod that may come back without the label
\* is left out: the handlers ignore it, and the entry of the one before it stays.
StoreFollowsCluster ==
  \A p \in PodNames :
    deltas[p] = <<>> /\ NoSelector \notin LabelOf[p]
      => drivers[p] = IF p \in Existing THEN DriverOf(pods[p]) ELSE None

\* Seen from the gateway the service is a RouteBoard: whatever the goroutines,
\* errors and restarts do, routes change one at a time, no route is turned from
\* one application to another, and the root route stays.
Board == INSTANCE RouteBoard

ImplementsRouteBoard == Board!Spec

\* Nothing ever removes the root route: neither a Reconcile, which finds it in
\* its list and in no driver's name, nor a driver's Delete.
RootRouteKept == [][routes[RootRoute] # None => routes'[RootRoute] # None]_hvars

----------------------------------------------------------------------------
(* Why RouteOnlyForDriverThatRan holds: wherever a Running driver is on its *)
(* way from the cluster to a route, its application has run.               *)

HasRun(pod) == pod.phase = "Running" /\ IsSparkDriver(pod) => pod.sel \in ran

PodsHaveRun ==
  \A p \in PodNames :
    /\ p \in Existing => HasRun(pods[p])
    /\ cache[p] # None => HasRun(cache[p])

DeltasHaveRun ==
  \A p \in PodNames : \A i \in 1 .. Len(deltas[p]) : HasRun(deltas[p][i].pod)

CallsHaveRun ==
  \A c \in Callers :
    /\ pc[c] \in {"get", "create"} => target[c] \in ran
    /\ \A n \in RouteNames : wanted[c][n] \in ran \cup {None}

RanInv ==
  /\ PodsHaveRun
  /\ DeltasHaveRun
  /\ ListRunning \subseteq ran
  /\ CallsHaveRun
  /\ RouteOnlyForDriverThatRan

=============================================================================
