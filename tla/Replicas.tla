------------------------------ MODULE Replicas ------------------------------
(***************************************************************************)
(* Two instances of the service over one cluster, as with replicaCount: 2  *)
(* or while a new version replaces an old one.  Each has a store, an       *)
(* informer and goroutines of its own; they share the pods and the routes  *)
(* and know nothing of each other.  The first instance is DriverRoutes     *)
(* under its own names, the second one is Peer.  Requests and broken       *)
(* watches are left to DriverRoutes: either is a matter of one instance.   *)
(***************************************************************************)
EXTENDS DriverRoutes

VARIABLES
  drivers2, pc2, target2, wanted2, stale2, missing2, failed2,
  cache2, deltas2, unsynced2,
  raced      \* history: the instances whose store has changed between the
             \* snapshot and the last request of their initial reconcile

Peer == INSTANCE DriverRoutes
          WITH drivers <- drivers2, pc <- pc2, target <- target2, wanted <- wanted2,
               stale <- stale2, missing <- missing2, failed <- failed2,
               cache <- cache2, deltas <- deltas2, unsynced <- unsynced2

ones == <<drivers, callVars, cache, deltas, unsynced>>
twos == <<drivers2, pc2, target2, wanted2, stale2, missing2, failed2,
           cache2, deltas2, unsynced2>>
rvars == <<vars, twos, raced>>

RInit == Init /\ Peer!Init /\ raced = {}

\* Both informers are told of what happens to a pod.
BothAreTold == ClusterStep /\ Peer!ClusterStep /\ UNCHANGED raced

InReconcile(at) == at \in {"list", "fix"}

OneSteps ==
  /\ \/ \E p \in PodNames : WatcherHandles(p)
     \/ ManagerStep(Watcher)
     \/ SyncerStep
  /\ raced' = IF drivers' # drivers /\ InReconcile(pc[Syncer]) THEN raced \cup {"one"}
                                                               ELSE raced
  /\ UNCHANGED twos

TwoSteps ==
  /\ \/ \E p \in PodNames : Peer!WatcherHandles(p)
     \/ Peer!ManagerStep(Watcher)
     \/ Peer!SyncerStep
  /\ raced' = IF drivers2' # drivers2 /\ InReconcile(pc2[Syncer]) THEN raced \cup {"two"}
                                                                  ELSE raced
  /\ UNCHANGED ones

OneIsReplaced == Crash /\ raced' = raced \ {"one"} /\ UNCHANGED twos

TwoIsReplaced == Peer!Crash /\ raced' = raced \ {"two"} /\ UNCHANGED ones

RNext == BothAreTold \/ OneSteps \/ TwoSteps \/ OneIsReplaced \/ TwoIsReplaced

RSpec == RInit /\ [][RNext]_rvars

\* The application of a Running pod is served, and a route of which all pods have
\* terminated or are gone is not there.
RoutesServe ==
  \A n \in RouteNames :
    LET apps == {s \in RunningApps : RouteName[s] = n}
        over == \A p \in Existing : /\ IsSparkDriver(pods[p])
                                    /\ RouteName[pods[p].sel] = n
                                    => pods[p].phase \in Terminal
    IN (apps # {} => routes[n] \in apps) /\ (over => n \notin Present)

\* Instances that do not know of each other agree in the end: whoever is behind may
\* delete a route the other one has just created, or create one the other has just
\* deleted, but it goes on to handle what the other has handled, and once both have
\* the routes are right.
ReplicasAgree == Settled /\ Peer!Settled /\ raced = {} => RoutesServe

=============================================================================
