# k8s-spark-ui-assist in TLA+

A specification of the service in `src/`, its model-checked instances and the theorems proved about
it. The service watches the Spark driver pods of a namespace and keeps, for every Running driver, an
HTTPRoute in the cluster; optionally it points the root route `/` at a Spark History Server (SHS)
when that is up. Nearly everything hard in it comes from several goroutines that read one in-memory
store and write the same cluster objects, one API request at a time, with no lock held over a request.

## 1. Inventory

| Component (source) | State | Operations | Interacts with |
|---|---|---|---|
| Driver store (`internal/store`) | map pod name → driver | `Add`, `Remove`, `List`, `ListRunning`, `FindBySelector`, `Driver.RouteName` | written by the pod watcher only; read by the startup goroutine and by HTTP requests |
| Pod watcher (`internal/watcher`) | the informer's cache and queue (client-go) | `AddFunc`, `UpdateFunc`, `DeleteFunc`, `onSynced` once after the first list | store; `OnAdd`/`OnRemove` call the route manager in the informer's goroutine and block it |
| Route manager (`internal/httproute`) | none of its own: the HTTPRoutes in the cluster | `Ensure`, `Delete`, `Reconcile`, `EnsureSHSRoute`, `EnsureFallbackRootRoute`, (`DeleteRootRoute`: no caller) | called concurrently by the informer, the startup goroutine, HTTP requests and the SHS watcher |
| Process (`cmd/spark-ui-assist/main.go`) | goroutines, the context | startup, `onSynced`, shutdown | everything |
| HTTP API (`internal/api`) | none | state, reconcile | store, `Reconcile` |
| HTTP server (`internal/server`) | none | dashboard, status page (`Ensure` for a Running driver), wake page | store, `Ensure`, SHS state, the SHS Deployment |
| SHS watcher (`internal/shs/shs.go`, `state.go`) | ready endpoints per slice, `wasReady`, `up` | `handleSlice`, `deleteSlice` → `OnUp`/`OnDown` | `State`, root route |
| SHS stop scheduler (`internal/shs/scheduler.go`) | a timer | the daily scale-down, with a grace period after a restart | the SHS Deployment |
| Configuration (`internal/config`) | flags | `Parse`, `Validate`, `parseHHMM` | read once at startup |

What makes it hard, and the properties that make each part correct:

* *Store and routes.* A Running driver has its route, a finished one has none. A goroutine other than
  the informer's acts on a reading of the store that may be out of date when its request reaches the
  API server, so this cannot hold at all times; what can be asked is that a route goes wrong in those
  ways only, and that a later reconcile mends it.
* *Informer.* Changes may be lost in a gap of the watch and show up as one Update or a tombstone.
* *Restart.* The store is empty after a restart while the routes are still there. The first reconcile
  must not run before the handlers of the first list have filled the store.
* *Reconcile.* List, deletes and creates are separate requests; one may fail and the rest go on. The
  root route is in the list and must be spared.
* *Status page.* It must bring a missing route back.
* *SHS watcher.* Slices come, change and go in any order and across gaps in the watch; each transition
  between "some endpoint is ready" and "none is" must be noticed.
* *Root route.* `onSynced` and the SHS watcher write it concurrently with optimistic locking and a few
  retries, one of them on a reading of the SHS state that may be out of date, while the gateway's controller
  writes its status.
* *Scheduler.* Late timers, midnight, restarts in the grace period: one stop for one scheduled time, around
  that time, and none missed.
* *Wake.* Users and the scheduler write the replicas of one Deployment; the waiting page learns of the result
  through the SHS watcher only, and must not wait for ever.
* *Shutdown.* A signal cancels the context under every goroutine and request in flight.
* *Replicas.* Nothing in the program knows of a second instance, and `values.yaml` allows one.

`PROJECT.json` lists these hazards with the source line where each bites, and for those that no property catches the reason.

## 2. Modules

| Module | What it models |
|---|---|
| `Store` | `store.go`. One function `drivers` from pod names to drivers; each method is one step, as the mutex makes it. |
| `RouteManager` | `httproute.go`. `routes` is the cluster's managed HTTPRoutes; `pc` and the arguments say, per goroutine, which API request it makes next. One action per request. |
| `PodWatcher` | `watcher.go` on the informer: `pods` (the cluster), `deltas` (changes not handled yet), `cache` (what the informer has handled), `unsynced` (what `HasSynced` waits for). |
| `DriverRoutes` | `main.go`, `api.go` and the status page of `server.go`: the goroutines together, crash and restart, fairness, the liveness properties and the statements of the documents. |
| `DriverRoutesHistory` | `DriverRoutes` with history variables, the safety properties they make it possible to state, and the inductive invariants. |
| `RouteBoard` | abstract specification: what the service promises to the gateway, whatever happens inside. `DriverRoutesHistory` implements it. |
| `Replicas` | two instances of `DriverRoutes` (the second one by `INSTANCE ... WITH`) over one cluster. |
| `DriverRoutesProofs` | the theorem about `DriverRoutes`, and what its goroutines' calls and requests do. |
| `WatcherProofs` | lemmas about the informer, the store and one instance of the service. |
| `HistoryProofs`, `RouteProofs` | the theorems about `DriverRoutesHistory`: what needs no drivers' routes of their own, and what does. |
| `ReplicasProofs` | the theorem about `Replicas`. |
| `ApplyRoute` | `applyRoute` of `httproute.go`: the attempts of several goroutines at the root route. |
| `ShsWatcher` | `shs.go`, `state.go` and the combined handler of `main.go` on the informer. |
| `ShsRoute` | a process with a History Server: the SHS watcher and the last branch of `onSynced`, crash and restart, fairness, properties and inductive invariants. |
| `Availability` | abstract specification: what the rest of the program relies on of the SHS watcher. `ShsRoute` implements it. |
| `ShsRouteProofs` | the theorems about `ShsRoute`. |
| `StopScheduler` | `scheduler.go`: the goroutine, its timer, the time of day and the Deployment's replicas. |
| `ShsLifecycle` | `Availability` and `StopScheduler` with the pages of `server.go` that lead to the History Server, and the process of `main.go` from its start to its shutdown. |
| `ShsLifecycleProofs` | the theorems about it. |
| `MCDriverRoutes`, `MCDriverRoutesHistory`, `MCReplicas`, `MCShsRoute`, `MCShsLifecycle` | values of the constants for TLC. |

`DriverRoutes` extends `PodWatcher`, which extends `RouteManager`, which extends `Store`: the handlers
of the watcher call the manager and write the store in one step, so they are composed by conjunction of
the operations. `DriverRoutes` adds the other goroutines. `ShsRoute` extends `ShsWatcher`, which extends
`ApplyRoute`, for the same reason. The two halves share no state but the root route: `Reconcile` lists it
and spares it (`RootRouteKept`), and `onSynced` asks `IsUp` after its `Reconcile` has returned, which `ShsRoute`
abstracts to `"waiting"`. So `DriverRoutes` is the program without a History Server, and `ShsRoute` what
having one adds.

`ShsLifecycle` uses the SHS watcher for one thing, the answer of `IsUp`. It extends the abstract `Availability`
instead of the slices and requests of `ShsRoute`, and `ShsRoute` is shown to implement `Availability` (run
`root_route`, theorem `WatcherIsAvailability`): `ready` is `AnyReady(slices)`, `behind` says that some change of
a slice waits. What the root route does meanwhile is of no concern to the pages, as the gateway follows it.

`Replicas` extends `DriverRoutes` for the first instance and instantiates it for the second with ten variables of
its own; the two share `pods`, `routes` and the bounds' counters. A change of a pod is one step in which both
informers are told of it.

### State and code

| Code | Specification |
|---|---|
| `Store.drivers` | `drivers`; the selector and state of a driver are kept; reason and creation time are displayed only, and the application's name, which also names the backend service of the route, goes with the selector |
| an HTTPRoute with the managed-by label | `routes[n]`: the selector it serves (its path is made of the selector, its backend service of the application's name; see section 5, `OwnRoutes`, for the one going with the other), the backend for the root route, or `None` |
| a goroutine blocked in a `Manager` call | `pc[c]`, `target[c]` (`Ensure`, `Delete`), `wanted[c]`, `stale[c]`, `missing[c]`, `failed[c]` (`Reconcile`: `wantedByName`, the two loops, `firstErr`) |
| the informer's goroutine | `Watcher`; it is idle, or blocked in the `OnAdd`/`OnRemove` of a handler |
| the goroutine of `watcher.go:128` | `Syncer`: waiting for `HasSynced`, then `Reconcile`, then the root route |
| a request's goroutine | a member of `Requests`; it is free again when the response is written |
| the root HTTPRoute | `root`: the service it points to; in `DriverRoutes` `routes[RootRoute]` |
| a goroutine in `applyRoute` | `at[c]`, `backend[c]`, `attempt[c]`; the object its Get returned is abstracted to `fresh[c]`: is its resourceVersion still the route's |
| `sliceState`, `State.up` | `counts` (per slice: absent, zero, or positive), `wasReady`, `up` |
| the SHS informer | `slices` (the cluster), `changes` (not handled yet); its cache is what `counts` has |

| Function | Actions |
|---|---|
| `Ensure` | `BeginEnsure`, `EnsureGet`, `EnsureCreate` |
| `Delete` | `BeginDelete`, `DeleteCall` |
| `Reconcile` | `BeginReconcile`, `ReconcileList`, `ReconcileDelete` (each), `ReconcileCreate` (each) |
| `EnsureFallbackRootRoute` | `RootGet`, `RootWrite` |
| `AddFunc`, `UpdateFunc`, `DeleteFunc` | `HandleDelta`, which calls the operators of the same names |
| `onSynced` | `Synced`, `InitialReconcile`, `ReconcileStep(Syncer)`, `InitialReconciled`, `RootGet`, `RootWrite` |
| `handleReconcile` | `ReconcileRequest`, `ReconcileStep(r)`, `ReconcileResponse` |
| `serveProxyStatus`, Running | `StatusPage`, `EnsureGet`, `EnsureCreate` |
| a process stops and another starts | `Crash` |
| `applyRoute` | `BeginApply`, `ApplyGet`, `ApplyCreate`, `ApplyUpdate` (with `Retry` on a conflict) |
| `handleSlice`, `deleteSlice` | `HandleChange`, which calls `HandleSlice` or `DeleteSlice`, and these `OnUp` or `OnDown` |
| `onSynced`, last branch | `AskIsUp`, then `Applies(Syncer)` |
| `durationUntilNextStop` | `DurationUntilNextStop` |
| `RunStopScheduler` | `SchedStart`, `TimerFires`, `ScaleDeploymentToZero`, `Reschedule`; `SchedEnd` when the context is cancelled |
| `serveDashboard`, `serveProxyStatus`: the link | `LoadPage` |
| `serveWakeGet` | `FollowLink` (first time), `Poll` (the page's refresh) |
| `serveWakePost` | `PostWake` (up to the patch), `WakePatch` (the patch and the answer) |
| `signal.NotifyContext`, `srv.Shutdown`, return of `main` | `Signal`, `ShutdownCloses` and `ShutdownExpires`, `MainReturns` |

Choices a reader should know:

* Every API request is one step and may be answered with an error (`Error`, at most `MaxFaults` times);
  a write answered with an error may or may not have taken effect. `NotFound` on delete and
  `AlreadyExists` on create count as success, as in the code.
* The store snapshot taken by `ListRunning` and the reading of `FindBySelector` are one step with the
  start of the call they are arguments of; the API requests come later. The gap between the reading
  and the first request is a state, and every interleaving in it is explored.
* `ListRunning` returns a list in the random order of a Go map, and of two drivers with one route name
  the last wins in `wantedByName`: `WantedMaps` is the set of outcomes. `FindBySelector` returns any
  match.
* The code interleaves the stale-route deletions with building `presentNames`, but the list was read
  once, so `ReconcileList` computes both. Deletions and creations happen in any order within their loop.
* The informer is external. It is modelled from how `Watch` uses it: a list, then deltas; the handler
  called depends on the informer's cache, not on what happened to the pod; a broken watch loses any
  suffix of the deltas and lists again, so that a deletion becomes a tombstone with the last known
  pod, and a deletion followed by a re-creation becomes one Update. Deltas of one pod are in order;
  those of different pods are taken in any order, which includes the informer's queue order.
* Kubernetes: a pod never leaves a terminal phase or returns to Pending; its labels do not change.
* The context is cancelled with the process, so a request in flight at that moment has taken effect
  before the `Crash` step or never does. A new process starts with an empty store and finds the
  routes as they are; `Init` starts from any routes an earlier instance may have left.
* `SelfService` is required by `config.Validate`, so the root route always has a name. In `DriverRoutes`
  the SHS is not configured: `shsState` is nil and `onSynced` always writes the fallback route.
* The API server answers an Update whose resourceVersion is not the route's with Conflict. A write of this process
  that changes the route makes the other goroutine's version stale; one that changes nothing does not, as the
  API server leaves the version of an object alone when an update is a no-op. Others write the route as well: the
  gateway's controller reports its status after each change, at a time of its own. `StatusWritten` is any such write:
  it may come at any moment, any number of times, and makes every version stale. So each attempt of `applyRoute`
  may meet a conflict, and the last one gives up. In `DriverRoutes`, which has one writer of the backend, attempts that
  meet a conflict write nothing and are left out, and giving up is one of the errors.
* A count of ready endpoints is abstracted to whether it is positive: `totalReady() > 0` is the only use of
  the sum, and a sum of counts is positive exactly when one of them is.
* Time in `StopScheduler` is the time of day, in units of some minutes, and goes round; the configured minute is
  any of them. A timer counts down; the goroutine and its request may together be late by `MaxLag` units, so that a
  scale-down may return on the next day. The two readings of the clock at `scheduler.go:59` and `:61` are one.
* The replicas of the Deployment are 0 or 1: the wake writes 1 and the stop 0. Either request may fail, and then it
  may or may not have taken effect. Endpoints become ready only while there is a replica, and may go at any time.
* A user is a browser. The links of the pages are followed with a GET; a POST of the wake endpoint comes from
  elsewhere (a script, as in the tests), since none of the templates has a form. A POST is two steps, because the
  state is asked before the request to the API server; every other page is one.
* `Shutdown` closes the listeners and then waits for the requests for five seconds (`ShutdownExpires`). `main`
  returns when `ListenAndServe` does, which is when the listeners are closed, and the process with it.
* The handlers of one informer run one at a time and block it while they write the route, so
  `HandleChange` waits until `at[Watcher]` is `"idle"`.

## 3. Properties

`DriverRoutesHistory` adds four history variables, which no action of the program reads:

* `ran` — the selectors of which a pod has been Running (or that an earlier instance had routed);
* `drift` — the route names that may be wrong: all of them when a process starts, then those that one
  of three events (`Drifts`) touched: a failed API request of the informer's goroutine; a write of
  another goroutine on a reading of the store that no longer holds; a driver that takes the place of another
  one of which no handler has removed the entry (one Update for a deletion and a re-creation with another
  selector, or a pod without the label in between, whose events the handlers ignore). A `Reconcile` that returns nil clears the names in `sound`;
* `sound` — for a goroutine in a `Reconcile`, the names whose Running drivers have not changed since its
  snapshot and that have not drifted since;
* `steady` — the pods that have not changed since the process started.

With them, the safety properties say exactly how far the routes can be trusted:

| Property | Says |
|---|---|
| `RouteOnlyForDriverThatRan` | a route never serves an application that was not Running at some time |
| `RunningDriverHasRoute` | outside `drift`, a driver Running in the store has its route, or the informer is in the `Ensure` for it |
| `FinishedDriverHasNoRoute` | outside `drift`, when all drivers of a name have finished or are gone there is no route, or the informer is in the `Delete` for it |
| `RestartKeepsRoutes` | a restart never takes away the route of a driver that goes on running (with no reconcile request before the first sync) |
| `RootRouteKept` | nothing removes the root route |
| `StoreFollowsCluster` | once every delta of a pod is handled the store holds the pod as the cluster does, whatever broken watches have made of its history; a pod name under which a pod without the label may appear is excluded, as the handlers ignore that one and keep its predecessor |
| `ImplementsRouteBoard` | the service is a `RouteBoard`: routes are published one at a time, under a free name and for an application that has run, are withdrawn one at a time, and never turned from one application to another; the root route stays |
| `ReconcileConverges` | once pods stop changing, reconcile requests that keep returning 200 make the driver routes those of the Running drivers, for good |
| `StatusPageRepairs` | a driver that stays Running, and whose page is loaded again as long as the route is missing, has its route for good |

`RunningDriverHasRoute` and `FinishedDriverHasNoRoute` would be false without the `drift` excuse (the
violation runs show how), and would be empty if `drift` were never cleared: that a successful
reconcile clears it while other goroutines run is the claim they make about `Reconcile`.

`Replicas` has one history variable, `raced`: the instances whose store has changed while their initial reconcile
was under way, which then may have undone what their informer did (runs `finished`, `started`). A restart of the
instance clears it.

| Property | Says |
|---|---|
| `ReplicasAgree` | when neither instance has anything left to handle and neither has raced, a Running driver has its route and a route of finished drivers is gone, although one instance may have deleted on the way what the other had just created |

`ShsRoute` has two history variables. `overtaken` counts, for the call of `applyRoute` that a goroutine is in, the
attempts in which somebody's write came between the Get and the Update. `doubt` is why the root route may be wrong:

* `"start"`: a process has started and nobody has come to write the route yet;
* `"failed"`: a request of the watcher has failed, or others have overtaken `MaxRetries` of its attempts; or the same
  has happened to `onSynced` before anybody had written;
* `"raced"`: the watcher's Create found the other backend's route, or `onSynced` changed the route although the
  server had come up since it asked;
* `"none"`, after a write of the watcher, or of `onSynced` while the server is down.

| Property | Says |
|---|---|
| `UpFollowsEndpoints` | when no change of a slice is waiting, `State.up` says whether some slice of the cluster has a ready endpoint: no transition is missed |
| `RootRouteFollowsShs` | without doubt the root route points where the state says, or the watcher is at work on it; a conflict loses no transition as long as one attempt is left that nobody overtakes |
| `ImplementsAvailability` | the watcher is an `Availability`: `up` starts as down and equals `ready` whenever nothing waits, whichever changes come, are merged or are lost |
| `RootRouteSettles` | once the endpoints stop changing and the process goes on running, `up` is for good what they say, and the root route points there, unless the last call failed or lost a race; `"start"` is no excuse, so a new process corrects what the one before it left |

`ShsLifecycle` has two history variables: `overdue`, the scheduled times that have come without a scale-down since
the last one (or the start of the process, which counts one in the grace period), and `crossed`, whether the last
scale-down returned on the day after its own.

| Property | Says |
|---|---|
| `StopsInWindow` | the server is stopped only between the scheduled time and the end of the grace period, give or take the lag: neither late timers nor restarts nor midnight let the goroutine drift into working hours |
| `StopsOncePerSchedule` | one scheduled time makes one process scale down once, also when it started in the grace period |
| `MissesNoStop` | no scheduled time goes by unserved while the process runs, except the one after a scale-down that returned past midnight |
| `WaitingUserArrives` | a user on the waiting page leaves it, in the end, if the server stays ready and the process runs: the page asks again, and the state it asks catches up |

### Fairness

`FairSpec` assumes that a goroutine that can run runs in the end: weak fairness for the steps inside a
call of each goroutine and for the startup goroutine, strong fairness for the handling of each pod's
deltas, because the informer's queue hands pods out in order and none waits forever while the informer
keeps becoming idle. An API request is answered (client-go has timeouts). Nothing is assumed of pods,
users, crashes, broken watches or errors; what the properties need of users is in the properties. The
fairness of `ShsRoute` is the same for its two goroutines: weak for `AskIsUp` (the first sync and the initial
reconcile end) and for the steps of `applyRoute`, strong for the handling of each slice's changes. In `ShsLifecycle` time passes, the scheduler's goroutine runs, the
watcher handles what waits (a consequence of `ShsRoute`'s fairness), a browser with the waiting page refreshes and
a request in flight is answered, a shutdown goes on, and the cluster starts the process again when it is down.
Nothing is assumed of what users choose, of the server's endpoints, of signals or of errors.

## 4. Runs

Passing runs (all exhaustive):

| Run | Instance | Distinct states | Shows |
|---|---|---|---|
| `reused_name` | 1 pod name used by 2 applications, 2 queued deltas, broken watch, 1 crash, 1 API error | 980 000 | the handlers and the initial reconcile keep store and routes right in spite of lost changes; restarts interrupt nobody |
| `requests` | pods of 1 application and routes of 2, 1 request goroutine, 1 crash, 1 API error, broken watch, phases "", Running, Failed, Unknown | 838 000 | status page and reconcile requests, the initial reconcile at the same time, errors and crashes |
| `two_apps` | 2 pods with their own applications, one maybe without the label | 431 000 | one driver's routes do not disturb another's; the refinement of `RouteBoard` |
| `fair` | 1 application, 1 request, 1 crash, 1 API error, 2 queued deltas, broken watch | 346 000 | the two liveness properties |
| `replicas` | 2 instances, 1 pod name, 2 queued deltas, 1 crash | 1 149 000 | the instances agree in the end |
| `root_route` | 2 slices, 2 queued changes each, broken watch, 2 attempts, any number of status writes and restarts, 1 API error | 512 000 | the properties of the root route; the refinement of `Availability` |
| `lifecycle` | 2 users, a day of 6 units, grace 2, lag 2, every stop time, any number of restarts | 133 000 | the stops, and that waiting users arrive |

Bounds. `MaxDeltas` (1 or 2) is the number of changes of one pod that wait; with 2 the informer
can be behind by a whole deletion and re-creation, which is what the handlers can confuse. Pods are created,
changed and deleted without a bound on their number, so histories of any length are covered. One
request goroutine suffices for the races of a request with the informer and the startup goroutine,
and for two reconciles at a time. `MaxFaults = 1` reaches every single failed request; `MaxCrashes = 1`
reaches every crash point, and `Init` already covers what earlier instances left. Two selectors are
the fewest for one application to disturb another. Two slices are the fewest for which the last one to go
is not the only one; slices change without a bound on the number of transitions, and status writes and restarts are
not bounded either. `MaxRetries` is 2 in `root_route`, the fewest with a retry, and 3 as in the code in `root_overwritten`;
with 3 attempts the properties of `root_route` hold as well (954 000 states, four minutes), and the theorems
are for any number. In `replicas` two queued deltas let one instance be behind the other by a deletion and a re-creation
of the pod; requests, errors and broken watches concern one instance and are left to the other runs. A day of 6
units with a grace period and a lag of 2 each leaves times of the day outside both, and has stop times for which
either spans midnight; days, restarts and visits of the pages are not bounded. Two users are enough for one to
wake the server while the other waits for it.

Runs that TLC finds violated, each a statement of the repository that the code does not keep:

| Run | Statement | What the counterexample shows |
|---|---|---|
| `finished` | README: the route is deleted "when the job finishes" | a request or the initial reconcile that read the store before the job finished creates the route again after its deletion; it stays until the next reconcile |
| `started` | README: a route is created "for each driver as it starts" | the initial reconcile deletes, on an old snapshot, the route created for a driver that has just started |
| `root_overwritten` | `main.go`: if SHS is up its route has been written, and must not be overwritten | the server comes up between `IsUp` and the write of the fallback; `/` stays on the dashboard until the next transition |
| `wake_link` | `values.yaml`: the wake endpoint scales the Deployment up "when a user clicks" the link | the link is a GET, which patches nothing; the user gets the waiting page and waits for somebody else to start the server |
| `shutdown` | DESIGN.md: a 5-second graceful shutdown window "before the process exits" | `main` returns when the listeners are closed, with a wake request still in flight |

Not runs, but visible in the modules:

* DESIGN.md's table of events says that an Update of a terminated pod removes the driver from the store; `UpdateFunc`
  keeps it, with its final state, until the pod is deleted.
* `store.go` says that only Running drivers have a route; `UpdateFunc` leaves alone the route of one that goes from
  Running to Unknown. `RunningDriverHasRoute` and `FinishedDriverHasNoRoute` leave such a driver either way.
* DESIGN.md promises a separate route per active driver; two selectors that differ in case or in `.`/`_`/`-` have
  one route name. The constant `RouteName` may do so, and the theorems hold then; the runs give each its own.
* A pod re-created under its name with another selector during a gap in the watch is one Update; the first
  selector's route is not removed. The same happens when a pod loses the label in such a gap, or a pod without the
  label is deleted: the handlers return early, the entry of the earlier driver stays in the store, and the next driver
  under the name overwrites it. This is the third event in `Drifts`.
* `scheduler.go` says that a process which starts in the grace period fires at once; `durationUntilNextStop` looks
  at the stop of the current day only, so that a grace period that spans midnight ends there.

The HTTP server accepts requests before the first sync; a reconcile request at that moment sees an
empty store and deletes the routes of drivers that are Running. This is why `RestartKeepsRoutes` is
checked without requests.

## 5. Proofs

Every theorem holds for all values of the constants that satisfy the named assumptions of the modules: any sets of
pods, selectors, route names and request goroutines, any bounds. Those of one process without a History Server:

| Theorem | Module | Statement |
|---|---|---|
| `DriverRoutesType` | `DriverRoutesProofs` | `Spec => []TypeOK` |
| `DriverRoutesHistoryType` | `HistoryProofs` | `HSpec => []HistoryTypeOK` |
| `RoutesOnlyForDriversThatRan` | `HistoryProofs` | `HSpec => []RouteOnlyForDriverThatRan` |
| `RootRouteNeverRemoved` | `HistoryProofs` | `HSpec => RootRouteKept` |
| `ServiceIsRouteBoard` | `HistoryProofs` | `HSpec => ImplementsRouteBoard` |
| `StoreIsCluster` | `HistoryProofs` | `HSpec => []StoreFollowsCluster` |
| `RunningDriversHaveRoutes` | `RouteProofs` | `HSpec => []RunningDriverHasRoute`, if `OwnRoutes` |
| `FinishedDriversHaveNoRoutes` | `RouteProofs` | `HSpec => []FinishedDriverHasNoRoute`, if `OwnRoutes` |
| `RestartsKeepRoutes` | `RouteProofs` | `HSpec /\ [][~EarlyReconcile]_hvars => RestartKeepsRoutes`, if `OwnRoutes` |

and of two of them:

| Theorem | Module | Statement |
|---|---|---|
| `ReplicasDoAgree` | `ReplicasProofs` | `RSpec => [](faults = 0 => ReplicasAgree)`, if `OwnRoutes` |

*The hypotheses.* `OwnRoutes` says that no two selectors share the name of a route, and that a selector is the label of
pods of one name only. It is what the repository's README relies on: the label's value "uniquely identifies the
application within the cluster", and an application has one driver pod. A pod name may be used by any number of
applications in turn, with or without the label. Without the first half, which the code does not enforce (section 4), the
route of one driver is deleted when another one finishes, and the statements are false. `EarlyReconcile` is a reconcile
request before the first sync, which deletes the routes of Running drivers (section 4); later ones are allowed. In
`ReplicasDoAgree` a request answered with an error ends the claim: an instance whose only request about a route fails has
nothing left to do about it, and the route stays wrong until a reconcile.

*Type correctness* is proved action by action; it is the first conjunct of every later induction.

*Routes only for drivers that ran.* The invariant alone is not inductive: a create writes the goroutine's
`target`, a reconcile writes its `wanted` map, these come from the store, the store from a delta, the
delta from the cluster or, after a broken watch, from the informer's cache. `RanInv` says for each of
those places that a Running driver found there has run; every action moves a driver from one of them
to the next, and the only source is the cluster, where `ran` records it. Lemmas say what `Append`,
`Tail` and `SubSeq` do to a sequence all of whose deltas satisfy a condition.

*The root route is never removed.* Only `DeleteCall` and `ReconcileDelete` make a route absent. The
former deletes `RouteName[target]`, and `CallsSpareRoot` says that the target is a selector, so that the
name is a driver's (`RouteNameAssumption`, `RootRouteAssumption`); the latter deletes a member of `stale`,
which `CallsSpareRoot` says never holds the root route because `IsStale` leaves it out.

*The service is a route board.* Initial states map to initial states by `RanInv`. A step that writes no route is
`AppRuns` or a stutter. In a step that does, `ran` does not change, because the pods do not and `RanInv` says that
what runs has been recorded; `BoardWrite` says what each request can do to the routes, and the invariants say with
which arguments: `CallsHaveRun` that what is created has run, `CallsNameRoutes` that a reconcile creates a route
under the name of its driver, `CallsSpareRoot` that the root route is not among those deleted.

*The store is the cluster.* `WatchInv` speaks of what the informer knows of a pod once it has handled the first `i` of
its deltas (`Known`): after the last one it knows the pod as it is in the cluster (`LatestIsCluster`); a pod that is
queued as gone is queued as it was known just before (`GoneFollowsPod`); and the store holds what the informer does
(`StoreIsCache`). A change of a pod, a new list and a handled delta are all of one form, `Requeued`: the queue keeps
its first `k` deltas and gets at most one more that brings it up to date.

*Routes follow drivers.* `RouteInv` has `RouteRight(n)` for every name that has not drifted, and for a name that is sound
for a reconcile in progress as soon as that has nothing left to do about it (`SoundIsRight`): this is what allows the
end of a reconcile to clear `drift`. It needs that the informer's goroutine acts on what the store still says
(`WatcherActsOnStore`), which holds because that goroutine is the store's only writer and is blocked in its request, and
needs `OwnRoutes`: no other pod's driver has the route that it is deleting. A step of another goroutine that makes a
right route wrong acts on an outdated reading, which is what `Drifts` says.

*A restart takes no route away.* A driver that does not change from before the start is in the informer's queue, as it
is, exactly until it is in the store (`SteadyIsKnown`); the first reconcile waits for that (`SyncedIsHandled`), so that
it and every later one wants the route (`SteadyIsWanted`), and the informer deletes no route of a driver that is
Running in the store.

*Replicas agree.* `ReplicasProofs` instantiates `WatcherProofs` for the second instance (`Two`), which gives every lemma
about one instance for both. For an instance that gets no requests and whose watch does not break, the store is exactly
the cache's driver pods (`ExactStore`), since two deltas of one pod in a row carry the same label (`SameLabel`). `Lacks(n)` says of
an instance that it has a Running driver of the route `n` and nothing left to do about it, `Leaves(n)` the same of a route
whose drivers are finished. Neither can be the last to know: `LacksStep` and `LeavesStep` show that a step of an instance which ends
in `Lacks(n)` without the route, or in `Leaves(n)` with it, started there. So that both instances lack an absent route,
or leave a present one, is never brought about by either (`Agree`), and when all is handled one or the other would
have to hold if a route were wrong.

`ReplicasInv`, `SteadyInv` and the parts of `RouteInv` were also checked with TLC, as invariants of instances like
those of the runs. An attempt at `RouteInv` showed that `Drifts` had to name the driver that takes the place of an entry
left behind: TLC found the case of a pod without the label.

`ShsRouteProofs` proves, for any set of slices, any backends, any number of attempts above one and any bounds:

| Theorem | Statement |
|---|---|
| `ShsRouteType` | `Spec => []TypeOK` |
| `UpFollows` | `Spec => []UpFollowsEndpoints` |
| `RootRouteFollows` | `Spec => []RootRouteFollowsShs` |
| `WatcherIsAvailability` | `Spec => ImplementsAvailability` |

*The state follows the endpoints.* `UpInv` says what holds while changes are still waiting: the latest waiting
change of a slice, or its count if there is none, is the slice's state in the cluster. A broken watch keeps
this because the list that follows ends the queue with the current state, and leaves a slice out only when
the informer already knows that it is gone.

*The root route follows the state.* `RouteInv` adds that the watcher always applies the backend that the state
calls for. Each way its call can end either writes that backend or raises the doubt; for giving up this needs
`AttemptInv`, that every attempt before the present one has been overtaken, and the present one too if its Update
is to meet a conflict, so that the last attempt meets one only when as many have been overtaken as there are.

*The watcher is an availability.* `UpFollowsEndpoints`, before and after the step, gives what `Handles`, `Restarted`
and the initial condition ask of `up`; a change of the cluster and a new list are `Changes`, or a stutter.

`ShsLifecycleProofs` proves, for any users, any length of the day and any grace period and lag that fit into it
(`DayAssumption`):

| Theorem | Statement |
|---|---|
| `LifecycleType` | `Spec => []TypeOK` |
| `NoStopMissed` | `Spec => []MissesNoStop` |
| `OneStopPerSchedule` | `Spec => StopsOncePerSchedule` |
| `StopsOnlyInWindow` | `Spec => StopsInWindow` |

`SchedInv` relates the goroutine's timer to the time of day: a timer that runs ends at a scheduled time, and how
many of them come before that (`TimerInv`); one that has ended did so at a scheduled time or in the grace period,
and is late by what `late` says (`DueInv`). The delay after a scale-down is computed from the day on which it
returns; the case that this is the next day is the third one of `TimerInv`, and why `MissesNoStop` needs `crossed`.

Only model-checked are the liveness properties `ReconcileConverges`, `StatusPageRepairs`, `RootRouteSettles` and
`WaitingUserArrives`: they need fairness and `ENABLED`, which are out of the prover's reach. Every invariant and every
action property that a passing run checks is stated by a theorem. The violation runs are counterexamples and need none.

## 6. Not modelled

* deletions of the root route: the program makes none (`DeleteRootRoute` has no caller), and outside ones are
  left out;
* the dashboard's list of drivers, `handleState`, the texts of the pages, `FormatDuration`, `validateThen`: they read
  once and render;
* flags: `Parse`, `Validate` and `parseHHMM` run before anything else; what they yield are the constants. The
  lifecycle has the SHS, its Deployment and the stop time configured; without one of them there are fewer actions;
* two instances with a History Server: the root route of `ShsRoute` gets its backend from one process only. What
  another one's writes do to resource versions is covered by `StatusWritten`;
* the objects `buildDriverRoute` and `buildRootRoute` build, beyond what they serve. `RouteName` is a
  constant function; its truncation branch cannot be reached with a label value of at most 63 characters;
* malformed objects from the informer (the `ok` checks of the handlers return without effect).

## 7. Plan

Done: every part with state of its own, their compositions, two abstract specifications with their refinements, and
a theorem for each safety property. Next, in this order:

1. What holds of two replicas whatever fails and whoever races: that `Replicas` keeps the root route, routes only
   applications that have run and turns no route from one application to another, that is, implements `RouteBoard`,
   from the lemmas of one instance.
2. The safety half of the liveness properties, that is, what must hold in every state for their fair steps to lead
   where they do: that `RoutesExact`, once reached with the pods settled and no outdated call under way, stays.
