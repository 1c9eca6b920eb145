------------------------------- MODULE Store -------------------------------
(***************************************************************************)
(* The in-memory store of Spark driver pods (internal/store/store.go): a   *)
(* map from pod name to driver, written by the informer goroutine alone    *)
(* and read by every other goroutine.  The mutex makes each method one     *)
(* atomic step.  Of a driver the model keeps the two fields that decide    *)
(* whether it has a route and of which application: AppSelector and State. *)
(* CreatedAt and Reason are only displayed.  AppName is displayed and names*)
(* the backend service of the route; it is a function of the selector as   *)
(* far as the label identifies the application, which README.md says.      *)
(***************************************************************************)

CONSTANTS PodNames,      \* names of driver pods, the keys of the map
          Selectors,     \* non-empty values of the label spark-app-selector
          RouteNames,    \* names of per-driver HTTPRoutes
          RouteName,     \* [Selectors -> RouteNames]: Driver.RouteName
          None           \* an absent driver, pod, route or argument

DriverStates == {"Pending", "Running", "Succeeded", "Failed", "Unknown"}

Driver == [sel : Selectors, state : DriverStates]

ASSUME RouteNameAssumption == RouteName \in [Selectors -> RouteNames]
ASSUME NoneAssumption == None \notin Driver \cup Selectors

VARIABLE drivers         \* Store.drivers: what the map holds under each name

StoreTypeOK == drivers \in [PodNames -> Driver \cup {None}]

StoreInit == drivers = [p \in PodNames |-> None]

Add(p, d) == drivers' = [drivers EXCEPT ![p] = d]

Remove(p) == drivers' = [drivers EXCEPT ![p] = None]

Held == {p \in PodNames : drivers[p] # None}

\* The selectors of a snapshot of the Running drivers.
ListRunning == {drivers[p].sel : p \in {q \in Held : drivers[q].state = "Running"}}

\* The drivers FindBySelector may return: the first match in Go's random map
\* order; none when the set is empty.
FindBySelector(s) == {drivers[p] : p \in {q \in Held : drivers[q].sel = s}}

=============================================================================
