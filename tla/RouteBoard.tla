----------------------------- MODULE RouteBoard -----------------------------
(***************************************************************************)
(* What the service promises to the gateway, whatever happens inside it:   *)
(* routes are published and withdrawn one at a time; a route is published  *)
(* only under a free name and for an application that has run, and is never*)
(* turned to another one while it is there; the root route, once there,    *)
(* stays.                                                                  *)
(***************************************************************************)
CONSTANTS Selectors, RouteNames, RouteName, RootRoute, Fallback, None

VARIABLES
  ran,       \* the applications that have run
  routes     \* what each HTTPRoute serves, or None

Init ==
  /\ ran \subseteq Selectors
  /\ routes \in [RouteNames \cup {RootRoute} -> Selectors \cup {Fallback, None}]
  /\ \A n \in RouteNames : routes[n] \in ran \cup {None}

AppRuns ==
  /\ ran \subseteq ran'
  /\ UNCHANGED routes

Publish(n) ==
  /\ routes[n] = None
  /\ \E s \in ran : RouteName[s] = n /\ routes' = [routes EXCEPT ![n] = s]
  /\ UNCHANGED ran

Withdraw(n) ==
  /\ routes' = [routes EXCEPT ![n] = None]
  /\ UNCHANGED ran

PublishRoot ==
  /\ routes' = [routes EXCEPT ![RootRoute] = Fallback]
  /\ UNCHANGED ran

Next ==
  \/ AppRuns
  \/ \E n \in RouteNames : Publish(n) \/ Withdraw(n)
  \/ PublishRoot

Spec == Init /\ [][Next]_<<ran, routes>>

=============================================================================
