---------------------------- MODULE RouteProofs -----------------------------
(***************************************************************************)
(* Proofs that routes follow drivers: a Running driver has its route and a *)
(* finished one has none, but for the routes that drift, and a restart     *)
(* takes no route away.                                                    *)
(***************************************************************************)
EXTENDS HistoryProofs

----------------------------------------------------------------------------
(* The invariant                                                           *)

\* The route n is what the store says, or the informer goroutine is at work on it.
RouteRight(n) ==
  /\ Wanting(n) # {} => Ensuring(n) \/ n \in Present
  /\ Finished(n) => Deleting(n) \/ n \notin Present

\* A Reconcile is right about the names that are sound, and what it has nothing
\* left to do about is right.
SoundIsRight ==
  \A c \in Callers : \A n \in sound[c] :
    /\ pc[c] \in {"list", "fix"} => WantsRight(c, n)
    /\ pc[c] = "fix" /\ ~failed[c] /\ n \notin stale[c] \cup missing[c] => RouteRight(n)

NoDriftIsRight == \A n \in RouteNames \ drift : RouteRight(n)

\* The invariant: what is known of the informer, of the goroutines' calls, and of
\* the routes.
RouteInv ==
  /\ HistoryTypeOK
  /\ WatchInv
  /\ CallsInv
  /\ CallsSpareRoot
  /\ CallsNameRoutes
  /\ RoutesNamed
  /\ WatcherActsOnStore
  /\ SoundIsRight
  /\ NoDriftIsRight

----------------------------------------------------------------------------
(* A route that is right stays right, unless it drifts                     *)

LEMMA RightWhenHandled ==
  ASSUME OwnRoutes, TypeOK, TypeOK', WatchInv, WatchInv', NEW p \in PodNames, HandleDelta(p),
         NEW n \in RouteNames, n \notin Drifting, RouteRight(n)
  PROVE  RouteRight(n)'
<1>1. /\ pc[Watcher] = "idle" /\ UNCHANGED routes
      /\ \A q \in PodNames \ {p} : drivers'[q] = drivers[q]
  BY HandlerEffect
<1>2. /\ Wanting(n) # {} => n \in Present
      /\ Finished(n) => n \notin Present
  BY <1>1 DEF RouteRight, Ensuring, Deleting
<1>3. UNCHANGED Present
  BY <1>1 DEF Present
<1>4. /\ Wanting(n) # {} <=> \E q \in Held : /\ drivers[q].state = "Running"
                                             /\ RouteName[drivers[q].sel] = n
      /\ (Wanting(n) # {})' <=> \E q \in PodNames : /\ drivers'[q] # None
                                                    /\ drivers'[q].state = "Running"
                                                    /\ RouteName[drivers'[q].sel] = n
      /\ (Wanting(n) # {} => ~Finished(n))'
  BY WantingIff, WantingIffNext
<1> DEFINE Of(d) == d # None /\ RouteName[d.sel] = n
<1>5. CASE drivers'[p] = drivers[p]
  <2>1. UNCHANGED drivers
    BY <1>1, <1>5 DEF TypeOK, StoreTypeOK
  <2> QED
    BY <1>2, <1>3, <2>1 DEF RouteRight, Wanting, Finished, ListRunning, Held
<1>6. CASE ~Of(drivers[p]) /\ ~Of(drivers'[p])
  <2>1. (Wanting(n) # {})' => Wanting(n) # {}
    BY <1>1, <1>4, <1>6 DEF Held
  <2>2. Finished(n)' => Finished(n)
    BY <1>1, <1>6 DEF Finished, Held
  <2> QED
    BY <1>2, <1>3, <2>1, <2>2 DEF RouteRight
<1>7. CASE drivers[p] # None /\ drivers'[p] = None /\ BeginDelete(Watcher, drivers[p].sel)
           /\ Of(drivers[p])
  <2>1. Deleting(n)'
    BY <1>7, CallersElements DEF BeginDelete, Goto, Deleting, TypeOK, ManagerTypeOK
  <2>2. drivers[p].sel \in LabelOf[p] \cap Selectors
    BY <1>7, HeldLabel DEF Held, WatchInv
  <2>3. (Wanting(n) = {})'
    BY <1>4, <1>7, <2>2, OnlyHolderNext DEF Held
  <2> QED
    BY <2>1, <2>3 DEF RouteRight
<1>8. ASSUME NEW dr \in Driver, dr.sel \in LabelOf[p], drivers'[p] = dr,
             drivers'[p] # drivers[p], RouteName[dr.sel] = n,
             \/ dr.state = "Running" /\ BeginEnsure(Watcher, dr.sel)
             \/ dr.state \in Terminal /\ BeginDelete(Watcher, dr.sel)
             \/ /\ dr.state # "Running" /\ (cache[p] # None => dr.state \notin Terminal)
                /\ UNCHANGED <<pc, target>>
      PROVE  RouteRight(n)'
  <2>1. dr # None /\ dr.sel \in LabelOf[p] \cap Selectors
    BY <1>8, NoneAssumption DEF Driver
  <2>2. \A q \in PodNames : drivers'[q] # None /\ RouteName[drivers'[q].sel] = n => q = p
    BY <1>8, <2>1, OnlyHolderNext
  <2>3. CASE dr.state = "Running" /\ BeginEnsure(Watcher, dr.sel)
    <3>1. Ensuring(n)'
      BY <1>8, <2>3, CallersElements DEF BeginEnsure, Goto, Ensuring, TypeOK, ManagerTypeOK
    <3>2. (Wanting(n) # {})'
      BY <1>4, <1>8, <2>1, <2>3 DEF Held
    <3> QED
      BY <1>4, <3>1, <3>2 DEF RouteRight
  <2>4. ASSUME dr.state # "Running" PROVE (Wanting(n) = {})'
    BY <1>4, <1>8, <2>2, <2>4 DEF Held
  <2>5. CASE dr.state \in Terminal /\ BeginDelete(Watcher, dr.sel)
    <3>1. Deleting(n)'
      BY <1>8, <2>5, CallersElements DEF BeginDelete, Goto, Deleting, TypeOK, ManagerTypeOK
    <3> QED
      BY <2>4, <2>5, <3>1 DEF RouteRight, Terminal
  <2>6. CASE dr.state # "Running" /\ dr.state \notin Terminal
    <3>1. ~Finished(n)'
      BY <1>8, <2>1, <2>6 DEF Finished, Held
    <3> QED
      BY <2>4, <2>6, <3>1 DEF RouteRight
  <2>7. CASE dr.state \in Terminal /\ cache[p] = None
    <3>1. ~Of(drivers[p])
      BY <1>8, <2>1, <2>7 DEF Drifting, Drifts, Held
    <3>2. Finished(n)' => Finished(n)
      BY <1>1, <3>1 DEF Finished, Held
    <3> QED
      BY <1>2, <1>3, <2>4, <2>7, <3>2 DEF RouteRight, Terminal
  <2> QED
    BY <1>8, <2>3, <2>5, <2>6, <2>7
<1>9. ASSUME NEW dr \in Driver, drivers'[p] = dr, Of(drivers[p]), RouteName[dr.sel] # n
      PROVE  FALSE
  BY <1>9, NoneAssumption DEF Drifting, Drifts, Held
<1> QED
  BY <1>5, <1>6, <1>7, <1>8, <1>9, HandlerEffect

LEMMA RightWhenWatcherSteps ==
  ASSUME TypeOK, CallsInv, CallsSpareRoot, WatcherActsOnStore, ManagerStep(Watcher),
         NEW n \in RouteNames, n \notin Drifting, RouteRight(n)
  PROVE  RouteRight(n)'
<1> USE DEF TypeOK, ManagerTypeOK
<1>1. UNCHANGED drivers /\ n \in Routes
  BY DEF ManagerStep, Routes
<1>2. UNCHANGED <<Wanting(n), Finished(n)>>
  BY <1>1 DEF Wanting, ListRunning, Finished, Held
<1>3. pc[Watcher] \in {"get", "create", "delete"} /\ pc'[Watcher] # pc[Watcher]
  BY StepPc, CallersElements DEF CallsInv, CallsHaveKinds
<1>4. Wanting(n) # {} => ~Finished(n)
  BY RunningNotFinished
<1>5. CASE RouteName[target[Watcher]] # n
  <2>1. Wanting(n) # {} => n \in Present
    BY <1>5 DEF RouteRight, Ensuring
  <2>2. Finished(n) => n \notin Present
    BY <1>5 DEF RouteRight, Deleting
  <2>3. routes'[n] = routes[n]
    BY <1>3, <1>5, RouteWrites, CallersElements
  <2> QED
    BY <1>2, <2>1, <2>2, <2>3 DEF RouteRight, Present
<1>6. ASSUME RouteName[target[Watcher]] = n PROVE faults' = faults
  BY <1>3, <1>6 DEF Drifting, Drifts, Moves
<1>7. CASE RouteName[target[Watcher]] = n /\ pc[Watcher] = "get"
  <2>1. target[Watcher] \in Wanting(n)
    BY <1>7 DEF WatcherActsOnStore, Wanting
  <2>2. EnsureGet(Watcher)
    BY <1>7 DEF ManagerStep, EnsureCreate, DeleteCall, ReconcileStep, ReconcileList,
                ReconcileDelete, ReconcileCreate, RootGet, RootWrite
  <2>3. UNCHANGED routes /\ ~Error
    BY <1>6, <1>7, <2>2 DEF EnsureGet, Error
  <2>4. CASE n \in Present
    BY <1>2, <1>4, <2>1, <2>3, <2>4 DEF RouteRight, Present
  <2>5. CASE n \notin Present
    <3>1. Goto(Watcher, "create") /\ UNCHANGED target
      BY <1>7, <2>2, <2>3, <2>5 DEF EnsureGet
    <3>2. Ensuring(n)'
      BY <1>7, <3>1, CallersElements DEF Ensuring, Goto
    <3> QED
      BY <1>2, <1>4, <2>1, <3>2 DEF RouteRight
  <2> QED
    BY <2>4, <2>5
<1>8. CASE RouteName[target[Watcher]] = n /\ pc[Watcher] = "create"
  <2>1. target[Watcher] \in Wanting(n) /\ target[Watcher] # None
    BY <1>8, NoneAssumption, CallersElements DEF WatcherActsOnStore, Wanting, CallsSpareRoot
  <2>2. EnsureCreate(Watcher)
    BY <1>8 DEF ManagerStep, EnsureGet, DeleteCall, ReconcileStep, ReconcileList,
                ReconcileDelete, ReconcileCreate, RootGet, RootWrite
  <2>3. routes' = Created(n, target[Watcher])
    BY <1>6, <1>8, <2>2 DEF EnsureCreate, Write, Error
  <2>4. n \in Present'
    BY <1>1, <2>1, <2>3 DEF Created, Present
  <2> QED
    BY <1>2, <1>4, <2>1, <2>4 DEF RouteRight
<1>9. CASE RouteName[target[Watcher]] = n /\ pc[Watcher] = "delete"
  <2>1. Finished(n)
    BY <1>9 DEF WatcherActsOnStore
  <2>2. DeleteCall(Watcher)
    BY <1>9 DEF ManagerStep, EnsureGet, EnsureCreate, ReconcileStep, ReconcileList,
                ReconcileDelete, ReconcileCreate, RootGet, RootWrite
  <2>3. routes' = Deleted(n)
    BY <1>6, <1>9, <2>2 DEF DeleteCall, Write, Error
  <2>4. n \notin Present'
    BY <1>1, <2>3 DEF Deleted, Present
  <2> QED
    BY <1>2, <1>4, <2>1, <2>4 DEF RouteRight
<1> QED
  BY <1>3, <1>5, <1>7, <1>8, <1>9

LEMMA RightWhenOthersStep ==
  ASSUME TypeOK, CallsInv, CallsSpareRoot, CallsNameRoutes,
         NEW c \in Callers \ {Watcher}, ManagerStep(c), Locals(Watcher)' = Locals(Watcher),
         NEW n \in RouteNames, n \notin Drifting, RouteRight(n)
  PROVE  RouteRight(n)'
<1> USE DEF TypeOK, ManagerTypeOK
<1>1. UNCHANGED <<drivers, pc[Watcher], target[Watcher]>>
  BY DEF ManagerStep, Locals
<1>2. UNCHANGED <<Wanting(n), Finished(n), Ensuring(n), Deleting(n)>>
  BY <1>1 DEF Wanting, ListRunning, Finished, Held, Ensuring, Deleting
<1>3. Wanting(n) # {} => ~Finished(n)
  BY RunningNotFinished
<1>4. CASE routes'[n] = routes[n]
  BY <1>2, <1>4 DEF RouteRight, Present
<1>5. ASSUME routes'[n] # routes[n], Moves(c) PROVE ~Outdated(c, n)
  BY <1>5 DEF Drifting, Drifts
<1>6. ASSUME Wanting(n) # {}, routes'[n] # None PROVE RouteRight(n)'
  BY <1>2, <1>3, <1>6 DEF RouteRight, Present, Routes
<1>7. ASSUME Wanting(n) = {}, routes'[n] = None PROVE RouteRight(n)'
  BY <1>2, <1>7 DEF RouteRight, Present
<1>8. CASE routes'[n] # routes[n] /\ pc[c] = "create" /\ n = RouteName[target[c]]
           /\ target[c] \in Selectors /\ routes'[n] = target[c]
  <2>1. pc'[c] = "idle"
    BY <1>8, StepPc
  <2>2. target[c] \in Wanting(n)
    BY <1>5, <1>8, <2>1 DEF Moves, Outdated, Wanting
  <2> QED
    BY <1>6, <1>8, <2>2, NoneAssumption
<1>9. CASE routes'[n] # routes[n] /\ pc[c] = "fix" /\ n \in stale[c] /\ n \notin stale'[c]
           /\ routes'[n] = None
  BY <1>5, <1>7, <1>9 DEF Moves, Outdated, CallsInv, StaleIsUnwanted
<1>10. CASE routes'[n] # routes[n] /\ pc[c] = "fix" /\ n \in missing[c] /\ n \notin missing'[c]
            /\ routes'[n] = wanted[c][n]
  <2>1. wanted[c][n] # None
    BY <1>10 DEF CallsNameRoutes
  <2> QED
    BY <1>5, <1>6, <1>10, <2>1 DEF Moves, Outdated
<1> QED
  BY <1>4, <1>8, <1>9, <1>10, RouteWrites DEF CallsInv, CallsHaveKinds

LEMMA RightStep ==
  ASSUME OwnRoutes, TypeOK, WatchInv, CallsInv, CallsSpareRoot, CallsNameRoutes,
         WatcherActsOnStore, [Next]_vars, ~Crash,
         NEW n \in RouteNames, n \notin Drifting, RouteRight(n)
  PROVE  RouteRight(n)'
<1>1. TypeOK' /\ WatchInv'
  BY NextType, WatchInvNext
<1>2. ASSUME NEW p \in PodNames, WatcherHandles(p) PROVE RouteRight(n)'
  BY <1>1, <1>2, RightWhenHandled DEF WatcherHandles
<1>3. CASE ManagerStep(Watcher)
  BY <1>3, RightWhenWatcherSteps
<1>4. CASE ~ManagerStep(Watcher) /\ ~ \E p \in PodNames : WatcherHandles(p)
  <2>1. UNCHANGED drivers /\ Locals(Watcher)' = Locals(Watcher)
    BY <1>4, WatcherStays
  <2>2. ASSUME NEW c \in Callers, ManagerStep(c) PROVE RouteRight(n)'
    BY <1>4, <2>1, <2>2, RightWhenOthersStep
  <2>3. CASE UNCHANGED routes
    BY <2>1, <2>3 DEF RouteRight, Locals, Wanting, Finished, ListRunning, Held, Ensuring,
                      Deleting, Present
  <2> QED
    BY <2>2, <2>3, OthersWriteNothing
<1> QED
  BY <1>2, <1>3, <1>4

----------------------------------------------------------------------------
(* A Reconcile makes right what is sound                                   *)

LEMMA ReconcileRight ==
  ASSUME OwnRoutes, TypeOK, WatchInv, CallsInv, CallsSpareRoot, CallsNameRoutes,
         WatcherActsOnStore, SoundIsRight, [Next]_vars,
         NEW c \in Callers, ManagerStep(c), pc[c] \in {"list", "fix"}, ~failed'[c],
         NEW n \in RouteNames, n \in StillSound(c), n \notin stale'[c] \cup missing'[c]
  PROVE  RouteRight(n)'
<1> USE DEF TypeOK, ManagerTypeOK
<1>1. UNCHANGED <<drivers, crashes>> /\ n \in Routes /\ n # RootRoute
  BY RootRouteAssumption DEF ManagerStep, Routes
<1>2. UNCHANGED <<Wanting(n), Finished(n)>>
  BY <1>1 DEF Wanting, ListRunning, Finished, Held
<1>3. Wanting(n) # {} => ~Finished(n)
  BY RunningNotFinished
<1>4. n \in sound[c] /\ n \notin Drifting
  BY DEF StillSound, Reconciling
<1>5. WantsRight(c, n)
  BY <1>4 DEF SoundIsRight
<1>6. ASSUME n \in Present' <=> wanted[c][n] # None PROVE RouteRight(n)'
  BY <1>2, <1>3, <1>5, <1>6 DEF RouteRight, WantsRight
<1>7. ASSUME RouteRight(n) PROVE RouteRight(n)'
  <2>1. ~Crash
    BY <1>1 DEF Crash, TypeOK
  <2> QED
    BY <1>4, <1>7, <2>1, RightStep
<1>8. CASE ReconcileList(c)
  <2>1. /\ stale'[c] = {x \in Present : IsStale(wanted[c], x)}
        /\ missing'[c] = {x \in RouteNames : wanted[c][x] # None /\ x \notin Present}
        /\ UNCHANGED routes
    BY <1>8 DEF ReconcileList
  <2> QED
    BY <1>1, <1>6, <2>1 DEF IsStale, Present
<1>9. CASE ReconcileDelete(c)
  <2>1. ~failed[c] /\ faults' = faults
    BY <1>9 DEF ReconcileDelete, NoteError
  <2>2. PICK m \in stale[c] : Write(Deleted(m)) /\ stale' = [stale EXCEPT ![c] = @ \ {m}]
    BY <1>9 DEF ReconcileDelete
  <2>3. pc[c] = "fix" /\ missing'[c] = missing[c]
    BY <1>9 DEF ReconcileDelete
  <2>4. CASE m = n
    <3>1. routes' = Deleted(n)
      BY <2>1, <2>2, <2>4 DEF Write, Error
    <3>2. n \notin Present' /\ wanted[c][n] = None
      BY <1>1, <2>2, <2>3, <2>4, <3>1 DEF Deleted, Present, CallsInv, StaleIsUnwanted
    <3> QED
      BY <1>6, <3>2
  <2>5. CASE m # n
    <3>1. n \notin stale[c] \cup missing[c]
      BY <2>2, <2>3, <2>5
    <3> QED
      BY <1>4, <1>7, <2>1, <2>3, <3>1 DEF SoundIsRight
  <2> QED
    BY <2>4, <2>5
<1>10. CASE ReconcileCreate(c)
  <2>1. ~failed[c] /\ faults' = faults
    BY <1>10 DEF ReconcileCreate, NoteError
  <2>2. PICK m \in missing[c] : /\ Write(Created(m, wanted[c][m]))
                                /\ missing' = [missing EXCEPT ![c] = @ \ {m}]
    BY <1>10 DEF ReconcileCreate
  <2>3. pc[c] = "fix" /\ stale'[c] = stale[c]
    BY <1>10 DEF ReconcileCreate
  <2>4. CASE m = n
    <3>1. routes' = Created(n, wanted[c][n])
      BY <2>1, <2>2, <2>4 DEF Write, Error
    <3>2. wanted[c][n] # None
      BY <2>2, <2>3, <2>4 DEF CallsNameRoutes
    <3>3. n \in Present'
      BY <1>1, <3>1, <3>2 DEF Created, Present
    <3> QED
      BY <1>6, <3>2, <3>3
  <2>5. CASE m # n
    <3>1. n \notin stale[c] \cup missing[c]
      BY <2>2, <2>3, <2>5
    <3> QED
      BY <1>4, <1>7, <2>1, <2>3, <3>1 DEF SoundIsRight
  <2> QED
    BY <2>4, <2>5
<1> QED
  BY <1>8, <1>9, <1>10
  DEF ManagerStep, ReconcileStep, EnsureGet, EnsureCreate, DeleteCall, RootGet, RootWrite

----------------------------------------------------------------------------
(* The invariant holds                                                     *)

LEMMA SoundNext ==
  ASSUME OwnRoutes, RouteInv, HNext, crashes' = crashes
  PROVE  SoundIsRight'
<1>1. TypeOK /\ [Next]_vars /\ ~Crash
  BY DEF RouteInv, HistoryTypeOK, HNext, Crash, TypeOK
<1> SUFFICES ASSUME NEW c \in Callers, NEW n \in sound'[c], pc'[c] \in {"list", "fix"}
             PROVE  /\ WantsRight(c, n)'
                    /\ pc'[c] = "fix" /\ ~failed'[c] /\ n \notin stale'[c] \cup missing'[c]
                         => RouteRight(n)'
  BY DEF SoundIsRight
<1>2. n \in StillSound(c) /\ n \in RouteNames
  BY StillSoundType DEF RouteInv, HistoryTypeOK, HNext, HistoryStep, Reconciling
<1>3. CASE /\ pc[c] \in {"idle", "synced"} /\ UNCHANGED drivers
           /\ \E w \in WantedMaps(ListRunning) : BeginReconcile(c, w)
  <2>1. PICK w \in WantedMaps(ListRunning) : BeginReconcile(c, w)
    BY <1>3
  <2>2. pc'[c] = "list" /\ wanted'[c] = w
    BY <1>1, <2>1 DEF BeginReconcile, Goto, TypeOK, ManagerTypeOK
  <2>3. n \in Routes
    BY <1>2 DEF Routes
  <2>4. IF Wanting(n) = {} THEN w[n] = None ELSE w[n] \in Wanting(n)
    BY <2>1, <2>3 DEF WantedMaps, Wanting
  <2>5. None \notin Wanting(n)
    BY <1>1, HeldLabel, NoneAssumption DEF Wanting, ListRunning, RouteInv, WatchInv
  <2>6. Wanting(n)' = Wanting(n)
    BY <1>3 DEF Wanting, ListRunning, Held
  <2> QED
    BY <2>2, <2>4, <2>5, <2>6 DEF WantsRight
<1>4. ASSUME Reconciling(c), pc[c] # "returned", wanted'[c] = wanted[c]
      PROVE  WantsRight(c, n)' /\ n \in sound[c] /\ n \notin Drifting
  <2>1. n \in sound[c] /\ n \notin Drifting /\ Wanting(n)' = Wanting(n)
    BY <1>2, <1>4 DEF StillSound
  <2> QED
    BY <1>4, <2>1 DEF RouteInv, SoundIsRight, WantsRight, Reconciling
<1>5. CASE Locals(c)' = Locals(c)
  <2>1. /\ pc'[c] = pc[c] /\ wanted'[c] = wanted[c] /\ failed'[c] = failed[c]
        /\ stale'[c] = stale[c] /\ missing'[c] = missing[c]
    BY <1>5 DEF Locals
  <2>2. WantsRight(c, n)' /\ n \in sound[c] /\ n \notin Drifting
    BY <1>4, <2>1 DEF Reconciling
  <2>3. ASSUME RouteRight(n) PROVE RouteRight(n)'
    BY <1>1, <1>2, <2>2, <2>3, RightStep DEF RouteInv
  <2> QED
    BY <2>1, <2>2, <2>3 DEF RouteInv, SoundIsRight
<1>6. CASE ManagerStep(c) /\ pc[c] \in {"list", "fix"} /\ wanted'[c] = wanted[c]
  <2>1. WantsRight(c, n)'
    BY <1>4, <1>6 DEF Reconciling
  <2> QED
    BY <1>1, <1>2, <1>6, <2>1, ReconcileRight DEF RouteInv
<1> QED
  BY <1>1, <1>3, <1>5, <1>6, ReconcilePc DEF RouteInv

LEMMA NoDriftNext ==
  ASSUME OwnRoutes, RouteInv, HNext, crashes' = crashes
  PROVE  NoDriftIsRight'
<1>1. TypeOK /\ [Next]_vars /\ ~Crash
  BY DEF RouteInv, HistoryTypeOK, HNext, Crash, TypeOK
<1> SUFFICES ASSUME NEW n \in RouteNames, n \notin drift' PROVE RouteRight(n)'
  BY DEF NoDriftIsRight
<1>2. CASE n \notin drift \cup Drifting
  BY <1>1, <1>2, RightStep DEF RouteInv, NoDriftIsRight
<1>3. CASE \E c \in Callers : Succeeds(c) /\ n \in StillSound(c)
  <2>1. PICK c \in Callers : Succeeds(c) /\ n \in StillSound(c)
    BY <1>3
  <2>2. ManagerStep(c) /\ pc[c] \in {"list", "fix"} /\ ~failed'[c] /\ pc'[c] = "returned"
    BY <1>1, <2>1, ReconcilePc DEF RouteInv, Succeeds, Reconciling, Locals
  <2>3. stale'[c] = {} /\ missing'[c] = {}
    BY <1>1, <2>2, ReturnsDone
  <2> QED
    BY <1>1, <2>1, <2>2, <2>3, ReconcileRight DEF RouteInv
<1> QED
  BY <1>2, <1>3 DEF HNext, HistoryStep

LEMMA RouteInvInit == HInit => RouteInv
<1> SUFFICES ASSUME HInit PROVE RouteInv
  OBVIOUS
<1>1. HistoryTypeOK /\ CallsSpareRoot /\ CallsNameRoutes
  BY BoardInit
<1>2. WatchInv /\ CallsInv /\ RoutesNamed
  BY WatchInvInit, CallsInvInit, RoutesNamedInit DEF HInit
<1>3. WatcherActsOnStore
  BY CallersElements, CallersAssumption DEF HInit, Init, CallsInit, WatcherActsOnStore
<1>4. SoundIsRight /\ NoDriftIsRight
  BY DEF HInit, HistoryInit, SoundIsRight, NoDriftIsRight
<1> QED
  BY <1>1, <1>2, <1>3, <1>4 DEF RouteInv

LEMMA RouteInvNext == OwnRoutes /\ RouteInv /\ [HNext]_hvars => RouteInv'
<1> SUFFICES ASSUME OwnRoutes, RouteInv, [HNext]_hvars PROVE RouteInv'
  OBVIOUS
<1>1. [Next]_vars
  BY DEF HNext, hvars
<1>2. HistoryTypeOK' /\ CallsSpareRoot' /\ CallsNameRoutes' /\ RoutesNamed'
  BY <1>1, HistoryNextType, SpareNext, NamesNext, RoutesNamedNext DEF RouteInv, HistoryTypeOK
<1>3. WatchInv' /\ CallsInv' /\ WatcherActsOnStore'
  BY <1>1, WatchInvNext, CallsInvNext, ActsOnStoreNext DEF RouteInv, HistoryTypeOK
<1>4. CASE UNCHANGED hvars
  <2>1. SoundIsRight' /\ NoDriftIsRight'
    BY <1>4 DEF RouteInv, SoundIsRight, NoDriftIsRight, WantsRight, RouteRight, Wanting,
       Finished, Ensuring, Deleting, ListRunning, Held, Present, hvars, vars, managerVars, callVars
  <2> QED
    BY <1>2, <1>3, <2>1 DEF RouteInv
<1>5. CASE HNext /\ crashes' # crashes
  <2>1. drift' = RouteNames /\ sound' = [c \in Callers |-> {}]
    BY <1>5 DEF HNext, HistoryStep
  <2>2. SoundIsRight' /\ NoDriftIsRight'
    BY <2>1 DEF SoundIsRight, NoDriftIsRight
  <2> QED
    BY <1>2, <1>3, <2>2 DEF RouteInv
<1>6. CASE HNext /\ crashes' = crashes
  BY <1>2, <1>3, <1>6, SoundNext, NoDriftNext DEF RouteInv
<1> QED
  BY <1>4, <1>5, <1>6

----------------------------------------------------------------------------
(* The theorems                                                            *)

\* With routes of their own for the applications, a driver that the store says is
\* Running has its route, but for the routes that have drifted since the last
\* Reconcile that mended them (watcher.go, httproute.go Reconcile).
THEOREM RunningDriversHaveRoutes ==
  ASSUME OwnRoutes PROVE HSpec => []RunningDriverHasRoute
<1>1. RouteInv => RunningDriverHasRoute
  <2> SUFFICES ASSUME RouteInv, NEW n \in RouteNames \ drift, NEW s \in Wanting(n), ~Ensuring(n)
               PROVE  routes[n] \in Wanting(n)
    BY DEF RunningDriverHasRoute
  <2>1. routes[n] \in Selectors /\ RouteName[routes[n]] = n
    BY DEF RouteInv, NoDriftIsRight, RouteRight, RoutesNamed, Present
  <2>2. s \in Selectors /\ RouteName[s] = n
    BY HeldLabel DEF Wanting, ListRunning, RouteInv, WatchInv, HistoryTypeOK
  <2> QED
    BY <2>1, <2>2 DEF OwnRoutes
<1> QED
  BY <1>1, RouteInvInit, RouteInvNext, PTL DEF HSpec

\* Under the same condition and with the same exception, a driver that is finished,
\* or gone from the store, has no route.
THEOREM FinishedDriversHaveNoRoutes ==
  ASSUME OwnRoutes PROVE HSpec => []FinishedDriverHasNoRoute
<1>1. RouteInv => FinishedDriverHasNoRoute
  BY DEF RouteInv, NoDriftIsRight, RouteRight, Finished, FinishedDriverHasNoRoute
<1> QED
  BY <1>1, RouteInvInit, RouteInvNext, PTL DEF HSpec

----------------------------------------------------------------------------
(* A restart takes no route away                                           *)

\* A reconcile request that does not wait for the first sync.
EarlyReconcile == pc[Syncer] = "waiting" /\ \E r \in Requests : ReconcileRequest(r)

\* A driver that has been Running since before the process started.
SteadyDriver(p) == /\ p \in steady
                   /\ pods[p] # None /\ pods[p].phase = "Running" /\ IsSparkDriver(pods[p])

SyncedIsHandled == pc[Syncer] # "waiting" => unsynced = {}

\* All the informer has of a steady pod is the pod as it is, and once it has handled
\* the first list, so has the store.
SteadyIsKnown ==
  \A p \in PodNames : SteadyDriver(p) =>
    /\ \A i \in 1 .. Len(deltas[p]) : deltas[p][i] = Now(pods[p])
    /\ p \notin unsynced => drivers[p] = DriverOf(pods[p])

SteadyIsWanted ==
  \A p \in PodNames : SteadyDriver(p) =>
    /\ ~Deleting(RouteName[pods[p].sel])
    /\ \A c \in Callers : pc[c] \in {"list", "fix"} => wanted[c][RouteName[pods[p].sel]] # None

SteadyInv == SyncedIsHandled /\ SteadyIsKnown /\ SteadyIsWanted

LEMMA SteadyType ==
  ASSUME HistoryTypeOK, WatchInv, NEW p \in PodNames, SteadyDriver(p)
  PROVE  /\ pods[p] \in Pod /\ pods[p].sel \in Selectors \cap LabelOf[p]
         /\ RouteName[pods[p].sel] \in RouteNames
         /\ DriverOf(pods[p]).state = "Running" /\ DriverOf(pods[p]).sel = pods[p].sel
BY RouteNameAssumption
DEF SteadyDriver, HistoryTypeOK, TypeOK, WatchTypeOK, Pod, IsSparkDriver, WatchInv, KeepsLabels,
    Existing, DriverOf, StateOf

LEMMA SyncedNext ==
  ASSUME TypeOK, SyncedIsHandled, [Next]_vars, ~Crash
  PROVE  SyncedIsHandled'
<1>1. CASE UNCHANGED <<drivers, managerVars, unsynced, crashes>>
  BY <1>1 DEF SyncedIsHandled, managerVars, callVars
<1>2. ASSUME unsynced' \subseteq unsynced, pc'[Syncer] = pc[Syncer] PROVE SyncedIsHandled'
  BY <1>2 DEF SyncedIsHandled
<1>3. ASSUME unsynced' \subseteq unsynced, pc[Syncer] # "waiting" PROVE SyncedIsHandled'
  BY <1>3 DEF SyncedIsHandled
<1>4. Syncer \in Callers /\ Syncer # Watcher
  BY CallersElements, CallersAssumption
<1>5. ASSUME NEW c \in Callers \ {Syncer}, Locals(Syncer)' = Locals(Syncer)
      PROVE  pc'[Syncer] = pc[Syncer]
  BY <1>5 DEF Locals
<1>6. ASSUME NEW p \in PodNames, WatcherHandles(p) PROVE SyncedIsHandled'
  <2>1. unsynced' \subseteq unsynced /\ HandleDelta(p)
    BY <1>6 DEF WatcherHandles, HandleDelta
  <2>2. CASE NoCall
    BY <1>2, <2>1, <2>2 DEF NoCall, managerVars, callVars
  <2>3. CASE \E s : BeginEnsure(Watcher, s) \/ BeginDelete(Watcher, s)
    <3>1. \A d \in Callers \ {Watcher} : Locals(d)' = Locals(d)
      BY <2>3, OthersStay, CallersElements
    <3> QED
      BY <1>2, <1>4, <2>1, <3>1 DEF Locals
  <2> QED
    BY <2>1, <2>2, <2>3, HandlerCases
<1>7. ASSUME NEW c \in Callers, ManagerStep(c) PROVE SyncedIsHandled'
  <2>1. unsynced' = unsynced
    BY <1>7 DEF ManagerStep, watchVars
  <2>2. CASE c = Syncer
    BY <1>3, <1>7, <2>1, <2>2, StepPc
  <2>3. CASE c # Syncer
    <3>1. Locals(Syncer)' = Locals(Syncer)
      BY <1>4, <1>7, <2>3, OthersStay
    <3> QED
      BY <1>2, <2>1, <3>1 DEF Locals
  <2> QED
    BY <2>2, <2>3
<1>8. CASE Synced
  BY <1>8 DEF Synced, SyncedIsHandled, watchVars
<1>9. ASSUME NEW c \in Callers, UNCHANGED watchVars,
             c = Syncer => pc[c] # "waiting",
             \/ \E w : BeginReconcile(c, w)
             \/ \E s : BeginEnsure(c, s)
             \/ \E l : Return(c, l)
      PROVE  SyncedIsHandled'
  <2>1. unsynced' = unsynced
    BY <1>9 DEF watchVars
  <2>2. CASE c = Syncer
    BY <1>3, <1>9, <2>1, <2>2
  <2>3. CASE c # Syncer
    <3>1. Locals(Syncer)' = Locals(Syncer)
      BY <1>4, <1>9, <2>3, OthersStay
    <3> QED
      BY <1>2, <2>1, <3>1 DEF Locals
  <2> QED
    BY <2>2, <2>3
<1> QED
  BY <1>1, <1>6, <1>7, <1>8, <1>9, StepCases, CallersAssumption

LEMMA SteadyKnownStep ==
  ASSUME HistoryTypeOK, TypeOK', WatchInv, SteadyIsKnown, [Next]_vars, ~Crash,
         NEW p \in PodNames, SteadyDriver(p), pods'[p] = pods[p]
  PROVE  /\ \A i \in 1 .. Len(deltas'[p]) : deltas'[p][i] = Now(pods[p])
         /\ p \notin unsynced' => drivers'[p] = DriverOf(pods[p])
<1>1. TypeOK /\ pods[p] # None /\ IsSparkDriver(pods[p]) /\ Len(deltas[p]) \in Nat
  BY DeltasType DEF HistoryTypeOK, SteadyDriver
<1>2. /\ \A i \in 1 .. Len(deltas[p]) : deltas[p][i] = Now(pods[p])
      /\ p \notin unsynced => drivers[p] = DriverOf(pods[p])
  BY DEF SteadyIsKnown
<1>3. CASE UNCHANGED <<drivers, unsynced>> /\ Requeued(p)
  <2>1. PICK k \in 0 .. Len(deltas[p]) :
          /\ \A i \in 1 .. k : deltas'[p][i] = deltas[p][i]
          /\ \/ Len(deltas'[p]) = k
             \/ Len(deltas'[p]) = k + 1 /\ MayFollow(p, k, deltas'[p][k + 1])
    BY <1>3 DEF Requeued
  <2>2. \A i \in 1 .. k : deltas'[p][i] = Now(pods[p])
    BY <1>1, <1>2, <2>1
  <2>3. CASE Len(deltas'[p]) = k
    BY <1>2, <1>3, <2>2, <2>3
  <2>4. CASE Len(deltas'[p]) = k + 1 /\ MayFollow(p, k, deltas'[p][k + 1])
    <3>1. deltas'[p] \in Seq(Delta)
      BY DEF TypeOK, WatchTypeOK
    <3>2. deltas'[p][k + 1] \in Delta
      BY <2>1, <2>4, <3>1
    <3>3. After(deltas'[p][k + 1]) = pods[p]
      BY <2>4 DEF MayFollow
    <3>4. deltas'[p][k + 1] = Now(pods[p])
      BY <1>1, <3>2, <3>3 DEF After, Delta, Now
    <3>5. \A i \in 1 .. k + 1 : i \in 1 .. k \/ i = k + 1
      BY <2>1
    <3> QED
      BY <1>2, <1>3, <2>2, <2>4, <3>4, <3>5
  <2> QED
    BY <2>1, <2>3, <2>4
<1>4. ASSUME HandleDelta(p)
      PROVE  /\ \A i \in 1 .. Len(deltas'[p]) : deltas'[p][i] = Now(pods[p])
             /\ drivers'[p] = DriverOf(pods[p])
  <2>1. /\ Head(deltas[p]) = deltas[p][1] /\ 1 \in 1 .. Len(deltas[p])
        /\ Len(deltas'[p]) = Len(deltas[p]) - 1
        /\ \A i \in 1 .. Len(deltas'[p]) : deltas'[p][i] = deltas[p][i + 1]
    BY <1>1, <1>4, HandledQueue
  <2>2. Head(deltas[p]).pod = pods[p] /\ ~Head(deltas[p]).gone
    BY <1>2, <2>1 DEF Now
  <2>3. Add(p, DriverOf(pods[p]))
    BY <1>1, <1>4, <2>2, HandlerCases
  <2>4. drivers'[p] = DriverOf(pods[p])
    BY <1>1, <2>3 DEF Add, TypeOK, StoreTypeOK
  <2>5. \A i \in 1 .. Len(deltas'[p]) : i + 1 \in 1 .. Len(deltas[p])
    BY <1>1, <2>1
  <2> QED
    BY <1>2, <2>1, <2>4, <2>5
<1>5. ASSUME NEW q \in PodNames \ {p}, HandleDelta(q)
      PROVE  /\ \A i \in 1 .. Len(deltas'[p]) : deltas'[p][i] = Now(pods[p])
             /\ p \notin unsynced' => drivers'[p] = DriverOf(pods[p])
  <2>1. deltas'[p] = deltas[p]
    BY <1>1, <1>5, HandledQueue
  <2>2. drivers'[p] = drivers[p]
    BY <1>1, <1>5, HandlerEffect
  <2>3. unsynced' = unsynced \ {q}
    BY <1>5 DEF HandleDelta
  <2> QED
    BY <1>2, <2>1, <2>2, <2>3
<1> QED
  BY <1>1, <1>3, <1>4, <1>5, StepQueues DEF WatcherHandles

\* A handler deletes only the route of a pod that is gone or has terminated.
LEMMA SteadyNotDeleted ==
  ASSUME OwnRoutes, HistoryTypeOK, TypeOK', WatchInv, SteadyIsKnown, SteadyIsWanted,
         [Next]_vars, ~Crash, NEW p \in PodNames, SteadyDriver(p)
  PROVE  pc'[Watcher] = "delete" => RouteName[target'[Watcher]] # RouteName[pods[p].sel]
<1>1. TypeOK /\ Watcher \in Callers
  BY CallersElements DEF HistoryTypeOK
<1>2. pods[p].sel \in Selectors \cap LabelOf[p]
  BY SteadyType
<1>3. pc[Watcher] = "delete" => RouteName[target[Watcher]] # RouteName[pods[p].sel]
  BY DEF SteadyIsWanted, Deleting
<1>4. ASSUME HandleDelta(p)
      PROVE  drivers'[p] # None /\ drivers'[p].state = "Running"
  <2>1. pods'[p] = pods[p] /\ p \notin unsynced'
    BY <1>4 DEF HandleDelta
  <2>2. drivers'[p] = DriverOf(pods[p])
    BY <2>1, SteadyKnownStep
  <2>3. DriverOf(pods[p]) \in Driver
    BY <1>2, SteadyType, DriverOfType DEF SteadyDriver
  <2> QED
    BY <2>2, <2>3, SteadyType, NoneAssumption
<1>5. ASSUME NEW q \in PodNames, HandleDelta(q), NEW s \in Selectors \cap LabelOf[q],
             BeginDelete(Watcher, s), drivers'[q] # None => drivers'[q].state \in Terminal
      PROVE  pc'[Watcher] = "delete" => RouteName[target'[Watcher]] # RouteName[pods[p].sel]
  <2>1. target'[Watcher] = s
    BY <1>1, <1>5 DEF BeginDelete, TypeOK, ManagerTypeOK
  <2>2. RouteName[s] = RouteName[pods[p].sel] => q = p
    BY <1>2, <1>5 DEF OwnRoutes
  <2>3. q # p
    BY <1>4, <1>5 DEF Terminal
  <2> QED
    BY <2>1, <2>2, <2>3
<1>6. ASSUME NEW q \in PodNames, WatcherHandles(q)
      PROVE  pc'[Watcher] = "delete" => RouteName[target'[Watcher]] # RouteName[pods[p].sel]
  <2>1. HandleDelta(q)
    BY <1>6 DEF WatcherHandles
  <2>2. CASE UNCHANGED <<pc, target>>
    BY <1>3, <2>2
  <2>3. CASE drivers[q] # None /\ drivers'[q] = None /\ BeginDelete(Watcher, drivers[q].sel)
    <3>1. drivers[q].sel \in Selectors \cap LabelOf[q]
      BY <1>1, <2>3, HeldLabel DEF Held, WatchInv
    <3> QED
      BY <1>5, <2>1, <2>3, <3>1
  <2>4. ASSUME NEW s, BeginEnsure(Watcher, s) PROVE pc'[Watcher] # "delete"
    BY <1>1, <2>4 DEF BeginEnsure, Goto, TypeOK, ManagerTypeOK
  <2>5. ASSUME NEW dr \in Driver, dr.sel \in LabelOf[q], drivers'[q] = dr,
               dr.state \in Terminal, BeginDelete(Watcher, dr.sel)
        PROVE  pc'[Watcher] = "delete" => RouteName[target'[Watcher]] # RouteName[pods[p].sel]
    BY <1>5, <2>1, <2>5 DEF Driver
  <2> QED
    BY <1>1, <2>1, <2>2, <2>3, <2>4, <2>5, HandlerEffect
<1>7. CASE ManagerStep(Watcher)
  BY <1>1, <1>7, StepPc
<1>8. CASE Locals(Watcher)' = Locals(Watcher)
  BY <1>3, <1>8 DEF Locals
<1> QED
  BY <1>1, <1>6, <1>7, <1>8, WatcherStays

\* A Reconcile that begins after the first sync finds the driver in the store.
LEMMA SteadyStaysWanted ==
  ASSUME HistoryTypeOK, WatchInv, CallsInv, SyncedIsHandled, SteadyIsKnown, SteadyIsWanted,
         [Next]_vars, ~Crash, ~EarlyReconcile, NEW p \in PodNames, SteadyDriver(p),
         NEW c \in Callers, pc'[c] \in {"list", "fix"}
  PROVE  wanted'[c][RouteName[pods[p].sel]] # None
<1>1. TypeOK
  BY DEF HistoryTypeOK
<1>2. pc[c] \in {"list", "fix"} => wanted[c][RouteName[pods[p].sel]] # None
  BY DEF SteadyIsWanted
<1>3. CASE Locals(c)' = Locals(c)
  BY <1>2, <1>3 DEF Locals
<1>4. CASE pc[c] \in {"list", "fix"} /\ wanted'[c] = wanted[c]
  BY <1>2, <1>4
<1>5. CASE /\ \/ c = Syncer /\ pc[c] = "synced"
              \/ c \in Requests /\ ReconcileRequest(c)
           /\ \E w \in WantedMaps(ListRunning) : BeginReconcile(c, w)
  <2>1. PICK w \in WantedMaps(ListRunning) : BeginReconcile(c, w)
    BY <1>5
  <2>2. wanted'[c] = w
    BY <1>1, <2>1 DEF BeginReconcile, TypeOK, ManagerTypeOK
  <2>3. pc[Syncer] # "waiting"
    BY <1>5 DEF EarlyReconcile
  <2>4. drivers[p] = DriverOf(pods[p])
    BY <2>3 DEF SyncedIsHandled, SteadyIsKnown
  <2>5. DriverOf(pods[p]) \in Driver
    BY SteadyType, DriverOfType DEF SteadyDriver
  <2>6. pods[p].sel \in ListRunning /\ RouteName[pods[p].sel] \in Routes
    BY <2>4, <2>5, SteadyType, NoneAssumption DEF ListRunning, Held, Routes
  <2>7. w[RouteName[pods[p].sel]] \in ListRunning
    BY <2>1, <2>6 DEF WantedMaps
  <2>8. None \notin ListRunning
    BY <1>1, HeldLabel, NoneAssumption DEF ListRunning, WatchInv
  <2> QED
    BY <2>2, <2>7, <2>8
<1> QED
  BY <1>1, <1>3, <1>4, <1>5, ReconcilePc

LEMMA SteadyInit == HInit => SteadyInv
<1> SUFFICES ASSUME HInit PROVE SteadyInv
  OBVIOUS
<1> USE DEF HInit, Init, WatchInit, CallsInit
<1>1. SyncedIsHandled
  BY CallersElements DEF SyncedIsHandled
<1>2. SteadyIsKnown
  <2> SUFFICES ASSUME NEW p \in PodNames, pods[p] # None
               PROVE  /\ \A i \in 1 .. Len(deltas[p]) : deltas[p][i] = Now(pods[p])
                      /\ p \in unsynced
    BY DEF SteadyIsKnown, SteadyDriver
  <2>1. deltas[p] = <<Now(pods[p])>> /\ p \in unsynced
    BY DEF FirstList, Existing
  <2> QED
    BY <2>1
<1>3. SteadyIsWanted
  BY CallersElements DEF SteadyIsWanted, Deleting
<1> QED
  BY <1>1, <1>2, <1>3 DEF SteadyInv

LEMMA SteadyNext ==
  OwnRoutes /\ RouteInv /\ SteadyInv /\ [HNext /\ ~EarlyReconcile]_hvars => SteadyInv'
<1> SUFFICES ASSUME OwnRoutes, RouteInv, SteadyInv, [HNext /\ ~EarlyReconcile]_hvars
             PROVE  SteadyInv'
  OBVIOUS
<1>1. HistoryTypeOK /\ TypeOK /\ WatchInv /\ CallsInv /\ [Next]_vars
  BY DEF RouteInv, HistoryTypeOK, HNext, hvars
<1>2. TypeOK'
  BY <1>1, NextType
<1> USE DEF SteadyInv
<1>3. CASE UNCHANGED hvars
  BY <1>3 DEF hvars, vars, managerVars, callVars, watchVars, SyncedIsHandled, SteadyIsKnown,
              SteadyIsWanted, SteadyDriver, Deleting
<1>4. CASE HNext /\ Crash
  <2>1. /\ UNCHANGED pods /\ deltas' = FirstList /\ unsynced' = Existing
        /\ pc' = [c \in Callers |-> IF c = Syncer THEN "waiting" ELSE "idle"]
    BY <1>4 DEF Crash, WatchRestart
  <2>2. SyncedIsHandled'
    BY <2>1, CallersElements DEF SyncedIsHandled
  <2>3. SteadyIsKnown'
    <3> SUFFICES ASSUME NEW p \in PodNames, pods[p] # None
                 PROVE  /\ \A i \in 1 .. Len(deltas'[p]) : deltas'[p][i] = Now(pods[p])
                        /\ p \in unsynced'
      BY <2>1 DEF SteadyIsKnown, SteadyDriver
    <3>1. deltas'[p] = <<Now(pods[p])>> /\ p \in unsynced'
      BY <2>1 DEF FirstList, Existing
    <3> QED
      BY <3>1
  <2>4. SteadyIsWanted'
    BY <2>1, CallersElements DEF SteadyIsWanted, Deleting
  <2> QED
    BY <2>2, <2>3, <2>4
<1>5. CASE HNext /\ ~Crash /\ ~EarlyReconcile
  <2>1. crashes' = crashes
    BY <1>1, <1>5, StepCases
    DEF managerVars, WatcherHandles, ManagerStep, Synced, ReconcileStep
  <2>2. SyncedIsHandled'
    BY <1>1, <1>5, SyncedNext
  <2>3. ASSUME NEW p \in PodNames, SteadyDriver(p)'
        PROVE  SteadyDriver(p) /\ pods'[p] = pods[p]
    BY <1>5, <2>1, <2>3 DEF HNext, HistoryStep, SteadyDriver
  <2>4. SteadyIsKnown'
    <3> SUFFICES ASSUME NEW p \in PodNames, SteadyDriver(p)'
                 PROVE  /\ \A i \in 1 .. Len(deltas'[p]) : deltas'[p][i] = Now(pods'[p])
                        /\ p \notin unsynced' => drivers'[p] = DriverOf(pods'[p])
      BY DEF SteadyIsKnown
    <3> QED
      BY <1>1, <1>2, <1>5, <2>3, SteadyKnownStep
  <2>5. SteadyIsWanted'
    <3> SUFFICES ASSUME NEW p \in PodNames, SteadyDriver(p)'
                 PROVE  /\ pc'[Watcher] = "delete"
                             => RouteName[target'[Watcher]] # RouteName[pods'[p].sel]
                        /\ \A c \in Callers : pc'[c] \in {"list", "fix"}
                             => wanted'[c][RouteName[pods'[p].sel]] # None
      BY DEF SteadyIsWanted, Deleting
    <3> QED
      BY <1>1, <1>2, <1>5, <2>3, SteadyNotDeleted, SteadyStaysWanted
  <2> QED
    BY <2>2, <2>4, <2>5
<1> QED
  BY <1>3, <1>4, <1>5

LEMMA SteadyKeepsRoute ==
  ASSUME RouteInv, SteadyInv, [Next]_vars, NEW p \in PodNames, SteadyDriver(p),
         routes[RouteName[pods[p].sel]] = pods[p].sel
  PROVE  routes'[RouteName[pods[p].sel]] = pods[p].sel
<1> PICK n : n = RouteName[pods[p].sel]
  OBVIOUS
<1>1. HistoryTypeOK /\ TypeOK /\ CallsInv /\ CallsSpareRoot /\ WatchInv
  BY DEF RouteInv, HistoryTypeOK
<1>2. n \in RouteNames /\ routes[n] = pods[p].sel /\ routes[n] # None
  BY <1>1, SteadyType, NoneAssumption
<1>3. /\ pc[Watcher] = "delete" => RouteName[target[Watcher]] # n
      /\ \A c \in Callers : pc[c] \in {"list", "fix"} => wanted[c][n] # None
  BY DEF SteadyInv, SteadyIsWanted, Deleting
<1>4. ASSUME NEW c \in Callers, ManagerStep(c) PROVE routes'[n] = routes[n]
  BY <1>1, <1>2, <1>3, <1>4, RouteWrites DEF CallsInv, CallsHaveKinds, StaleIsUnwanted
<1> QED
  BY <1>2, <1>4, OthersWriteNothing

\* With routes of their own for the applications, and as long as nobody asks for a
\* reconcile before the first list is handled, no step takes away the route of a
\* driver that has been Running since before the process started: not the initial
\* Reconcile, which waits for the handlers (watcher.go onSynced, main.go).
THEOREM RestartsKeepRoutes ==
  ASSUME OwnRoutes PROVE HSpec /\ [][~EarlyReconcile]_hvars => RestartKeepsRoutes
<1>1. HInit => RouteInv /\ SteadyInv
  BY RouteInvInit, SteadyInit
<1>2. RouteInv /\ SteadyInv /\ [HNext]_hvars /\ [~EarlyReconcile]_hvars
        => RouteInv' /\ SteadyInv'
  BY RouteInvNext, SteadyNext
<1>3. RouteInv /\ SteadyInv /\ [HNext]_hvars
        => [\A p \in steady :
              /\ pods[p] # None /\ pods[p].phase = "Running" /\ IsSparkDriver(pods[p])
              /\ routes[RouteName[pods[p].sel]] = pods[p].sel
              => routes'[RouteName[pods[p].sel]] = pods[p].sel]_hvars
  <2> SUFFICES ASSUME RouteInv, SteadyInv, [HNext]_hvars, NEW p \in steady,
                      pods[p] # None, pods[p].phase = "Running", IsSparkDriver(pods[p]),
                      routes[RouteName[pods[p].sel]] = pods[p].sel
               PROVE  routes'[RouteName[pods[p].sel]] = pods[p].sel
    OBVIOUS
  <2>1. [Next]_vars /\ p \in PodNames /\ SteadyDriver(p)
    BY DEF HNext, hvars, RouteInv, HistoryTypeOK, SteadyDriver
  <2> QED
    BY <2>1, SteadyKeepsRoute
<1> QED
  BY <1>1, <1>2, <1>3, PTL DEF HSpec, RestartKeepsRoutes

=============================================================================
