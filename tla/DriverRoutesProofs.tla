------------------------- MODULE DriverRoutesProofs -------------------------
(***************************************************************************)
(* Proofs about DriverRoutes, for any numbers of pods, applications,       *)
(* requests, faults and crashes: type correctness, and what the goroutines' *)
(* calls on the Manager do to each other and to the routes.                *)
(***************************************************************************)
EXTENDS DriverRoutes, SequenceTheorems, TLAPS

----------------------------------------------------------------------------
(* Type correctness: the Manager's steps                                   *)

LEMMA GotoType ==
  ASSUME pc \in [Callers -> Labels], NEW c \in Callers, NEW l \in Labels, Goto(c, l)
  PROVE  pc' \in [Callers -> Labels]
BY DEF Goto

LEMMA WantNothingType == WantNothing \in [Routes -> Selectors \cup {None}]
BY DEF WantNothing

LEMMA ReturnType ==
  ASSUME ManagerTypeOK, NEW c \in Callers, NEW l \in Labels, Return(c, l)
  PROVE  /\ pc' \in [Callers -> Labels]
         /\ target' \in [Callers -> Selectors \cup {None}]
         /\ wanted' \in [Callers -> [Routes -> Selectors \cup {None}]]
         /\ stale' \in [Callers -> SUBSET Routes]
         /\ missing' \in [Callers -> SUBSET RouteNames]
         /\ failed' \in [Callers -> BOOLEAN]
BY WantNothingType DEF ManagerTypeOK, Return, Goto

\* One request to the API server.
LEMMA AnswerType ==
  ASSUME ManagerTypeOK, Answer \/ Error
  PROVE  faults' \in 0 .. MaxFaults
BY MaxFaultsAssumption DEF ManagerTypeOK, Answer, Error

LEMMA CreatedType ==
  ASSUME ManagerTypeOK, NEW n, NEW s \in Selectors \cup {None}
  PROVE  Created(n, s) \in [Routes -> Selectors \cup {Fallback, None}]
BY DEF ManagerTypeOK, Created

LEMMA DeletedType ==
  ASSUME ManagerTypeOK, NEW n
  PROVE  Deleted(n) \in [Routes -> Selectors \cup {Fallback, None}]
BY DEF ManagerTypeOK, Deleted

LEMMA WriteType ==
  ASSUME ManagerTypeOK, NEW r \in [Routes -> Selectors \cup {Fallback, None}],
         Write(r)
  PROVE  /\ routes' \in [Routes -> Selectors \cup {Fallback, None}]
         /\ faults' \in 0 .. MaxFaults
<1>1. Answer \/ Error
  BY DEF Write
<1>2. routes' \in {routes, r}
  BY DEF Write
<1> QED
  BY <1>1, <1>2, AnswerType DEF ManagerTypeOK

LEMMA AfterFixType == \A s, m : AfterFix(s, m) \in Labels
BY DEF AfterFix, Labels

LEMMA EnsureGetType ==
  ASSUME ManagerTypeOK, NEW c \in Callers, EnsureGet(c)
  PROVE  ManagerTypeOK'
<1>1. faults' \in 0 .. MaxFaults
  BY AnswerType DEF EnsureGet
<1>2. routes' = routes
  BY DEF EnsureGet
<1>3. CASE Return(c, "idle")
  BY <1>1, <1>2, <1>3, ReturnType DEF ManagerTypeOK, Labels
<1>4. CASE Goto(c, "create") /\ UNCHANGED <<target, wanted, stale, missing, failed>>
  BY <1>1, <1>2, <1>4, GotoType DEF ManagerTypeOK, Labels
<1> QED
  BY <1>3, <1>4 DEF EnsureGet

LEMMA EnsureCreateType ==
  ASSUME ManagerTypeOK, NEW c \in Callers, EnsureCreate(c)
  PROVE  ManagerTypeOK'
<1>1. Created(RouteName[target[c]], target[c])
        \in [Routes -> Selectors \cup {Fallback, None}]
  BY CreatedType DEF ManagerTypeOK
<1> QED
  BY <1>1, WriteType, ReturnType DEF EnsureCreate, ManagerTypeOK, Labels

LEMMA DeleteCallType ==
  ASSUME ManagerTypeOK, NEW c \in Callers, DeleteCall(c)
  PROVE  ManagerTypeOK'
BY DeletedType, WriteType, ReturnType DEF DeleteCall, ManagerTypeOK, Labels

LEMMA ReconcileListType ==
  ASSUME ManagerTypeOK, NEW c \in Callers, ReconcileList(c)
  PROVE  ManagerTypeOK'
<1>1. faults' \in 0 .. MaxFaults
  BY AnswerType DEF ReconcileList
<1>2. UNCHANGED <<routes, target, wanted>>
  BY DEF ReconcileList
<1>3. pc' \in [Callers -> Labels]
  BY AfterFixType DEF ReconcileList, ManagerTypeOK, Goto, Labels
<1>4. /\ stale' \in [Callers -> SUBSET Routes]
      /\ missing' \in [Callers -> SUBSET RouteNames]
      /\ failed' \in [Callers -> BOOLEAN]
  BY DEF ReconcileList, ManagerTypeOK, Present
<1> QED
  BY <1>1, <1>2, <1>3, <1>4 DEF ManagerTypeOK

LEMMA ReconcileDeleteType ==
  ASSUME ManagerTypeOK, NEW c \in Callers, ReconcileDelete(c)
  PROVE  ManagerTypeOK'
<1>1. PICK n \in stale[c] :
        /\ Write(Deleted(n))
        /\ stale' = [stale EXCEPT ![c] = @ \ {n}]
        /\ Goto(c, AfterFix(stale[c] \ {n}, missing[c]))
  BY DEF ReconcileDelete
<1>2. /\ routes' \in [Routes -> Selectors \cup {Fallback, None}]
      /\ faults' \in 0 .. MaxFaults
  BY <1>1, DeletedType, WriteType
<1>3. pc' \in [Callers -> Labels]
  BY <1>1, AfterFixType, GotoType DEF ManagerTypeOK
<1>4. failed' \in [Callers -> BOOLEAN]
  BY DEF ReconcileDelete, NoteError, ManagerTypeOK
<1> QED
  BY <1>1, <1>2, <1>3, <1>4 DEF ReconcileDelete, ManagerTypeOK

LEMMA ReconcileCreateType ==
  ASSUME ManagerTypeOK, NEW c \in Callers, ReconcileCreate(c)
  PROVE  ManagerTypeOK'
<1>1. PICK n \in missing[c] :
        /\ Write(Created(n, wanted[c][n]))
        /\ missing' = [missing EXCEPT ![c] = @ \ {n}]
        /\ Goto(c, AfterFix({}, missing[c] \ {n}))
  BY DEF ReconcileCreate
<1>2. wanted[c][n] \in Selectors \cup {None}
  BY DEF ManagerTypeOK, Routes
<1>3. /\ routes' \in [Routes -> Selectors \cup {Fallback, None}]
      /\ faults' \in 0 .. MaxFaults
  BY <1>1, <1>2, CreatedType, WriteType
<1>4. pc' \in [Callers -> Labels]
  BY <1>1, AfterFixType, GotoType DEF ManagerTypeOK
<1>5. failed' \in [Callers -> BOOLEAN]
  BY DEF ReconcileCreate, NoteError, ManagerTypeOK
<1> QED
  BY <1>1, <1>3, <1>4, <1>5 DEF ReconcileCreate, ManagerTypeOK

LEMMA RootGetType ==
  ASSUME ManagerTypeOK, NEW c \in Callers, RootGet(c)
  PROVE  ManagerTypeOK'
BY AnswerType DEF RootGet, Goto, ManagerTypeOK, Labels

LEMMA RootWriteType ==
  ASSUME ManagerTypeOK, NEW c \in Callers, RootWrite(c)
  PROVE  ManagerTypeOK'
<1>1. [routes EXCEPT ![RootRoute] = Fallback]
        \in [Routes -> Selectors \cup {Fallback, None}]
  BY DEF ManagerTypeOK
<1> QED
  BY <1>1, WriteType DEF RootWrite, Goto, ManagerTypeOK, Labels

LEMMA ManagerStepType ==
  ASSUME ManagerTypeOK, NEW c \in Callers, ManagerStep(c)
  PROVE  ManagerTypeOK'
BY EnsureGetType, EnsureCreateType, DeleteCallType, ReconcileListType,
   ReconcileDeleteType, ReconcileCreateType, RootGetType, RootWriteType
DEF ManagerStep, ReconcileStep

LEMMA BeginEnsureType ==
  ASSUME ManagerTypeOK, NEW c \in Callers, NEW s \in Selectors, BeginEnsure(c, s)
  PROVE  ManagerTypeOK'
BY DEF BeginEnsure, Goto, ManagerTypeOK, Labels

LEMMA BeginDeleteType ==
  ASSUME ManagerTypeOK, NEW c \in Callers, NEW s \in Selectors, BeginDelete(c, s)
  PROVE  ManagerTypeOK'
BY DEF BeginDelete, Goto, ManagerTypeOK, Labels

LEMMA BeginReconcileType ==
  ASSUME ManagerTypeOK, NEW c \in Callers, NEW active,
         NEW w \in WantedMaps(active), BeginReconcile(c, w)
  PROVE  ManagerTypeOK'
<1>1. w \in [Routes -> Selectors \cup {None}]
  BY DEF WantedMaps
<1> QED
  BY <1>1 DEF BeginReconcile, Goto, ManagerTypeOK, Labels

----------------------------------------------------------------------------
(* Type correctness: the watcher and the cluster                           *)

LEMMA FirstListType ==
  ASSUME WatchTypeOK
  PROVE  FirstList \in [PodNames -> Seq(Delta)]
<1>1. ASSUME NEW p \in Existing PROVE Now(pods[p]) \in Delta
  BY <1>1 DEF Existing, WatchTypeOK, Now, Delta
<1>2. ASSUME NEW p \in PodNames
      PROVE  (IF p \in Existing THEN <<Now(pods[p])>> ELSE <<>>) \in Seq(Delta)
  BY <1>1
<1> QED
  BY <1>2 DEF FirstList

LEMMA QueuedType ==
  ASSUME WatchTypeOK, NEW p \in PodNames, NEW d \in Delta, Queued(p, d)
  PROVE  /\ cache' \in [PodNames -> Pod \cup {None}]
         /\ deltas' \in [PodNames -> Seq(Delta)]
         /\ unsynced' \subseteq PodNames
<1>1. Append(deltas[p], d) \in Seq(Delta)
  BY AppendProperties DEF WatchTypeOK
<1> QED
  BY <1>1 DEF Queued, WatchTypeOK

LEMMA ChangedType ==
  ASSUME WatchTypeOK, NEW p \in PodNames, NEW pod \in Pod, Changed(p, pod)
  PROVE  WatchTypeOK'
<1>1. Now(pod) \in Delta
  BY DEF Now, Delta
<1> QED
  BY <1>1, QueuedType DEF Changed, WatchTypeOK

LEMMA ClusterStepType ==
  ASSUME WatchTypeOK, ClusterStep
  PROVE  WatchTypeOK'
<1>1. PICK p \in PodNames : PodCreated(p) \/ PodUpdated(p) \/ PodDeleted(p)
  BY DEF ClusterStep
<1>2. CASE PodCreated(p)
  <2>1. PICK s \in LabelOf[p], ph \in Phases \cap {"", "Pending"} :
          Changed(p, [sel |-> s, phase |-> ph])
    BY <1>2 DEF PodCreated
  <2>2. [sel |-> s, phase |-> ph] \in Pod
    BY LabelOfAssumption DEF Pod, PodPhases
  <2> QED
    BY <2>1, <2>2, ChangedType
<1>3. CASE PodUpdated(p)
  <2>1. PICK ph \in Phases : Changed(p, [pods[p] EXCEPT !.phase = ph])
    BY <1>3 DEF PodUpdated
  <2>2. pods[p] \in Pod
    BY <1>3 DEF PodUpdated, Existing, WatchTypeOK
  <2>3. [pods[p] EXCEPT !.phase = ph] \in Pod
    BY <2>2, PhasesAssumption DEF Pod
  <2> QED
    BY <2>1, <2>3, ChangedType
<1>4. CASE PodDeleted(p)
  <2>1. Gone(pods[p]) \in Delta
    BY <1>4 DEF PodDeleted, Existing, WatchTypeOK, Gone, Delta
  <2> QED
    BY <1>4, <2>1, QueuedType DEF PodDeleted, WatchTypeOK
<1> QED
  BY <1>1, <1>2, <1>3, <1>4

LEMMA ListedType ==
  ASSUME WatchTypeOK, NEW p \in PodNames, NEW q \in Seq(Delta)
  PROVE  Listed(p, q) \in Seq(Delta)
<1>1. CASE p \in Existing
  <2>1. Now(pods[p]) \in Delta
    BY <1>1 DEF Existing, WatchTypeOK, Now, Delta
  <2> QED
    BY <1>1, <2>1, AppendProperties DEF Listed
<1>2. CASE p \notin Existing /\ q = <<>>
  <2>1. CASE cache[p] # None
    <3>1. Gone(cache[p]) \in Delta
      BY <2>1 DEF WatchTypeOK, Gone, Delta
    <3> QED
      BY <1>2, <2>1, <3>1 DEF Listed
  <2> QED
    BY <1>2, <2>1 DEF Listed
<1>3. CASE p \notin Existing /\ q # <<>>
  <2>1. q[Len(q)] \in Delta
    BY <1>3
  <2>2. Gone(q[Len(q)].pod) \in Delta
    BY <2>1 DEF Gone, Delta
  <2> QED
    BY <1>3, <2>2, AppendProperties DEF Listed
<1> QED
  BY <1>1, <1>2, <1>3

LEMMA RelistType ==
  ASSUME WatchTypeOK, Relist
  PROVE  WatchTypeOK'
<1>1. PICK kept \in [PodNames -> 0 .. MaxDeltas] :
        /\ \A p \in PodNames : kept[p] <= Len(deltas[p])
        /\ deltas' = [p \in PodNames |-> Listed(p, SubSeq(deltas[p], 1, kept[p]))]
  BY DEF Relist
<1>2. ASSUME NEW p \in PodNames
      PROVE  SubSeq(deltas[p], 1, kept[p]) \in Seq(Delta)
  <2>1. deltas[p] \in Seq(Delta) /\ kept[p] \in Nat
    BY MaxDeltasAssumption DEF WatchTypeOK
  <2>2. \A i \in 1 .. kept[p] : deltas[p][i] \in Delta
    BY <1>1, <2>1
  <2> QED
    BY <2>1, <2>2, SubSeqProperties
<1> QED
  BY <1>1, <1>2, ListedType DEF Relist, WatchTypeOK

LEMMA DriverOfType ==
  ASSUME NEW pod \in Pod, IsSparkDriver(pod)
  PROVE  DriverOf(pod) \in Driver
<1>1. StateOf(pod.phase) \in DriverStates
  BY DEF StateOf, DriverStates, Pod, PodPhases
<1> QED
  BY <1>1 DEF DriverOf, Driver, Pod, IsSparkDriver

LEMMA HandleDeltaType ==
  ASSUME StoreTypeOK, ManagerTypeOK, WatchTypeOK,
         NEW p \in PodNames, HandleDelta(p)
  PROVE  StoreTypeOK' /\ ManagerTypeOK' /\ WatchTypeOK'
<1> DEFINE d == Head(deltas[p])
<1>1. /\ d \in Delta
      /\ Tail(deltas[p]) \in Seq(Delta)
  BY HeadTailProperties DEF HandleDelta, WatchTypeOK
<1>2. Watcher \in Callers
  BY DEF Callers
<1>3. WatchTypeOK'
  <2>1. d.pod \in Pod
    BY <1>1 DEF Delta
  <2>2. cache' = [cache EXCEPT ![p] = IF d.gone THEN None ELSE d.pod]
    BY DEF HandleDelta
  <2> QED
    BY <1>1, <2>1, <2>2 DEF HandleDelta, WatchTypeOK
<1>4. CASE NoCall /\ UNCHANGED drivers
  BY <1>3, <1>4 DEF NoCall, managerVars, callVars, ManagerTypeOK, StoreTypeOK
<1>5. CASE IsSparkDriver(d.pod) /\ DeleteFunc(p, d.pod)
  <2>1. d.pod.sel \in Selectors
    BY <1>1, <1>5 DEF Delta, Pod, IsSparkDriver
  <2> QED
    BY <1>2, <1>3, <1>5, <2>1, BeginDeleteType
    DEF DeleteFunc, Remove, OnRemove, StoreTypeOK
<1>6. CASE /\ IsSparkDriver(d.pod)
           /\ AddFunc(p, DriverOf(d.pod)) \/ UpdateFunc(p, DriverOf(d.pod))
  <2> DEFINE dr == DriverOf(d.pod)
  <2>1. dr \in Driver
    BY <1>1, <1>6, DriverOfType DEF Delta
  <2> HIDE DEF dr
  <2>2. dr.sel \in Selectors
    BY <2>1 DEF Driver
  <2>3. StoreTypeOK'
    BY <1>6, <2>1 DEF AddFunc, UpdateFunc, Add, StoreTypeOK, dr
  <2>4. OnAdd(dr) \/ OnRemove(dr.sel) \/ NoCall
    BY <1>6 DEF AddFunc, UpdateFunc, dr
  <2>5. ManagerTypeOK'
    <3>1. CASE NoCall
      BY <3>1 DEF NoCall, managerVars, callVars, ManagerTypeOK
    <3> QED
      BY <1>2, <2>2, <2>4, <3>1, BeginEnsureType, BeginDeleteType DEF OnAdd, OnRemove
  <2> QED
    BY <1>3, <2>3, <2>5
<1> QED
  BY <1>4, <1>5, <1>6 DEF HandleDelta

----------------------------------------------------------------------------
(* Type correctness of the composition                                     *)

LEMMA CallersElements == /\ Watcher \in Callers
                         /\ Syncer \in Callers
                         /\ \A r \in Requests : r \in Callers
BY DEF Callers

LEMMA CallsInitType ==
  ASSUME CallsInit
  PROVE  /\ pc \in [Callers -> Labels]
         /\ target \in [Callers -> Selectors \cup {None}]
         /\ wanted \in [Callers -> [Routes -> Selectors \cup {None}]]
         /\ stale \in [Callers -> SUBSET Routes]
         /\ missing \in [Callers -> SUBSET RouteNames]
         /\ failed \in [Callers -> BOOLEAN]
BY WantNothingType DEF CallsInit, Labels

LEMMA InitType == Init => TypeOK
<1> SUFFICES ASSUME Init PROVE TypeOK
  OBVIOUS
<1>1. StoreTypeOK
  BY DEF Init, StoreInit, StoreTypeOK
<1>2. ManagerTypeOK
  BY CallsInitType, MaxFaultsAssumption DEF Init, LeftBehind, ManagerTypeOK
<1>3. WatchTypeOK
  <2>1. pods \in [PodNames -> Pod \cup {None}]
    BY PhasesAssumption DEF Init, WatchInit, Pod
  <2>2. ASSUME NEW p \in Existing PROVE <<Now(pods[p])>> \in Seq(Delta)
    BY <2>1 DEF Existing, Now, Delta
  <2>3. FirstList \in [PodNames -> Seq(Delta)]
    BY <2>2 DEF FirstList
  <2> QED
    BY <2>1, <2>3 DEF Init, WatchInit, WatchTypeOK, Existing
<1> QED
  BY <1>1, <1>2, <1>3, MaxCrashesAssumption DEF Init, TypeOK

LEMMA NextType == TypeOK /\ [Next]_vars => TypeOK'
<1> SUFFICES ASSUME TypeOK, [Next]_vars PROVE TypeOK'
  OBVIOUS
<1> USE DEF TypeOK
<1>1. CASE ClusterStep
  <2>1. WatchTypeOK'
    BY <1>1, ClusterStepType
  <2> QED
    BY <1>1, <2>1 DEF ClusterStep, managerVars, callVars, ManagerTypeOK, StoreTypeOK
<1>2. CASE BrokenWatch
  <2>1. WatchTypeOK'
    BY <1>2, RelistType DEF BrokenWatch
  <2> QED
    BY <1>2, <2>1 DEF BrokenWatch, managerVars, callVars, ManagerTypeOK, StoreTypeOK
<1>3. ASSUME NEW p \in PodNames, WatcherHandles(p) PROVE TypeOK'
  BY <1>3, HandleDeltaType DEF WatcherHandles
<1>4. ASSUME NEW c \in Callers, ManagerStep(c) PROVE TypeOK'
  <2>1. ManagerTypeOK'
    BY <1>4, ManagerStepType
  <2> QED
    BY <1>4, <2>1 DEF ManagerStep, watchVars, WatchTypeOK, StoreTypeOK
<1>5. CASE Synced
  BY <1>5, CallersElements
  DEF Synced, Goto, Labels, ManagerTypeOK, watchVars, WatchTypeOK, StoreTypeOK
<1>6. CASE InitialReconcile
  <2>1. ManagerTypeOK'
    BY <1>6, CallersElements, BeginReconcileType DEF InitialReconcile
  <2> QED
    BY <1>6, <2>1 DEF InitialReconcile, watchVars, WatchTypeOK, StoreTypeOK
<1>7. CASE InitialReconciled
  <2>1. Return(Syncer, "rootget") /\ UNCHANGED <<drivers, routes, faults, watchVars, crashes>>
    BY <1>7 DEF InitialReconciled
  <2> QED
    BY <2>1, CallersElements, ReturnType
    DEF Labels, ManagerTypeOK, watchVars, WatchTypeOK, StoreTypeOK
<1>8. ASSUME NEW r \in Requests, NEW s \in Selectors, StatusPage(r, s) PROVE TypeOK'
  <2>1. PICK d \in FindBySelector(s) : BeginEnsure(r, d.sel)
    BY <1>8 DEF StatusPage
  <2>2. d.sel \in Selectors
    BY DEF FindBySelector, Held, StoreTypeOK, Driver
  <2>3. ManagerTypeOK'
    BY <2>1, <2>2, CallersElements, BeginEnsureType
  <2> QED
    BY <1>8, <2>3 DEF StatusPage, watchVars, WatchTypeOK, StoreTypeOK
<1>9. ASSUME NEW r \in Requests, ReconcileRequest(r) PROVE TypeOK'
  <2>1. ManagerTypeOK'
    BY <1>9, CallersElements, BeginReconcileType DEF ReconcileRequest
  <2> QED
    BY <1>9, <2>1 DEF ReconcileRequest, watchVars, WatchTypeOK, StoreTypeOK
<1>10. ASSUME NEW r \in Requests, ReconcileResponse(r) PROVE TypeOK'
  <2>1. Return(r, "idle") /\ UNCHANGED <<drivers, routes, faults, watchVars, crashes>>
    BY <1>10 DEF ReconcileResponse
  <2> QED
    BY <2>1, CallersElements, ReturnType
    DEF Labels, ManagerTypeOK, watchVars, WatchTypeOK, StoreTypeOK
<1>11. CASE Crash
  <2>1. WatchTypeOK'
    BY <1>11, FirstListType DEF Crash, WatchRestart, WatchTypeOK, Existing
  <2>2. ManagerTypeOK'
    BY <1>11, WantNothingType DEF Crash, ManagerTypeOK, Labels
  <2> QED
    BY <1>11, <2>1, <2>2, MaxCrashesAssumption DEF Crash, StoreTypeOK
<1>12. CASE UNCHANGED vars
  BY <1>12 DEF vars, managerVars, callVars, watchVars, StoreTypeOK, ManagerTypeOK, WatchTypeOK
<1> QED
  BY <1>1, <1>2, <1>3, <1>4, <1>5, <1>6, <1>7, <1>8, <1>9, <1>10, <1>11, <1>12,
     CallersElements
  DEF Next, SyncerStep, RequestStep

\* Every variable keeps its type in every behaviour: store, routes, calls in
\* progress, informer queues.
THEOREM DriverRoutesType == Spec => []TypeOK
BY InitType, NextType, PTL DEF Spec

----------------------------------------------------------------------------
(* The calls keep away from the root route                                 *)

\* No Reconcile has the root route on its list, and every Ensure and Delete is for
\* a selector, hence for a driver's route.
CallsSpareRoot ==
  \A c \in Callers :
    /\ RootRoute \notin stale[c]
    /\ pc[c] \in {"get", "create", "delete"} => target[c] \in Selectors

\* A Return clears what CallsSpareRoot speaks of.
LEMMA SpareReturn ==
  ASSUME TypeOK, CallsSpareRoot, NEW c \in Callers,
         NEW l \in {"idle", "rootget"}, Return(c, l)
  PROVE  CallsSpareRoot'
BY DEF Return, Goto, TypeOK, ManagerTypeOK, CallsSpareRoot

LEMMA SpareManagerStep ==
  ASSUME TypeOK, CallsSpareRoot, NEW c \in Callers, ManagerStep(c)
  PROVE  CallsSpareRoot'
<1> USE DEF TypeOK
<1>1. CASE EnsureGet(c)
  <2>1. CASE Return(c, "idle")
    BY <2>1, SpareReturn
  <2>2. CASE Goto(c, "create") /\ UNCHANGED <<target, stale>>
    BY <1>1, <2>2 DEF EnsureGet, Goto, ManagerTypeOK, CallsSpareRoot
  <2> QED
    BY <1>1, <2>1, <2>2 DEF EnsureGet
<1>2. CASE EnsureCreate(c) \/ DeleteCall(c)
  BY <1>2, SpareReturn DEF EnsureCreate, DeleteCall
<1>3. CASE ReconcileList(c)
  <2>1. \E l \in {"fix", "returned"} : Goto(c, l)
    BY <1>3 DEF ReconcileList, AfterFix
  <2>2. RootRoute \notin stale'[c]
    BY <1>3 DEF ReconcileList, IsStale, ManagerTypeOK, CallsSpareRoot
  <2> QED
    BY <1>3, <2>1, <2>2 DEF ReconcileList, Goto, ManagerTypeOK, CallsSpareRoot
<1>4. CASE ReconcileDelete(c) \/ ReconcileCreate(c)
  <2>1. \E l \in {"fix", "returned"} : Goto(c, l)
    BY <1>4 DEF ReconcileDelete, ReconcileCreate, AfterFix
  <2>2. target' = target /\ \A x \in Callers : stale'[x] \subseteq stale[x]
    BY <1>4 DEF ReconcileDelete, ReconcileCreate, ManagerTypeOK
  <2> QED
    BY <2>1, <2>2 DEF Goto, ManagerTypeOK, CallsSpareRoot
<1>5. CASE RootGet(c) \/ RootWrite(c)
  BY <1>5 DEF RootGet, RootWrite, Goto, ManagerTypeOK, CallsSpareRoot
<1> QED
  BY <1>1, <1>2, <1>3, <1>4, <1>5 DEF ManagerStep, ReconcileStep

LEMMA SpareHandleDelta ==
  ASSUME TypeOK, CallsSpareRoot, NEW p \in PodNames, HandleDelta(p)
  PROVE  CallsSpareRoot'
<1> DEFINE d == Head(deltas[p])
<1>1. d \in Delta
  BY HeadTailProperties DEF TypeOK, HandleDelta, WatchTypeOK
<1>2. \/ NoCall
      \/ \E s : IsSparkDriver(d.pod) /\ s = d.pod.sel
                /\ (BeginEnsure(Watcher, s) \/ BeginDelete(Watcher, s))
  BY DEF HandleDelta, DeleteFunc, AddFunc, UpdateFunc, OnAdd, OnRemove, DriverOf
<1>3. IsSparkDriver(d.pod) => d.pod.sel \in Selectors
  BY <1>1 DEF Delta, Pod, IsSparkDriver
<1> QED
  BY <1>2, <1>3, CallersElements
  DEF NoCall, managerVars, callVars, BeginEnsure, BeginDelete, Goto, TypeOK,
      ManagerTypeOK, CallsSpareRoot

LEMMA SpareNext == TypeOK /\ CallsSpareRoot /\ [Next]_vars => CallsSpareRoot'
<1> SUFFICES ASSUME TypeOK, CallsSpareRoot, [Next]_vars PROVE CallsSpareRoot'
  OBVIOUS
<1>1. CASE UNCHANGED managerVars
  BY <1>1 DEF managerVars, callVars, CallsSpareRoot
<1>2. ASSUME NEW p \in PodNames, WatcherHandles(p) PROVE CallsSpareRoot'
  BY <1>2, SpareHandleDelta DEF WatcherHandles
<1>3. ASSUME NEW c \in Callers, ManagerStep(c) PROVE CallsSpareRoot'
  BY <1>3, SpareManagerStep
<1>4. ASSUME NEW c \in Callers, NEW l \in {"synced", "list"}, Goto(c, l),
             UNCHANGED <<target, stale>>
      PROVE  CallsSpareRoot'
  BY <1>4 DEF Goto, TypeOK, ManagerTypeOK, CallsSpareRoot
<1>5. ASSUME NEW c \in Callers, NEW w, BeginReconcile(c, w) PROVE CallsSpareRoot'
  BY <1>4, <1>5 DEF BeginReconcile
<1>6. CASE InitialReconciled \/ \E r \in Requests : ReconcileResponse(r)
  BY <1>6, SpareReturn, CallersElements DEF InitialReconciled, ReconcileResponse
<1>7. ASSUME NEW r \in Requests, NEW s \in Selectors, StatusPage(r, s)
      PROVE  CallsSpareRoot'
  <2>1. PICK dr \in FindBySelector(s) : BeginEnsure(r, dr.sel)
    BY <1>7 DEF StatusPage
  <2>2. dr.sel \in Selectors
    BY DEF FindBySelector, Held, TypeOK, StoreTypeOK, Driver
  <2> QED
    BY <2>1, <2>2, CallersElements DEF BeginEnsure, Goto, TypeOK, ManagerTypeOK,
                                       CallsSpareRoot
<1>8. CASE Crash
  BY <1>8 DEF Crash, CallsSpareRoot
<1>9. CASE Synced \/ InitialReconcile \/ \E r \in Requests : ReconcileRequest(r)
  BY <1>4, <1>5, <1>9, CallersElements DEF Synced, InitialReconcile, ReconcileRequest
<1>10. ClusterStep \/ BrokenWatch \/ UNCHANGED vars => UNCHANGED managerVars
  BY DEF ClusterStep, BrokenWatch, vars
<1> QED
  BY <1>1, <1>2, <1>3, <1>6, <1>7, <1>8, <1>9, <1>10, CallersElements
  DEF Next, SyncerStep, RequestStep

----------------------------------------------------------------------------
(* The calls write each route under its own name                           *)

\* A Reconcile creates a route only under the name of the driver it is for.
CallsNameRoutes ==
  \A c \in Callers :
    /\ \A n \in RouteNames : wanted[c][n] # None => RouteName[wanted[c][n]] = n
    /\ pc[c] = "fix" => \A n \in missing[c] : wanted[c][n] # None

LEMMA NamesWanted ==
  ASSUME NEW active \in SUBSET Selectors, NEW w \in WantedMaps(active), NEW n \in RouteNames
  PROVE  w[n] # None => RouteName[w[n]] = n
BY DEF WantedMaps, Routes

LEMMA NamesBeginReconcile ==
  ASSUME TypeOK, CallsNameRoutes, NEW c \in Callers,
         NEW w \in WantedMaps(ListRunning), BeginReconcile(c, w)
  PROVE  CallsNameRoutes'
<1>1. ListRunning \in SUBSET Selectors
  BY DEF ListRunning, Held, TypeOK, StoreTypeOK, Driver
<1>2. \A n \in RouteNames : w[n] # None => RouteName[w[n]] = n
  BY <1>1, NamesWanted
<1> QED
  BY <1>2 DEF BeginReconcile, Goto, TypeOK, ManagerTypeOK, CallsNameRoutes

LEMMA NamesReturn ==
  ASSUME TypeOK, CallsNameRoutes, NEW c \in Callers,
         NEW l \in {"idle", "rootget"}, Return(c, l)
  PROVE  CallsNameRoutes'
BY DEF Return, Goto, TypeOK, ManagerTypeOK, CallsNameRoutes, WantNothing, Routes

LEMMA NamesManagerStep ==
  ASSUME TypeOK, CallsNameRoutes, NEW c \in Callers, ManagerStep(c)
  PROVE  CallsNameRoutes'
<1> USE DEF TypeOK
<1>1. CASE EnsureGet(c)
  <2>1. CASE Goto(c, "create") /\ UNCHANGED <<wanted, missing>>
    BY <1>1, <2>1 DEF Goto, ManagerTypeOK, CallsNameRoutes
  <2> QED
    BY <1>1, <2>1, NamesReturn DEF EnsureGet
<1>2. CASE EnsureCreate(c) \/ DeleteCall(c)
  BY <1>2, NamesReturn DEF EnsureCreate, DeleteCall
<1>3. CASE ReconcileList(c)
  <2>1. \E l : Goto(c, l)
    BY <1>3 DEF ReconcileList
  <2>2. CASE missing' = [missing EXCEPT ![c] =
                           {n \in RouteNames : wanted[c][n] # None /\ n \notin Present}]
    BY <1>3, <2>1, <2>2 DEF ReconcileList, Goto, ManagerTypeOK, CallsNameRoutes
  <2>3. CASE Goto(c, "returned") /\ UNCHANGED missing
    BY <1>3, <2>3 DEF ReconcileList, Goto, ManagerTypeOK, CallsNameRoutes
  <2> QED
    BY <1>3, <2>2, <2>3 DEF ReconcileList
<1>4. CASE ReconcileDelete(c) \/ ReconcileCreate(c)
  <2>1. pc[c] = "fix" /\ \E l : Goto(c, l)
    BY <1>4 DEF ReconcileDelete, ReconcileCreate
  <2>2. UNCHANGED wanted /\ \A x \in Callers : missing'[x] \subseteq missing[x]
    BY <1>4 DEF ReconcileDelete, ReconcileCreate, ManagerTypeOK
  <2> QED
    BY <2>1, <2>2 DEF Goto, ManagerTypeOK, CallsNameRoutes
<1>5. CASE RootGet(c) \/ RootWrite(c)
  BY <1>5 DEF RootGet, RootWrite, Goto, ManagerTypeOK, CallsNameRoutes
<1> QED
  BY <1>1, <1>2, <1>3, <1>4, <1>5 DEF ManagerStep, ReconcileStep

LEMMA NamesNext == TypeOK /\ CallsNameRoutes /\ [Next]_vars => CallsNameRoutes'
<1> SUFFICES ASSUME TypeOK, CallsNameRoutes, [Next]_vars PROVE CallsNameRoutes'
  OBVIOUS
<1>1. CASE UNCHANGED managerVars
  BY <1>1 DEF managerVars, callVars, CallsNameRoutes
<1>2. ASSUME NEW c \in Callers, NEW l \in {"synced", "get", "delete"}, Goto(c, l),
             UNCHANGED <<wanted, missing>>
      PROVE  CallsNameRoutes'
  BY <1>2 DEF Goto, TypeOK, ManagerTypeOK, CallsNameRoutes
<1>3. ASSUME NEW p \in PodNames, WatcherHandles(p) PROVE CallsNameRoutes'
  <2>1. \/ UNCHANGED managerVars
        \/ \E s : BeginEnsure(Watcher, s) \/ BeginDelete(Watcher, s)
    BY <1>3 DEF WatcherHandles, HandleDelta, NoCall, DeleteFunc, AddFunc, UpdateFunc,
                OnAdd, OnRemove
  <2> QED
    BY <1>1, <1>2, <2>1, CallersElements DEF BeginEnsure, BeginDelete
<1>4. ASSUME NEW c \in Callers, ManagerStep(c) PROVE CallsNameRoutes'
  BY <1>4, NamesManagerStep
<1>5. CASE Synced \/ \E r \in Requests, s \in Selectors : StatusPage(r, s)
  BY <1>2, <1>5, CallersElements DEF Synced, StatusPage, BeginEnsure
<1>6. CASE InitialReconcile \/ \E r \in Requests : ReconcileRequest(r)
  BY <1>6, NamesBeginReconcile, CallersElements DEF InitialReconcile, ReconcileRequest
<1>7. CASE InitialReconciled \/ \E r \in Requests : ReconcileResponse(r)
  BY <1>7, NamesReturn, CallersElements DEF InitialReconciled, ReconcileResponse
<1>8. CASE Crash
  BY <1>8 DEF Crash, CallsNameRoutes, WantNothing, Routes
<1>9. ClusterStep \/ BrokenWatch \/ UNCHANGED vars => UNCHANGED managerVars
  BY DEF ClusterStep, BrokenWatch, vars
<1> QED
  BY <1>1, <1>3, <1>4, <1>5, <1>6, <1>7, <1>8, <1>9, CallersElements
  DEF Next, SyncerStep, RequestStep

----------------------------------------------------------------------------
(* The goroutines                                                          *)

\* Only the informer goroutine calls Delete, and it never reconciles; the syncer
\* does nothing else.
CallsHaveKinds ==
  \A c \in Callers :
    /\ c = Watcher => pc[c] \in {"idle", "get", "create", "delete"}
    /\ pc[c] = "delete" => c = Watcher
    /\ c = Syncer => pc[c] \notin {"get", "create", "delete"}

StaleIsUnwanted ==
  \A c \in Callers : pc[c] = "fix" => \A n \in stale[c] : wanted[c][n] = None

CallsInv == CallsHaveKinds /\ StaleIsUnwanted

\* The handlers, by what they are given: a pod without label, one that is gone,
\* one that is there.
LEMMA HandlerCases ==
  ASSUME TypeOK, NEW p \in PodNames, HandleDelta(p)
  PROVE  LET d == Head(deltas[p])
             dr == DriverOf(d.pod)
         IN \/ ~IsSparkDriver(d.pod) /\ NoCall /\ UNCHANGED drivers
            \/ /\ IsSparkDriver(d.pod) /\ d.gone
               /\ Remove(p) /\ BeginDelete(Watcher, d.pod.sel)
            \/ /\ IsSparkDriver(d.pod) /\ ~d.gone
               /\ Add(p, dr)
               /\ \/ dr.state = "Running" /\ BeginEnsure(Watcher, dr.sel)
                  \/ /\ cache[p] # None /\ dr.state \in Terminal
                     /\ BeginDelete(Watcher, dr.sel)
                  \/ /\ dr.state # "Running" /\ (cache[p] # None => dr.state \notin Terminal)
                     /\ NoCall
BY DEF HandleDelta, DeleteFunc, AddFunc, UpdateFunc, OnAdd, OnRemove, Terminal

\* The local variables of the goroutine c.
Locals(c) == <<pc[c], target[c], wanted[c], stale[c], missing[c], failed[c]>>

LEMMA OthersStay ==
  ASSUME TypeOK, NEW c \in Callers, NEW d \in Callers \ {c},
         \/ ManagerStep(c)
         \/ \E s : BeginEnsure(c, s) \/ BeginDelete(c, s)
         \/ \E w : BeginReconcile(c, w)
         \/ \E l : Return(c, l)
         \/ Goto(c, "synced") /\ UNCHANGED <<target, wanted, stale, missing, failed>>
  PROVE  Locals(d)' = Locals(d)
<1> USE DEF TypeOK, ManagerTypeOK, Locals
<1>1. ASSUME NEW l, Goto(c, l) PROVE pc'[d] = pc[d]
  BY <1>1 DEF Goto
<1>2. ASSUME NEW l, Return(c, l) PROVE Locals(d)' = Locals(d)
  BY <1>1, <1>2 DEF Return
<1>3. CASE EnsureGet(c) \/ EnsureCreate(c) \/ DeleteCall(c)
  BY <1>1, <1>2, <1>3 DEF EnsureGet, EnsureCreate, DeleteCall
<1>4. CASE ReconcileList(c)
  BY <1>1, <1>4 DEF ReconcileList
<1>5. CASE ReconcileDelete(c) \/ ReconcileCreate(c)
  BY <1>1, <1>5 DEF ReconcileDelete, ReconcileCreate, NoteError
<1>6. CASE RootGet(c) \/ RootWrite(c)
  BY <1>1, <1>6 DEF RootGet, RootWrite
<1>7. CASE \/ \E s : BeginEnsure(c, s) \/ BeginDelete(c, s)
           \/ \E w : BeginReconcile(c, w)
  BY <1>1, <1>7 DEF BeginEnsure, BeginDelete, BeginReconcile
<1> QED
  BY <1>1, <1>2, <1>3, <1>4, <1>5, <1>6, <1>7 DEF ManagerStep, ReconcileStep

\* Every step but a crash is one of the cluster, or of one goroutine.
LEMMA StepCases ==
  ASSUME [Next]_vars
  PROVE  \/ UNCHANGED <<drivers, managerVars, unsynced, crashes>>
         \/ \E p \in PodNames : WatcherHandles(p)
         \/ \E c \in Callers : ManagerStep(c)
         \/ Synced
         \/ /\ UNCHANGED <<drivers, routes, faults, watchVars, crashes>>
            /\ \E c \in Callers \ {Watcher} :
                 \/ /\ pc[c] \in {"idle", "synced"}
                    /\ c = Syncer <=> pc[c] = "synced"
                    /\ \E w \in WantedMaps(ListRunning) : BeginReconcile(c, w)
                 \/ /\ c \in Requests /\ pc[c] = "idle"
                    /\ \E s \in ListRunning : BeginEnsure(c, s)
                 \/ /\ pc[c] = "returned"
                    /\ Return(c, IF c = Syncer THEN "rootget" ELSE "idle")
         \/ Crash
<1>1. /\ Syncer \in Callers \ {Watcher} /\ Syncer \notin Requests
      /\ \A r \in Requests : r \in Callers \ {Watcher} /\ r # Syncer
  BY CallersAssumption DEF Callers
<1>2. CASE ClusterStep \/ BrokenWatch \/ UNCHANGED vars
  BY <1>2 DEF ClusterStep, PodCreated, PodUpdated, PodDeleted, Changed, Queued,
              BrokenWatch, Relist, vars, watchVars
<1>3. CASE InitialReconcile
  BY <1>1, <1>3 DEF InitialReconcile, BeginReconcile
<1>4. CASE InitialReconciled
  BY <1>1, <1>4 DEF InitialReconciled
<1>5. ASSUME NEW r \in Requests, NEW s \in Selectors, StatusPage(r, s)
      PROVE  /\ UNCHANGED <<drivers, routes, faults, watchVars, crashes>>
             /\ pc[r] = "idle" /\ \E t \in ListRunning : BeginEnsure(r, t)
  <2>1. PICK dr \in FindBySelector(s) : dr.state = "Running" /\ BeginEnsure(r, dr.sel)
    BY <1>5 DEF StatusPage
  <2>2. dr.sel \in ListRunning
    BY <2>1 DEF FindBySelector, ListRunning
  <2> QED
    BY <1>5, <2>1, <2>2 DEF StatusPage, BeginEnsure
<1>6. ASSUME NEW r \in Requests, ReconcileRequest(r)
      PROVE  /\ UNCHANGED <<drivers, routes, faults, watchVars, crashes>>
             /\ pc[r] = "idle"
             /\ \E w \in WantedMaps(ListRunning) : BeginReconcile(r, w)
  BY <1>6 DEF ReconcileRequest, BeginReconcile
<1>7. ASSUME NEW r \in Requests, ReconcileResponse(r)
      PROVE  /\ UNCHANGED <<drivers, routes, faults, watchVars, crashes>>
             /\ pc[r] = "returned" /\ Return(r, "idle")
  BY <1>7 DEF ReconcileResponse
<1> QED
  BY <1>1, <1>2, <1>3, <1>4, <1>5, <1>6, <1>7, CallersElements
  DEF Next, SyncerStep, RequestStep

\* Where a request takes a goroutine.
LEMMA StepPc ==
  ASSUME TypeOK, NEW c \in Callers, ManagerStep(c)
  PROVE  /\ pc[c] = "get" => pc'[c] \in {"create", "idle"}
         /\ pc[c] \in {"create", "delete"} => pc'[c] = "idle"
         /\ pc[c] \in {"list", "fix"} => pc'[c] \in {"fix", "returned"}
         /\ pc[c] = "rootget" => pc'[c] \in {"rootwrite", "idle"}
         /\ pc[c] = "rootwrite" => pc'[c] = "idle"
         /\ pc[c] \in {"get", "create", "delete", "list", "fix", "rootget", "rootwrite"}
<1> USE DEF TypeOK, ManagerTypeOK
<1>1. ASSUME NEW l, Goto(c, l) PROVE pc'[c] = l
  BY <1>1 DEF Goto
<1>2. CASE EnsureGet(c) \/ EnsureCreate(c) \/ DeleteCall(c)
  BY <1>1, <1>2 DEF EnsureGet, EnsureCreate, DeleteCall, Return
<1>3. CASE ReconcileStep(c)
  BY <1>1, <1>3 DEF ReconcileStep, ReconcileList, ReconcileDelete, ReconcileCreate, AfterFix
<1>4. CASE RootGet(c) \/ RootWrite(c)
  BY <1>1, <1>4 DEF RootGet, RootWrite
<1> QED
  BY <1>2, <1>3, <1>4 DEF ManagerStep

LEMMA StaleManagerStep ==
  ASSUME TypeOK, StaleIsUnwanted, NEW c \in Callers, ManagerStep(c), pc'[c] = "fix",
         NEW n \in stale'[c]
  PROVE  wanted'[c][n] = None
<1> USE DEF TypeOK, ManagerTypeOK
<1>1. pc[c] \in {"list", "fix"}
  BY StepPc DEF Labels
<1>2. CASE ReconcileList(c)
  <2>1. CASE Goto(c, "returned")
    BY <2>1 DEF Goto
  <2>2. CASE stale' = [stale EXCEPT ![c] = {x \in Present : IsStale(wanted[c], x)}]
    BY <1>2, <2>2 DEF ReconcileList, IsStale
  <2> QED
    BY <1>2, <2>1, <2>2 DEF ReconcileList
<1>3. CASE ReconcileDelete(c) \/ ReconcileCreate(c)
  <2>1. pc[c] = "fix" /\ stale'[c] \subseteq stale[c] /\ wanted'[c] = wanted[c]
    BY <1>3 DEF ReconcileDelete, ReconcileCreate
  <2> QED
    BY <2>1 DEF StaleIsUnwanted
<1> QED
  BY <1>1, <1>2, <1>3 DEF ManagerStep, ReconcileStep, EnsureGet, EnsureCreate, DeleteCall,
                          RootGet, RootWrite

LEMMA CallsInvInit == Init => CallsInv
BY CallersAssumption DEF Init, CallsInit, CallsInv, CallsHaveKinds, StaleIsUnwanted

LEMMA CallsInvNext == TypeOK /\ CallsInv /\ [Next]_vars => CallsInv'
<1> SUFFICES ASSUME TypeOK, CallsInv, [Next]_vars PROVE CallsInv'
  OBVIOUS
<1> USE DEF CallsInv
<1> DEFINE Kind(c, l) == /\ c = Watcher => l \in {"idle", "get", "create", "delete"}
                         /\ l = "delete" => c = Watcher
                         /\ c = Syncer => l \notin {"get", "create", "delete"}
<1>1. \A c \in Callers : Kind(c, pc[c])
  BY DEF CallsHaveKinds
<1>2. ASSUME NEW c \in Callers, Kind(c, pc'[c]),
             pc'[c] = "fix" => \A n \in stale'[c] : wanted'[c][n] = None,
             \A d \in Callers \ {c} : Locals(d)' = Locals(d)
      PROVE  CallsInv'
  <2>1. \A d \in Callers \ {c} : /\ pc'[d] = pc[d]
                                 /\ stale'[d] = stale[d]
                                 /\ wanted'[d] = wanted[d]
    BY <1>2 DEF Locals
  <2> QED
    BY <1>1, <1>2, <2>1 DEF CallsHaveKinds, StaleIsUnwanted
<1>3. CASE UNCHANGED managerVars
  BY <1>3 DEF managerVars, callVars, CallsHaveKinds, StaleIsUnwanted
<1>4. ASSUME NEW c \in Callers, ManagerStep(c) PROVE CallsInv'
  <2>1. Kind(c, pc'[c])
    BY <1>1, <1>4, StepPc DEF TypeOK, ManagerTypeOK, Labels
  <2> QED
    BY <1>2, <1>4, <2>1, OthersStay, StaleManagerStep
<1>5. ASSUME NEW c \in Callers, NEW l, Kind(c, l), l # "fix", Goto(c, l),
             \A d \in Callers \ {c} : Locals(d)' = Locals(d)
      PROVE  CallsInv'
  <2>1. pc'[c] = l
    BY <1>5 DEF Goto, TypeOK, ManagerTypeOK
  <2> QED
    BY <1>2, <1>5, <2>1
<1>6. ASSUME NEW p \in PodNames, WatcherHandles(p) PROVE CallsInv'
  <2>1. CASE \E s : BeginEnsure(Watcher, s) \/ BeginDelete(Watcher, s)
    <3>1. \A d \in Callers \ {Watcher} : Locals(d)' = Locals(d)
      BY <2>1, OthersStay, CallersElements
    <3>2. Goto(Watcher, "get") \/ Goto(Watcher, "delete")
      BY <2>1 DEF BeginEnsure, BeginDelete
    <3> QED
      BY <1>5, <3>1, <3>2, CallersElements, CallersAssumption
  <2> QED
    BY <1>3, <1>6, <2>1, HandlerCases DEF WatcherHandles, NoCall
<1>7. CASE Synced
  BY <1>5, <1>7, OthersStay, CallersElements, CallersAssumption DEF Synced
<1>8. ASSUME NEW c \in Callers \ {Watcher}, NEW w, BeginReconcile(c, w) PROVE CallsInv'
  <2>1. \A d \in Callers \ {c} : Locals(d)' = Locals(d)
    BY <1>8, OthersStay
  <2> QED
    BY <1>5, <1>8, <2>1 DEF BeginReconcile
<1>9. ASSUME NEW r \in Requests, NEW s, BeginEnsure(r, s) PROVE CallsInv'
  <2>1. r \in Callers \ {Watcher, Syncer}
    BY CallersElements, CallersAssumption
  <2>2. \A d \in Callers \ {r} : Locals(d)' = Locals(d)
    BY <1>9, <2>1, OthersStay
  <2> QED
    BY <1>5, <1>9, <2>1, <2>2 DEF BeginEnsure
<1>10. ASSUME NEW c \in Callers \ {Watcher}, NEW l \in {"idle", "rootget"}, Return(c, l)
       PROVE  CallsInv'
  <2>1. \A d \in Callers \ {c} : Locals(d)' = Locals(d)
    BY <1>10, OthersStay
  <2> QED
    BY <1>5, <1>10, <2>1 DEF Return
<1>11. CASE Crash
  BY <1>11, CallersAssumption DEF Crash, CallsHaveKinds, StaleIsUnwanted
<1> QED
  BY <1>3, <1>4, <1>6, <1>7, <1>8, <1>9, <1>10, <1>11, StepCases

\* The ways of a goroutine into and through a Reconcile.
LEMMA ReconcilePc ==
  ASSUME TypeOK, CallsInv, [Next]_vars, ~Crash, NEW c \in Callers,
         pc'[c] \in {"list", "fix", "returned"}
  PROVE  \/ Locals(c)' = Locals(c)
         \/ ManagerStep(c) /\ pc[c] \in {"list", "fix"} /\ wanted'[c] = wanted[c]
         \/ /\ pc[c] \in {"idle", "synced"} /\ UNCHANGED drivers
            /\ \/ c = Syncer /\ pc[c] = "synced"
               \/ c \in Requests /\ ReconcileRequest(c)
            /\ \E w \in WantedMaps(ListRunning) : BeginReconcile(c, w)
<1>1. CASE UNCHANGED managerVars
  BY <1>1 DEF managerVars, callVars, Locals
<1>2. ASSUME NEW d \in Callers \ {c}, Locals(c)' # Locals(c)
      PROVE  /\ ~ManagerStep(d)
             /\ ~ \E s : BeginEnsure(d, s) \/ BeginDelete(d, s)
             /\ ~ \E w : BeginReconcile(d, w)
             /\ ~ \E l : Return(d, l)
             /\ ~ (Goto(d, "synced") /\ UNCHANGED <<target, wanted, stale, missing, failed>>)
  BY <1>2, OthersStay
<1>3. ASSUME NEW l, Goto(c, l) PROVE pc'[c] = l
  BY <1>3 DEF Goto, TypeOK, ManagerTypeOK
<1>4. ASSUME NEW p \in PodNames, WatcherHandles(p) PROVE Locals(c)' = Locals(c)
  <2>1. CASE \E s : BeginEnsure(Watcher, s) \/ BeginDelete(Watcher, s)
    <3>1. c # Watcher
      BY <1>3, <2>1 DEF BeginEnsure, BeginDelete
    <3> QED
      BY <1>2, <2>1, <3>1, CallersElements
  <2>2. CASE NoCall
    BY <2>2 DEF NoCall, managerVars, callVars, Locals
  <2> QED
    BY <1>4, <2>1, <2>2, HandlerCases DEF WatcherHandles
<1>5. ASSUME ManagerStep(c) PROVE pc[c] \in {"list", "fix"} /\ wanted'[c] = wanted[c]
  <2>1. pc[c] \in {"list", "fix"}
    BY <1>5, StepPc
  <2> QED
    BY <1>5, <2>1 DEF ManagerStep, ReconcileStep, ReconcileList, ReconcileDelete,
       ReconcileCreate, EnsureGet, EnsureCreate, DeleteCall, RootGet, RootWrite
<1>6. CASE Synced
  <2>1. Goto(Syncer, "synced") /\ UNCHANGED <<target, wanted, stale, missing, failed>>
    BY <1>6 DEF Synced
  <2> QED
    BY <1>2, <1>3, <2>1, CallersElements
<1>7. ASSUME NEW d \in Callers \ {Watcher}, NEW w \in WantedMaps(ListRunning),
             pc[d] \in {"idle", "synced"}, d = Syncer <=> pc[d] = "synced",
             BeginReconcile(d, w), UNCHANGED <<drivers, watchVars, crashes>>
      PROVE  \/ Locals(c)' = Locals(c)
             \/ /\ pc[c] \in {"idle", "synced"} /\ UNCHANGED drivers
                /\ \/ c = Syncer /\ pc[c] = "synced"
                   \/ c \in Requests /\ ReconcileRequest(c)
                /\ \E v \in WantedMaps(ListRunning) : BeginReconcile(c, v)
  <2>1. CASE d # c
    BY <1>2, <1>7, <2>1
  <2>2. CASE d = c
    <3>1. pc[c] \in {"idle", "synced"} /\ BeginReconcile(c, w) /\ UNCHANGED drivers
      BY <1>7, <2>2
    <3>2. c # Syncer => c \in Requests /\ pc[c] = "idle"
      BY <1>7, <2>2 DEF Callers
    <3>3. c \in Requests /\ pc[c] = "idle" => ReconcileRequest(c)
      BY <1>7, <2>2 DEF ReconcileRequest
    <3> QED
      BY <1>7, <2>2, <3>1, <3>2, <3>3
  <2> QED
    BY <2>1, <2>2
<1>8. ASSUME NEW d \in Callers, NEW s, BeginEnsure(d, s) PROVE Locals(c)' = Locals(c)
  <2>1. d # c
    BY <1>3, <1>8 DEF BeginEnsure
  <2> QED
    BY <1>2, <1>8, <2>1
<1>9. ASSUME NEW d \in Callers, NEW l \in {"idle", "rootget"}, Return(d, l)
      PROVE  Locals(c)' = Locals(c)
  <2>1. d # c
    BY <1>3, <1>9 DEF Return
  <2> QED
    BY <1>2, <1>9, <2>1
<1> QED
  BY <1>1, <1>2, <1>4, <1>5, <1>6, <1>7, <1>8, <1>9, StepCases

\* A Reconcile that returns nil has nothing left to do.
LEMMA ReturnsDone ==
  ASSUME TypeOK, NEW c \in Callers, ManagerStep(c), pc[c] \in {"list", "fix"},
         pc'[c] = "returned", ~failed'[c]
  PROVE  stale'[c] = {} /\ missing'[c] = {}
<1> USE DEF TypeOK, ManagerTypeOK, AfterFix
<1>1. CASE ReconcileList(c)
  BY <1>1 DEF ReconcileList, Goto
<1>2. CASE ReconcileDelete(c)
  BY <1>2 DEF ReconcileDelete, Goto
<1>3. CASE ReconcileCreate(c)
  BY <1>3 DEF ReconcileCreate, Goto
<1> QED
  BY <1>1, <1>2, <1>3
  DEF ManagerStep, ReconcileStep, EnsureGet, EnsureCreate, DeleteCall, RootGet, RootWrite

----------------------------------------------------------------------------
(* The writes                                                              *)

RoutesNamed ==
  \A n \in RouteNames : routes[n] # None => routes[n] \in Selectors /\ RouteName[routes[n]] = n

\* How a request changes a driver's route.
LEMMA RouteWrites ==
  ASSUME TypeOK, CallsSpareRoot, NEW c \in Callers, ManagerStep(c),
         NEW n \in RouteNames, routes'[n] # routes[n]
  PROVE  \/ /\ pc[c] = "create" /\ n = RouteName[target[c]] /\ target[c] \in Selectors
            /\ routes[n] = None /\ routes'[n] = target[c]
         \/ pc[c] = "delete" /\ n = RouteName[target[c]] /\ routes'[n] = None
         \/ /\ pc[c] = "fix" /\ n \in stale[c] /\ n \notin stale'[c]
            /\ routes'[n] = None
         \/ /\ pc[c] = "fix" /\ n \in missing[c] /\ n \notin missing'[c]
            /\ routes[n] = None /\ routes'[n] = wanted[c][n]
<1> USE DEF TypeOK, ManagerTypeOK
<1>1. n \in Routes /\ n # RootRoute
  BY RootRouteAssumption DEF Routes
<1>2. ASSUME NEW m, Write(Deleted(m)) PROVE n = m /\ routes'[n] = None
  BY <1>1, <1>2 DEF Write, Deleted
<1>3. ASSUME NEW m, NEW s, Write(Created(m, s))
      PROVE  n = m /\ routes[n] = None /\ routes'[n] = s
  BY <1>1, <1>3 DEF Write, Created, Present
<1>4. CASE EnsureCreate(c)
  BY <1>3, <1>4 DEF EnsureCreate, CallsSpareRoot
<1>5. CASE DeleteCall(c)
  BY <1>2, <1>5 DEF DeleteCall
<1>6. CASE ReconcileDelete(c)
  BY <1>2, <1>6 DEF ReconcileDelete
<1>7. CASE ReconcileCreate(c)
  BY <1>3, <1>7 DEF ReconcileCreate
<1>8. CASE RootWrite(c)
  BY <1>1, <1>8 DEF RootWrite, Write
<1> QED
  BY <1>4, <1>5, <1>6, <1>7, <1>8
  DEF ManagerStep, ReconcileStep, EnsureGet, ReconcileList, RootGet

LEMMA OthersWriteNothing ==
  ASSUME [Next]_vars, ~ \E c \in Callers : ManagerStep(c)
  PROVE  UNCHANGED routes
<1>1. ASSUME NEW p \in PodNames, WatcherHandles(p) PROVE UNCHANGED routes
  BY <1>1 DEF WatcherHandles, HandleDelta, NoCall, managerVars, DeleteFunc, AddFunc,
     UpdateFunc, OnAdd, OnRemove, BeginEnsure, BeginDelete
<1> QED
  BY <1>1, StepCases DEF managerVars, Synced, Crash

LEMMA RoutesNamedInit == Init => RoutesNamed
BY DEF Init, LeftBehind, RoutesNamed

LEMMA RoutesNamedNext ==
  TypeOK /\ CallsSpareRoot /\ CallsNameRoutes /\ RoutesNamed /\ [Next]_vars => RoutesNamed'
<1> SUFFICES ASSUME TypeOK, CallsSpareRoot, CallsNameRoutes, RoutesNamed, [Next]_vars,
                    NEW n \in RouteNames, routes'[n] # None
             PROVE  routes'[n] \in Selectors /\ RouteName[routes'[n]] = n
  BY DEF RoutesNamed
<1>1. CASE routes'[n] = routes[n]
  BY <1>1 DEF RoutesNamed
<1>2. ASSUME NEW c \in Callers, ManagerStep(c), routes'[n] # routes[n]
      PROVE  routes'[n] \in Selectors /\ RouteName[routes'[n]] = n
  <2>1. wanted[c][n] \in Selectors \cup {None}
    BY DEF TypeOK, ManagerTypeOK, Routes
  <2> QED
    BY <1>2, <2>1, RouteWrites DEF CallsNameRoutes
<1> QED
  BY <1>1, <1>2, OthersWriteNothing

=============================================================================
