--------------------------- MODULE HistoryProofs ----------------------------
(***************************************************************************)
(* Proofs about DriverRoutesHistory: its type, which applications have     *)
(* routes, that the root route is kept, that the service is a RouteBoard,  *)
(* and that the store follows the cluster.                                 *)
(***************************************************************************)
EXTENDS DriverRoutesHistory, WatcherProofs

----------------------------------------------------------------------------
(* Type correctness with the history                                       *)

LEMMA RunningInType ==
  ASSUME WatchTypeOK
  PROVE  RunningIn(pods) \subseteq Selectors
BY DEF RunningIn, WatchTypeOK, Pod

LEMMA HistoryInitType == HInit => HistoryTypeOK
<1> SUFFICES ASSUME HInit PROVE HistoryTypeOK
  OBVIOUS
<1>1. TypeOK
  BY InitType DEF HInit
<1>2. ran \subseteq Selectors
  <2>1. \A n \in RouteNames \cap Present : routes[n] \in Selectors
    BY DEF HInit, Init, LeftBehind, Present
  <2> QED
    BY <1>1, <2>1, RunningInType DEF HInit, HistoryInit, TypeOK
<1> QED
  BY <1>1, <1>2 DEF HInit, HistoryInit, HistoryTypeOK

LEMMA StillSoundType ==
  ASSUME HistoryTypeOK, NEW c \in Callers
  PROVE  StillSound(c) \subseteq RouteNames
BY DEF StillSound, HistoryTypeOK

LEMMA HistoryNextType == HistoryTypeOK /\ [HNext]_hvars => HistoryTypeOK'
<1> SUFFICES ASSUME HistoryTypeOK, [HNext]_hvars PROVE HistoryTypeOK'
  OBVIOUS
<1>1. TypeOK'
  BY NextType DEF HistoryTypeOK, HNext, hvars
<1>2. CASE UNCHANGED hvars
  BY <1>1, <1>2 DEF hvars, HistoryTypeOK
<1>3. CASE HNext
  <2>1. ran' \subseteq Selectors
    <3>1. RunningIn(pods') \subseteq Selectors
      BY <1>1 DEF TypeOK, WatchTypeOK, RunningIn, Pod
    <3> QED
      BY <1>3, <3>1 DEF HNext, HistoryStep, HistoryTypeOK
  <2>2. drift' \subseteq RouteNames
    BY <1>3 DEF HNext, HistoryStep, HistoryTypeOK, Drifting
  <2>3. sound' \in [Callers -> SUBSET RouteNames]
    BY <1>3, StillSoundType DEF HNext, HistoryStep
  <2>4. steady' \subseteq PodNames
    BY <1>3 DEF HNext, HistoryStep, HistoryTypeOK
  <2> QED
    BY <1>1, <2>1, <2>2, <2>3, <2>4 DEF HistoryTypeOK
<1> QED
  BY <1>2, <1>3

\* Every variable keeps its type, the history variables included.
THEOREM DriverRoutesHistoryType == HSpec => []HistoryTypeOK
BY HistoryInitType, HistoryNextType, PTL DEF HSpec

----------------------------------------------------------------------------
(* Only applications that ran have routes                                  *)

LEMMA RanInit == HInit => RanInv
<1> SUFFICES ASSUME HInit PROVE RanInv
  OBVIOUS
<1>1. HistoryTypeOK
  BY HistoryInitType
<1>2. PodsHaveRun
  BY <1>1 DEF HInit, HistoryInit, Init, WatchInit, PodsHaveRun, HasRun, RunningIn,
             Existing, IsSparkDriver
<1>3. DeltasHaveRun
  <2>1. ASSUME NEW p \in PodNames, NEW i \in 1 .. Len(deltas[p])
        PROVE  p \in Existing /\ deltas[p][i].pod = pods[p]
    BY DEF HInit, Init, WatchInit, FirstList, Now
  <2> QED
    BY <1>2, <2>1 DEF PodsHaveRun, DeltasHaveRun
<1>4. ListRunning \subseteq ran
  BY DEF HInit, Init, StoreInit, ListRunning, Held
<1>5. CallsHaveRun
  BY DEF HInit, Init, CallsInit, CallsHaveRun, WantNothing, Routes
<1>6. RouteOnlyForDriverThatRan
  BY DEF HInit, HistoryInit, RouteOnlyForDriverThatRan
<1> QED
  BY <1>2, <1>3, <1>4, <1>5, <1>6 DEF RanInv

\* A Manager call creates a route only for its target or for what it wants.
LEMMA RanManagerStep ==
  ASSUME HistoryTypeOK, RanInv, ran \subseteq ran',
         NEW c \in Callers, ManagerStep(c)
  PROVE  (CallsHaveRun /\ RouteOnlyForDriverThatRan)'
<1> USE DEF HistoryTypeOK, TypeOK, RanInv
<1>1. CASE EnsureGet(c)
  <2>1. /\ wanted' = wanted \/ wanted' = [wanted EXCEPT ![c] = WantNothing]
        /\ target' = target \/ target' = [target EXCEPT ![c] = None]
        /\ \/ pc' = [pc EXCEPT ![c] = "create"] /\ target' = target
           \/ pc' = [pc EXCEPT ![c] = "idle"]
        /\ routes' = routes
        /\ pc[c] = "get"
    BY <1>1 DEF EnsureGet, Return, Goto
  <2> QED
    BY <2>1 DEF CallsHaveRun, RouteOnlyForDriverThatRan, Present, ManagerTypeOK,
                WantNothing, Routes
<1>2. ASSUME pc[c] \in {"create", "delete"}, Return(c, "idle"),
             \/ routes' = routes
             \/ routes' = Created(RouteName[target[c]], target[c]) /\ pc[c] = "create"
             \/ routes' = Deleted(RouteName[target[c]])
      PROVE  (CallsHaveRun /\ RouteOnlyForDriverThatRan)'
  <2>1. CallsHaveRun'
    BY <1>2 DEF Return, Goto, CallsHaveRun, ManagerTypeOK, WantNothing, Routes
  <2>2. RouteOnlyForDriverThatRan'
    BY <1>2 DEF Created, Deleted, RouteOnlyForDriverThatRan, Present, CallsHaveRun,
                ManagerTypeOK
  <2> QED
    BY <2>1, <2>2
<1>3. CASE EnsureCreate(c)
  BY <1>2, <1>3 DEF EnsureCreate, Write
<1>4. CASE DeleteCall(c)
  BY <1>2, <1>4 DEF DeleteCall, Write
<1>5. CASE ReconcileList(c)
  <2>1. \E l : Goto(c, l) /\ l \in {"returned", "fix"}
    BY <1>5 DEF ReconcileList, AfterFix
  <2> QED
    BY <1>5, <2>1 DEF ReconcileList, Goto, CallsHaveRun, RouteOnlyForDriverThatRan,
                      Present, ManagerTypeOK
<1>6. CASE ReconcileDelete(c)
  <2>1. PICK n \in stale[c] :
          Write(Deleted(n)) /\ Goto(c, AfterFix(stale[c] \ {n}, missing[c]))
    BY <1>6 DEF ReconcileDelete
  <2>2. CallsHaveRun'
    BY <1>6, <2>1 DEF ReconcileDelete, Goto, AfterFix, CallsHaveRun, ManagerTypeOK
  <2>3. RouteOnlyForDriverThatRan'
    BY <2>1 DEF Write, Deleted, RouteOnlyForDriverThatRan, Present, ManagerTypeOK
  <2> QED
    BY <2>2, <2>3
<1>7. CASE ReconcileCreate(c)
  <2>1. PICK n \in missing[c] :
          Write(Created(n, wanted[c][n])) /\ Goto(c, AfterFix({}, missing[c] \ {n}))
    BY <1>7 DEF ReconcileCreate
  <2>2. CallsHaveRun'
    BY <1>7, <2>1 DEF ReconcileCreate, Goto, AfterFix, CallsHaveRun, ManagerTypeOK
  <2>3. n \in RouteNames /\ wanted[c][n] \in ran \cup {None}
    BY DEF CallsHaveRun, ManagerTypeOK
  <2>4. RouteOnlyForDriverThatRan'
    BY <2>1, <2>3 DEF Write, Created, RouteOnlyForDriverThatRan, Present, ManagerTypeOK
  <2> QED
    BY <2>2, <2>4
<1>8. CASE RootGet(c)
  BY <1>8 DEF RootGet, Goto, CallsHaveRun, RouteOnlyForDriverThatRan, Present,
              ManagerTypeOK
<1>9. CASE RootWrite(c)
  <2>1. CallsHaveRun'
    BY <1>9 DEF RootWrite, Goto, CallsHaveRun, ManagerTypeOK
  <2>2. \A n \in RouteNames : routes'[n] = routes[n]
    BY <1>9, RootRouteAssumption DEF RootWrite, Write, ManagerTypeOK, Routes
  <2>3. RouteOnlyForDriverThatRan'
    BY <2>2 DEF RouteOnlyForDriverThatRan, Present, Routes
  <2> QED
    BY <2>1, <2>3
<1> QED
  BY <1>1, <1>3, <1>4, <1>5, <1>6, <1>7, <1>8, <1>9 DEF ManagerStep, ReconcileStep

\* More has run, and the pods that run have.
LEMMA RanGrows ==
  ASSUME HistoryTypeOK, HNext
  PROVE  /\ ran \subseteq ran'
         /\ \A p \in PodNames : (p \in Existing)' => HasRun(pods[p])'
<1>1. TypeOK'
  BY NextType DEF HistoryTypeOK, HNext
<1>2. ran' = ran \cup RunningIn(pods')
  BY DEF HNext, HistoryStep
<1> QED
  BY <1>1, <1>2 DEF TypeOK, WatchTypeOK, Existing, HasRun, IsSparkDriver, RunningIn

LEMMA RanQueued ==
  ASSUME HistoryTypeOK, RanInv, ran \subseteq ran',
         \A p \in PodNames : (p \in Existing)' => HasRun(pods[p])',
         NEW p \in PodNames, NEW d \in Delta, Queued(p, d), HasRun(d.pod)'
  PROVE  PodsHaveRun' /\ DeltasHaveRun'
<1> USE DEF HistoryTypeOK, TypeOK, WatchTypeOK
<1>1. PodsHaveRun'
  BY DEF RanInv, PodsHaveRun, HasRun, Queued
<1>2. ASSUME NEW q \in PodNames, NEW i \in 1 .. Len(deltas'[q])
      PROVE  HasRun(deltas[q][i].pod)'
  <2>1. CASE q # p
    <3>1. deltas'[q] = deltas[q]
      BY <2>1 DEF Queued
    <3>2. HasRun(deltas[q][i].pod)
      BY <3>1 DEF RanInv, DeltasHaveRun
    <3> QED
      BY <3>1, <3>2 DEF HasRun
  <2>2. CASE q = p
    <3>1. deltas'[q] = Append(deltas[p], d)
      BY <2>2 DEF Queued
    <3>2. CASE i = Len(deltas[p]) + 1
      BY <3>1, <3>2
    <3>3. CASE i \in 1 .. Len(deltas[p])
      <4>1. deltas'[q][i] = deltas[p][i]
        BY <3>1, <3>3
      <4>2. HasRun(deltas[p][i].pod)
        BY <3>3 DEF RanInv, DeltasHaveRun
      <4> QED
        BY <4>1, <4>2 DEF HasRun
    <3>4. i \in 1 .. Len(deltas[p]) + 1
      BY <3>1
    <3> QED
      BY <3>2, <3>3, <3>4
  <2> QED
    BY <2>1, <2>2
<1> QED
  BY <1>1, <1>2 DEF DeltasHaveRun

LEMMA RanClusterStep ==
  ASSUME HistoryTypeOK, RanInv, ran \subseteq ran',
         \A p \in PodNames : (p \in Existing)' => HasRun(pods[p])',
         ClusterStep
  PROVE  PodsHaveRun' /\ DeltasHaveRun'
<1> USE DEF HistoryTypeOK, TypeOK, WatchTypeOK
<1>1. PICK p \in PodNames : PodCreated(p) \/ PodUpdated(p) \/ PodDeleted(p)
  BY DEF ClusterStep
<1>2. ASSUME NEW pod \in Pod, Changed(p, pod) PROVE PodsHaveRun' /\ DeltasHaveRun'
  <2>1. pods'[p] = pod /\ (p \in Existing)'
    BY <1>2, NoPodAssumption DEF Changed, Existing
  <2>2. HasRun(Now(pod).pod)' /\ Now(pod) \in Delta
    BY <2>1 DEF Now, HasRun, Delta
  <2> QED
    BY <1>2, <2>2, RanQueued DEF Changed
<1>3. CASE PodCreated(p)
  <2>1. PICK s \in LabelOf[p], ph \in Phases \cap {"", "Pending"} :
          Changed(p, [sel |-> s, phase |-> ph])
    BY <1>3 DEF PodCreated
  <2>2. [sel |-> s, phase |-> ph] \in Pod
    BY LabelOfAssumption DEF Pod, PodPhases
  <2> QED
    BY <2>1, <2>2, <1>2
<1>4. CASE PodUpdated(p)
  <2>1. PICK ph \in Phases : Changed(p, [pods[p] EXCEPT !.phase = ph])
    BY <1>4 DEF PodUpdated
  <2>2. [pods[p] EXCEPT !.phase = ph] \in Pod
    BY <1>4, PhasesAssumption DEF PodUpdated, Existing, Pod
  <2> QED
    BY <2>1, <2>2, <1>2
<1>5. CASE PodDeleted(p)
  <2>1. PICK pod \in Pod : pod = pods[p]
    BY <1>5 DEF PodDeleted, Existing
  <2>2. HasRun(pod)
    BY <1>5, <2>1 DEF PodDeleted, Existing, RanInv, PodsHaveRun
  <2>3. Gone(pod) \in Delta /\ HasRun(Gone(pod).pod)'
    BY <2>2 DEF Gone, Delta, HasRun
  <2>4. Queued(p, Gone(pod))
    BY <1>5, <2>1 DEF PodDeleted
  <2> QED
    BY <2>3, <2>4, RanQueued
<1> QED
  BY <1>1, <1>3, <1>4, <1>5

LEMMA RanRelist ==
  ASSUME HistoryTypeOK, RanInv, ran \subseteq ran',
         \A p \in PodNames : (p \in Existing)' => HasRun(pods[p])',
         Relist
  PROVE  PodsHaveRun' /\ DeltasHaveRun'
<1> USE DEF HistoryTypeOK, TypeOK, WatchTypeOK
<1>1. PodsHaveRun'
  BY DEF RanInv, PodsHaveRun, HasRun, Relist
<1>2. PICK kept \in [PodNames -> 0 .. MaxDeltas] :
        /\ \A p \in PodNames : kept[p] <= Len(deltas[p])
        /\ deltas' = [p \in PodNames |-> Listed(p, SubSeq(deltas[p], 1, kept[p]))]
  BY DEF Relist
<1>3. ASSUME NEW p \in PodNames, NEW i \in 1 .. Len(deltas'[p])
      PROVE  HasRun(deltas'[p][i].pod)
  <2> DEFINE q == SubSeq(deltas[p], 1, kept[p])
  <2>1. /\ q \in Seq(Delta)
        /\ Len(q) = kept[p] /\ kept[p] \in Nat
        /\ \A j \in 1 .. Len(q) : HasRun(q[j].pod)
    <3>1. deltas[p] \in Seq(Delta) /\ kept[p] \in Nat /\ kept[p] <= Len(deltas[p])
      BY <1>2, MaxDeltasAssumption
    <3>2. \A j \in 1 .. kept[p] : deltas[p][j] \in Delta /\ HasRun(deltas[p][j].pod)
      BY <3>1 DEF RanInv, DeltasHaveRun
    <3> QED
      BY <3>1, <3>2, SubSeqProperties
  <2>2. deltas'[p] = Listed(p, q)
    BY <1>2
  <2> HIDE DEF q
  <2>3. CASE deltas'[p] = q
    BY <2>1, <2>3
  <2>4. ASSUME NEW d \in Delta, HasRun(d.pod), deltas'[p] = Append(q, d)
        PROVE  HasRun(deltas'[p][i].pod)
    <3>1. i \in 1 .. Len(q) + 1
      BY <2>1, <2>4
    <3>2. CASE i = Len(q) + 1
      BY <2>1, <2>4, <3>2
    <3>3. CASE i \in 1 .. Len(q)
      BY <2>1, <2>4, <3>3
    <3> QED
      BY <2>1, <3>1, <3>2, <3>3
  <2>5. CASE p \in Existing
    <3>1. pods[p] \in Pod /\ HasRun(pods[p])
      BY <2>5 DEF Existing, RanInv, PodsHaveRun
    <3>2. Now(pods[p]) \in Delta /\ HasRun(Now(pods[p]).pod)
      BY <3>1 DEF Now, Delta
    <3> QED
      BY <2>2, <2>4, <2>5, <3>2 DEF Listed
  <2>6. CASE p \notin Existing /\ q = <<>> /\ cache[p] # None
    <3>1. cache[p] \in Pod /\ HasRun(cache[p])
      BY <2>6 DEF RanInv, PodsHaveRun
    <3>2. Gone(cache[p]) \in Delta /\ HasRun(Gone(cache[p]).pod)
      BY <3>1 DEF Gone, Delta
    <3>3. deltas'[p] = Append(q, Gone(cache[p]))
      BY <2>2, <2>6 DEF Listed
    <3> QED
      BY <2>4, <3>2, <3>3
  <2>7. CASE p \notin Existing /\ q # <<>> /\ ~q[Len(q)].gone
    <3>1. q[Len(q)] \in Delta /\ HasRun(q[Len(q)].pod)
      BY <2>1, <2>7
    <3>2. Gone(q[Len(q)].pod) \in Delta /\ HasRun(Gone(q[Len(q)].pod).pod)
      BY <3>1 DEF Gone, Delta
    <3> QED
      BY <2>2, <2>4, <2>7, <3>2 DEF Listed
  <2> QED
    BY <2>2, <2>3, <2>5, <2>6, <2>7 DEF Listed
<1>4. DeltasHaveRun'
  BY <1>3 DEF DeltasHaveRun, HasRun
<1> QED
  BY <1>1, <1>4

LEMMA RanHandleDelta ==
  ASSUME HistoryTypeOK, RanInv, ran \subseteq ran',
         \A p \in PodNames : (p \in Existing)' => HasRun(pods[p])',
         NEW p \in PodNames, HandleDelta(p)
  PROVE  RanInv'
<1> USE DEF HistoryTypeOK, TypeOK
<1> DEFINE d == Head(deltas[p])
<1>1. /\ deltas[p] \in Seq(Delta) /\ deltas[p] # <<>>
      /\ d \in Delta /\ d = deltas[p][1]
      /\ d.pod \in Pod
      /\ HasRun(d.pod)
  <2>1. deltas[p] \in Seq(Delta) /\ deltas[p] # <<>>
    BY DEF HandleDelta, WatchTypeOK
  <2>2. 1 \in 1 .. Len(deltas[p])
    BY <2>1
  <2>3. d = deltas[p][1] /\ d \in Delta
    BY <2>1, <2>2
  <2> QED
    BY <2>1, <2>2, <2>3 DEF RanInv, DeltasHaveRun, Delta
<1> HIDE DEF d
<1>2. PodsHaveRun'
  <2>1. cache' = [cache EXCEPT ![p] = IF d.gone THEN None ELSE d.pod]
    BY DEF HandleDelta, d
  <2> QED
    BY <1>1, <2>1 DEF HandleDelta, WatchTypeOK, RanInv, PodsHaveRun, HasRun, IsSparkDriver
<1>3. DeltasHaveRun'
  <2>1. ASSUME NEW q \in PodNames, NEW i \in 1 .. Len(deltas'[q])
        PROVE  HasRun(deltas'[q][i].pod)
    <3>1. CASE q # p
      BY <3>1 DEF HandleDelta, WatchTypeOK, RanInv, DeltasHaveRun
    <3>2. CASE q = p
      <4>1. deltas'[q] = Tail(deltas[p])
        BY <3>2 DEF HandleDelta, WatchTypeOK
      <4>2. i + 1 \in 1 .. Len(deltas[p]) /\ deltas'[q][i] = deltas[p][i + 1]
        BY <1>1, <4>1
      <4> QED
        BY <4>2 DEF RanInv, DeltasHaveRun
    <3> QED
      BY <3>1, <3>2
  <2> QED
    BY <2>1 DEF DeltasHaveRun, HasRun
<1>4. routes' = routes /\ wanted' = wanted
  BY DEF HandleDelta, NoCall, managerVars, callVars, DeleteFunc, AddFunc, UpdateFunc,
         OnAdd, OnRemove, BeginEnsure, BeginDelete
<1>5. RouteOnlyForDriverThatRan'
  BY <1>4 DEF RanInv, RouteOnlyForDriverThatRan, Present
<1>6. Watcher \in Callers
  BY CallersElements
<1>7. ASSUME NoCall \/ \E s : OnRemove(s)
      PROVE  CallsHaveRun'
  BY <1>4, <1>6, <1>7 DEF NoCall, managerVars, callVars, OnRemove, BeginDelete, Goto,
     RanInv, CallsHaveRun, ManagerTypeOK
<1>8. CASE NoCall /\ UNCHANGED drivers
  BY <1>2, <1>3, <1>5, <1>7, <1>8 DEF RanInv, ListRunning, Held
<1>9. CASE DeleteFunc(p, d.pod)
  <2>1. (ListRunning \subseteq ran)'
    BY <1>9 DEF DeleteFunc, Remove, RanInv, ListRunning, Held, StoreTypeOK
  <2> QED
    BY <1>2, <1>3, <1>5, <1>7, <1>9, <2>1 DEF DeleteFunc, RanInv
<1>10. CASE /\ IsSparkDriver(d.pod)
            /\ AddFunc(p, DriverOf(d.pod)) \/ UpdateFunc(p, DriverOf(d.pod))
  <2> DEFINE dr == DriverOf(d.pod)
  <2>1. dr \in Driver
    BY <1>1, <1>10, DriverOfType
  <2>2. dr.state = "Running" => dr.sel \in ran
    <3>1. StateOf(d.pod.phase) = "Running" => d.pod.phase = "Running"
      BY <1>1 DEF StateOf, Pod, PodPhases
    <3> QED
      BY <1>1, <1>10, <3>1 DEF DriverOf, HasRun
  <2> HIDE DEF dr
  <2>3. Add(p, dr)
    BY <1>10 DEF AddFunc, UpdateFunc, dr
  <2>4. (ListRunning \subseteq ran)'
    BY <2>1, <2>2, <2>3 DEF Add, RanInv, ListRunning, Held, StoreTypeOK, Driver
  <2>5. CallsHaveRun'
    <3>1. CASE dr.state = "Running" /\ OnAdd(dr)
      BY <1>4, <1>6, <2>2, <3>1 DEF OnAdd, BeginEnsure, Goto, RanInv, CallsHaveRun, ManagerTypeOK
    <3>2. \/ dr.state = "Running" /\ OnAdd(dr)
          \/ NoCall
          \/ \E s : OnRemove(s)
      BY <1>10 DEF AddFunc, UpdateFunc, dr
    <3> QED
      BY <1>7, <3>1, <3>2
  <2> QED
    BY <1>2, <1>3, <1>5, <2>4, <2>5 DEF RanInv
<1> QED
  BY <1>8, <1>9, <1>10 DEF HandleDelta, d

LEMMA RanBeginReconcile ==
  ASSUME HistoryTypeOK, RanInv, ran \subseteq ran',
         NEW c \in Callers, NEW w \in WantedMaps(ListRunning), BeginReconcile(c, w)
  PROVE  (CallsHaveRun /\ RouteOnlyForDriverThatRan)'
<1>1. \A n \in Routes : w[n] \in ListRunning \cup {None}
  BY DEF WantedMaps
<1>2. \A n \in RouteNames : w[n] \in ran' \cup {None}
  BY <1>1 DEF RanInv, Routes
<1> QED
  BY <1>2 DEF BeginReconcile, Goto, HistoryTypeOK, TypeOK, ManagerTypeOK, RanInv,
              CallsHaveRun, RouteOnlyForDriverThatRan, Present

LEMMA RanReturn ==
  ASSUME HistoryTypeOK, RanInv, ran \subseteq ran',
         NEW c \in Callers, NEW l \in {"idle", "rootget"}, Return(c, l), routes' = routes
  PROVE  (CallsHaveRun /\ RouteOnlyForDriverThatRan)'
BY DEF Return, Goto, HistoryTypeOK, TypeOK, ManagerTypeOK, RanInv, CallsHaveRun,
       RouteOnlyForDriverThatRan, Present, WantNothing, Routes

\* The steps that change neither the pods nor what the informer holds of them.
LEMMA RanElsewhere ==
  ASSUME RanInv, ran \subseteq ran', UNCHANGED watchVars
  PROVE  PodsHaveRun' /\ DeltasHaveRun'
BY DEF RanInv, PodsHaveRun, DeltasHaveRun, HasRun, watchVars, Existing

LEMMA RanNext == HistoryTypeOK /\ RanInv /\ [HNext]_hvars => RanInv'
<1> SUFFICES ASSUME HistoryTypeOK, RanInv, [HNext]_hvars PROVE RanInv'
  OBVIOUS
<1>1. CASE UNCHANGED hvars
  BY <1>1 DEF hvars, vars, managerVars, callVars, watchVars, RanInv, PodsHaveRun,
     DeltasHaveRun, CallsHaveRun, RouteOnlyForDriverThatRan, HasRun, Existing,
     ListRunning, Held, Present
<1>2. CASE HNext
  <2>1. /\ ran \subseteq ran'
        /\ \A p \in PodNames : (p \in Existing)' => HasRun(pods[p])'
    BY <1>2, RanGrows
  <2>2. ASSUME UNCHANGED drivers PROVE (ListRunning \subseteq ran)'
    BY <2>1, <2>2 DEF RanInv, ListRunning, Held
  <2>3. ASSUME UNCHANGED managerVars PROVE (CallsHaveRun /\ RouteOnlyForDriverThatRan)'
    BY <2>1, <2>3 DEF managerVars, callVars, RanInv, CallsHaveRun,
                      RouteOnlyForDriverThatRan, Present
  <2>4. CASE ClusterStep
    BY <2>1, <2>2, <2>3, <2>4, RanClusterStep DEF ClusterStep, RanInv
  <2>5. CASE BrokenWatch
    BY <2>1, <2>2, <2>3, <2>5, RanRelist DEF BrokenWatch, RanInv
  <2>6. ASSUME NEW p \in PodNames, WatcherHandles(p) PROVE RanInv'
    BY <2>1, <2>6, RanHandleDelta DEF WatcherHandles
  <2>7. ASSUME NEW c \in Callers, ManagerStep(c) PROVE RanInv'
    <3>1. UNCHANGED <<drivers, watchVars>>
      BY <2>7 DEF ManagerStep
    <3> QED
      BY <2>1, <2>2, <2>7, <3>1, RanManagerStep, RanElsewhere DEF RanInv
  <2>8. CASE Synced
    <3>1. (CallsHaveRun /\ RouteOnlyForDriverThatRan)'
      BY <2>1, <2>8 DEF Synced, Goto, HistoryTypeOK, TypeOK, ManagerTypeOK, RanInv,
         CallsHaveRun, RouteOnlyForDriverThatRan, Present
    <3>2. UNCHANGED <<drivers, watchVars>>
      BY <2>8 DEF Synced
    <3> QED
      BY <2>1, <2>2, <3>1, <3>2, RanElsewhere DEF RanInv
  <2>9. CASE InitialReconcile
    <3>1. UNCHANGED <<drivers, watchVars>>
      BY <2>9 DEF InitialReconcile
    <3>2. (CallsHaveRun /\ RouteOnlyForDriverThatRan)'
      BY <2>1, <2>9, CallersElements, RanBeginReconcile DEF InitialReconcile
    <3> QED
      BY <2>1, <2>2, <3>1, <3>2, RanElsewhere DEF RanInv
  <2>10. ASSUME NEW c \in Callers, NEW l \in {"idle", "rootget"}, Return(c, l),
                UNCHANGED <<drivers, routes, watchVars>>
         PROVE  RanInv'
    BY <2>1, <2>2, <2>10, RanReturn, RanElsewhere DEF RanInv
  <2>11. ASSUME NEW r \in Requests, NEW s \in Selectors, StatusPage(r, s) PROVE RanInv'
    <3>1. PICK dr \in FindBySelector(s) : dr.state = "Running" /\ BeginEnsure(r, dr.sel)
      BY <2>11 DEF StatusPage
    <3>2. dr.sel \in ran
      BY <3>1 DEF FindBySelector, ListRunning, RanInv, Held
    <3>3. (CallsHaveRun /\ RouteOnlyForDriverThatRan)'
      BY <2>1, <3>1, <3>2, CallersElements DEF BeginEnsure, Goto, HistoryTypeOK,
         TypeOK, ManagerTypeOK, RanInv, CallsHaveRun, RouteOnlyForDriverThatRan, Present
    <3>4. UNCHANGED <<drivers, watchVars>>
      BY <2>11 DEF StatusPage
    <3> QED
      BY <2>1, <2>2, <3>3, <3>4, RanElsewhere DEF RanInv
  <2>12. ASSUME NEW r \in Requests, ReconcileRequest(r) PROVE RanInv'
    <3>1. UNCHANGED <<drivers, watchVars>>
      BY <2>12 DEF ReconcileRequest
    <3>2. (CallsHaveRun /\ RouteOnlyForDriverThatRan)'
      BY <2>1, <2>12, CallersElements, RanBeginReconcile DEF ReconcileRequest
    <3> QED
      BY <2>1, <2>2, <3>1, <3>2, RanElsewhere DEF RanInv
  <2>13. CASE InitialReconciled
    BY <2>10, <2>13, CallersElements DEF InitialReconciled
  <2>14. ASSUME NEW r \in Requests, ReconcileResponse(r) PROVE RanInv'
    BY <2>10, <2>14, CallersElements DEF ReconcileResponse
  <2>15. CASE Crash
    <3>1. PodsHaveRun'
      BY <2>1, <2>15 DEF Crash, WatchRestart, PodsHaveRun
    <3>2. DeltasHaveRun'
      <4>1. ASSUME NEW p \in PodNames, NEW i \in 1 .. Len(deltas'[p])
            PROVE  p \in Existing /\ deltas'[p][i].pod = pods[p]
        BY <2>15 DEF Crash, WatchRestart, FirstList, Now
      <4> QED
        BY <2>1, <2>15, <4>1 DEF DeltasHaveRun, HasRun, Crash, WatchRestart, Existing
    <3>3. (ListRunning \subseteq ran)'
      BY <2>15 DEF Crash, ListRunning, Held
    <3>4. CallsHaveRun'
      BY <2>15 DEF Crash, CallsHaveRun, WantNothing, Routes
    <3>5. RouteOnlyForDriverThatRan'
      BY <2>1, <2>15 DEF Crash, RanInv, RouteOnlyForDriverThatRan, Present
    <3> QED
      BY <3>1, <3>2, <3>3, <3>4, <3>5 DEF RanInv
  <2> QED
    BY <1>2, <2>4, <2>5, <2>6, <2>7, <2>8, <2>9, <2>11, <2>12, <2>13, <2>14, <2>15,
       CallersElements
    DEF HNext, Next, SyncerStep, RequestStep
<1> QED
  BY <1>1, <1>2

\* In every behaviour, a driver route in the cluster serves an application whose
\* driver pod has been Running: what the handlers, the reconciles and the status
\* page create always goes back to a Running pod, through any races and crashes.
THEOREM RoutesOnlyForDriversThatRan == HSpec => []RouteOnlyForDriverThatRan
<1>1. HSpec => [](HistoryTypeOK /\ RanInv)
  BY HistoryInitType, HistoryNextType, RanInit, RanNext, PTL DEF HSpec
<1>2. RanInv => RouteOnlyForDriverThatRan
  BY DEF RanInv
<1> QED
  BY <1>1, <1>2, PTL

----------------------------------------------------------------------------
(* The root route is never removed                                         *)

LEMMA SpareStep ==
  ASSUME TypeOK, CallsSpareRoot, [Next]_vars, routes[RootRoute] # None
  PROVE  routes'[RootRoute] # None
<1> USE DEF TypeOK
<1>1. CASE UNCHANGED routes
  BY <1>1
<1>2. ASSUME NEW n \in RouteNames, NEW s,
             \/ routes' = routes
             \/ routes' = Created(n, s)
             \/ routes' = Deleted(n)
      PROVE  routes'[RootRoute] # None
  BY <1>2, RootRouteAssumption DEF Created, Deleted, ManagerTypeOK, Routes
<1>3. ASSUME NEW c \in Callers, ManagerStep(c) PROVE routes'[RootRoute] # None
  <2>1. CASE EnsureCreate(c) \/ DeleteCall(c)
    <3>1. target[c] \in Selectors
      BY <2>1 DEF EnsureCreate, DeleteCall, CallsSpareRoot
    <3>2. RouteName[target[c]] \in RouteNames
      BY <3>1, RouteNameAssumption
    <3> QED
      BY <1>2, <2>1, <3>2 DEF EnsureCreate, DeleteCall, Write
  <2>2. CASE ReconcileDelete(c)
    <3>1. PICK n \in stale[c] : Write(Deleted(n))
      BY <2>2 DEF ReconcileDelete
    <3>2. n \in RouteNames
      BY DEF CallsSpareRoot, ManagerTypeOK, Routes
    <3> QED
      BY <1>2, <3>1, <3>2 DEF Write
  <2>3. CASE ReconcileCreate(c)
    <3>1. PICK n \in missing[c] : Write(Created(n, wanted[c][n]))
      BY <2>3 DEF ReconcileCreate
    <3>2. n \in RouteNames
      BY DEF ManagerTypeOK
    <3> QED
      BY <1>2, <3>1, <3>2 DEF Write
  <2>4. CASE RootWrite(c)
    BY <2>4, FallbackAssumption DEF RootWrite, Write, ManagerTypeOK, Routes
  <2>5. CASE EnsureGet(c) \/ ReconcileList(c) \/ RootGet(c)
    BY <1>1, <2>5 DEF EnsureGet, ReconcileList, RootGet
  <2> QED
    BY <1>3, <2>1, <2>2, <2>3, <2>4, <2>5 DEF ManagerStep, ReconcileStep
<1>4. ASSUME NEW p \in PodNames, WatcherHandles(p) PROVE UNCHANGED routes
  BY <1>4 DEF WatcherHandles, HandleDelta, NoCall, managerVars, DeleteFunc, AddFunc,
     UpdateFunc, OnAdd, OnRemove, BeginEnsure, BeginDelete
<1>5. ASSUME NEW r \in Requests,
             \/ \E s \in Selectors : StatusPage(r, s)
             \/ ReconcileRequest(r)
             \/ ReconcileResponse(r)
      PROVE  UNCHANGED routes
  BY <1>5 DEF StatusPage, ReconcileRequest, ReconcileResponse, BeginEnsure, BeginReconcile
<1>6. CASE \/ ClusterStep \/ BrokenWatch \/ Crash \/ UNCHANGED vars
           \/ Synced \/ InitialReconcile \/ InitialReconciled
  BY <1>1, <1>6 DEF ClusterStep, BrokenWatch, Crash, vars, managerVars, Synced,
     InitialReconcile, InitialReconciled, BeginReconcile
<1> QED
  BY <1>1, <1>3, <1>4, <1>5, <1>6, CallersElements DEF Next, SyncerStep, RequestStep

\* In every behaviour, once the root route exists nothing removes it: not the
\* Reconciles, whatever they list, and not the Delete of any driver's route.
THEOREM RootRouteNeverRemoved == HSpec => RootRouteKept
<1>1. HInit => TypeOK /\ CallsSpareRoot
  BY InitType DEF HInit, Init, CallsInit, CallsSpareRoot
<1>2. TypeOK /\ CallsSpareRoot /\ [HNext]_hvars => TypeOK' /\ CallsSpareRoot'
  BY NextType, SpareNext DEF HNext, hvars
<1>3. TypeOK /\ CallsSpareRoot /\ [HNext]_hvars
        => [routes[RootRoute] # None => routes'[RootRoute] # None]_hvars
  BY SpareStep DEF HNext, hvars
<1> QED
  BY <1>1, <1>2, <1>3, PTL DEF HSpec, RootRouteKept

----------------------------------------------------------------------------
(* The refinement: every step is one of a RouteBoard, or a stutter         *)

\* A request on the routes is a step of the board: it publishes, or withdraws, or
\* changes nothing.
LEMMA BoardWrite ==
  ASSUME TypeOK, UNCHANGED ran, NEW n \in RouteNames,
         \/ routes' = routes
         \/ routes' = Deleted(n)
         \/ \E s \in ran : RouteName[s] = n /\ routes' = Created(n, s)
  PROVE  Board!Next
<1>1. n \in Present \/ routes[n] = None
  BY DEF Present, Routes
<1>2. CASE routes' = routes
  BY <1>2 DEF Board!Next, Board!AppRuns
<1>3. CASE routes' = Deleted(n)
  BY <1>3 DEF Deleted, Board!Next, Board!Withdraw
<1>4. CASE \E s \in ran : RouteName[s] = n /\ routes' = Created(n, s)
  BY <1>1, <1>2, <1>4 DEF Created, Board!Next, Board!Publish
<1> QED
  BY <1>2, <1>3, <1>4

LEMMA BoardManagerStep ==
  ASSUME TypeOK, RanInv, CallsSpareRoot, CallsNameRoutes, UNCHANGED ran,
         NEW c \in Callers, ManagerStep(c)
  PROVE  Board!Next
<1> USE DEF TypeOK
<1>1. CASE EnsureGet(c) \/ ReconcileList(c) \/ RootGet(c)
  BY <1>1 DEF EnsureGet, ReconcileList, RootGet, Board!Next, Board!AppRuns
<1>2. CASE EnsureCreate(c)
  <2>1. target[c] \in ran /\ RouteName[target[c]] \in RouteNames
    BY <1>2, RouteNameAssumption DEF EnsureCreate, RanInv, CallsHaveRun, CallsSpareRoot
  <2> QED
    BY <1>2, <2>1, BoardWrite DEF EnsureCreate, Write
<1>3. CASE DeleteCall(c)
  <2>1. RouteName[target[c]] \in RouteNames
    BY <1>3, RouteNameAssumption DEF DeleteCall, CallsSpareRoot
  <2> QED
    BY <1>3, <2>1, BoardWrite DEF DeleteCall, Write
<1>4. CASE ReconcileDelete(c)
  <2>1. PICK n \in stale[c] : Write(Deleted(n))
    BY <1>4 DEF ReconcileDelete
  <2>2. n \in RouteNames
    BY DEF CallsSpareRoot, ManagerTypeOK, Routes
  <2> QED
    BY <2>1, <2>2, BoardWrite DEF Write
<1>5. CASE ReconcileCreate(c)
  <2>1. PICK n \in missing[c] : Write(Created(n, wanted[c][n]))
    BY <1>5 DEF ReconcileCreate
  <2>2. n \in RouteNames
    BY DEF ManagerTypeOK
  <2>3. wanted[c][n] \in ran /\ RouteName[wanted[c][n]] = n
    BY <1>5, <2>2 DEF ReconcileCreate, RanInv, CallsHaveRun, CallsNameRoutes
  <2> QED
    BY <2>1, <2>2, <2>3, BoardWrite DEF Write
<1>6. CASE RootWrite(c)
  BY <1>6 DEF RootWrite, Write, Board!Next, Board!AppRuns, Board!PublishRoot
<1> QED
  BY <1>1, <1>2, <1>3, <1>4, <1>5, <1>6 DEF ManagerStep, ReconcileStep

LEMMA BoardStep ==
  ASSUME TypeOK, RanInv, CallsSpareRoot, CallsNameRoutes, [HNext]_hvars
  PROVE  [Board!Next]_<<ran, routes>>
<1>1. CASE UNCHANGED routes /\ ran \subseteq ran'
  BY <1>1 DEF Board!Next, Board!AppRuns
<1>2. CASE UNCHANGED hvars
  BY <1>2 DEF hvars, vars, managerVars
<1>3. CASE HNext
  <2>1. ran' = ran \cup RunningIn(pods')
    BY <1>3 DEF HNext, HistoryStep
  <2>2. ASSUME NEW c \in Callers, ManagerStep(c) PROVE Board!Next
    <3>1. RunningIn(pods) \subseteq ran
      BY DEF RunningIn, RanInv, PodsHaveRun, HasRun, IsSparkDriver, Existing
    <3>2. UNCHANGED ran
      BY <2>1, <2>2, <3>1 DEF ManagerStep, watchVars
    <3> QED
      BY <2>2, <3>2, BoardManagerStep
  <2>3. ASSUME NEW p \in PodNames, WatcherHandles(p) PROVE UNCHANGED routes
    BY <2>3 DEF WatcherHandles, HandleDelta, NoCall, managerVars, DeleteFunc, AddFunc,
       UpdateFunc, OnAdd, OnRemove, BeginEnsure, BeginDelete
  <2>4. ASSUME NEW r \in Requests,
               \/ \E s \in Selectors : StatusPage(r, s)
               \/ ReconcileRequest(r)
               \/ ReconcileResponse(r)
        PROVE  UNCHANGED routes
    BY <2>4 DEF StatusPage, ReconcileRequest, ReconcileResponse, BeginEnsure,
                BeginReconcile
  <2>5. CASE \/ ClusterStep \/ BrokenWatch \/ Crash
             \/ Synced \/ InitialReconcile \/ InitialReconciled
    BY <1>1, <2>1, <2>5 DEF ClusterStep, BrokenWatch, Crash, managerVars, Synced,
       InitialReconcile, InitialReconciled, BeginReconcile
  <2> QED
    BY <1>1, <1>3, <2>1, <2>2, <2>3, <2>4, <2>5, CallersElements
    DEF HNext, Next, SyncerStep, RequestStep
<1> QED
  BY <1>2, <1>3

LEMMA BoardInit == HInit => HistoryTypeOK /\ RanInv /\ CallsSpareRoot /\ CallsNameRoutes
                            /\ Board!Init
<1> SUFFICES ASSUME HInit
             PROVE  HistoryTypeOK /\ RanInv /\ CallsSpareRoot /\ CallsNameRoutes
                    /\ Board!Init
  OBVIOUS
<1>1. HistoryTypeOK /\ RanInv
  BY HistoryInitType, RanInit
<1>2. CallsSpareRoot /\ CallsNameRoutes
  BY DEF HInit, Init, CallsInit, CallsSpareRoot, CallsNameRoutes, WantNothing, Routes
<1>3. Board!Init
  <2>1. ran \subseteq Selectors /\ routes \in [Routes -> Selectors \cup {Fallback, None}]
    BY <1>1 DEF HistoryTypeOK, TypeOK, ManagerTypeOK
  <2>2. \A n \in RouteNames : routes[n] \in ran \cup {None}
    BY <1>1 DEF RanInv, RouteOnlyForDriverThatRan, Present, Routes
  <2> QED
    BY <2>1, <2>2 DEF Board!Init, Routes
<1> QED
  BY <1>1, <1>2, <1>3

\* In every behaviour the routes are those of a RouteBoard: published one at a
\* time, each under a free name and for an application that has run, never turned
\* to another one in place, and the root route kept.
THEOREM ServiceIsRouteBoard == HSpec => ImplementsRouteBoard
<1> DEFINE Inv == HistoryTypeOK /\ RanInv /\ CallsSpareRoot /\ CallsNameRoutes
<1>1. HInit => Inv /\ Board!Init
  BY BoardInit
<1>2. Inv /\ [HNext]_hvars => Inv'
  <2>1. [HNext]_hvars => [Next]_vars
    BY DEF HNext, hvars
  <2> QED
    BY <2>1, HistoryNextType, RanNext, SpareNext, NamesNext DEF HistoryTypeOK
<1>3. Inv /\ [HNext]_hvars => [Board!Next]_<<ran, routes>>
  BY BoardStep DEF HistoryTypeOK
<1> QED
  BY <1>1, <1>2, <1>3, PTL DEF HSpec, ImplementsRouteBoard, Board!Spec

----------------------------------------------------------------------------
(* The store follows the cluster                                           *)

\* In every behaviour, once the informer has handled all there is of a pod, the
\* store holds that pod as it is in the cluster, or nothing if there is none,
\* whatever broken watches have made of the changes between.
THEOREM StoreIsCluster == HSpec => []StoreFollowsCluster
<1>1. HInit => TypeOK /\ WatchInv
  BY InitType, WatchInvInit DEF HInit
<1>2. TypeOK /\ WatchInv /\ [HNext]_hvars => TypeOK' /\ WatchInv'
  BY NextType, WatchInvNext DEF HNext, hvars
<1>3. TypeOK /\ WatchInv => StoreFollowsCluster
  <2> SUFFICES ASSUME TypeOK, WatchInv, NEW p \in PodNames, deltas[p] = <<>>,
                      NoSelector \notin LabelOf[p]
               PROVE  drivers[p] = IF p \in Existing THEN DriverOf(pods[p]) ELSE None
    BY DEF StoreFollowsCluster
  <2>1. cache[p] = pods[p]
    BY DEF WatchInv, LatestIsCluster, Known
  <2> QED
    BY <2>1 DEF WatchInv, KeepsLabels, StoreIsCache, Existing, IsSparkDriver
<1> QED
  BY <1>1, <1>2, <1>3, PTL DEF HSpec

=============================================================================
