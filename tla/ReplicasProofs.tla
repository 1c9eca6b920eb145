--------------------------- MODULE ReplicasProofs ---------------------------
(***************************************************************************)
(* Proofs about two instances of the service over one cluster.  The first  *)
(* one runs under the names of WatcherProofs, the lemmas about which hold  *)
(* of the second one under the names of Two.                               *)
(***************************************************************************)
EXTENDS Replicas, WatcherProofs

Two == INSTANCE WatcherProofs
         WITH drivers <- drivers2, pc <- pc2, target <- target2, wanted <- wanted2,
              stale <- stale2, missing <- missing2, failed <- failed2,
              cache <- cache2, deltas <- deltas2, unsynced <- unsynced2

----------------------------------------------------------------------------
(* The second instance is the one that Replicas composes with the first     *)

LEMMA PeerCluster == Peer!ClusterStep => Two!ClusterStep
BY DEF Peer!ClusterStep, Two!ClusterStep, Peer!PodCreated, Two!PodCreated,
       Peer!PodUpdated, Two!PodUpdated, Peer!PodDeleted, Two!PodDeleted,
       Peer!Changed, Two!Changed, Peer!Queued, Two!Queued, Peer!Now, Two!Now,
       Peer!Gone, Two!Gone, Peer!Existing, Two!Existing,
       Peer!managerVars, Two!managerVars, Peer!callVars, Two!callVars,
       Peer!Follows, Two!Follows, Peer!Terminal, Two!Terminal

\* The assumptions on the constants, as the lemmas of Two need them.
LEMMA TwoAssumptions ==
  /\ RouteName \in [Selectors -> RouteNames] /\ None \notin Two!Driver \cup Selectors
  /\ RootRoute \notin RouteNames /\ Fallback \notin Selectors \cup {None}
  /\ MaxFaults \in Nat /\ MaxDeltas \in Nat /\ MaxCrashes \in Nat
  /\ Watcher # Syncer /\ {Watcher, Syncer} \cap Requests = {}
  /\ NoSelector \notin Selectors
  /\ LabelOf \in [PodNames -> SUBSET (Selectors \cup {NoSelector})]
  /\ Phases \subseteq Two!PodPhases /\ WatchBreaks \in BOOLEAN
  /\ None \notin Two!Pod
<1>1. None \notin Two!Driver \cup Selectors
  BY NoneAssumption DEF Driver, Two!Driver, DriverStates, Two!DriverStates
<1>2. Phases \subseteq Two!PodPhases /\ None \notin Two!Pod
  BY PhasesAssumption, NoPodAssumption DEF Pod, Two!Pod, PodPhases, Two!PodPhases
<1> QED
  BY <1>1, <1>2, RouteNameAssumption, RootRouteAssumption, FallbackAssumption,
     MaxFaultsAssumption, CallersAssumption, NoSelectorAssumption, LabelOfAssumption,
     MaxDeltasAssumption, WatchBreaksAssumption, MaxCrashesAssumption

LEMMA TwoInit == Two!Init => Two!InstanceInv
BY Two!InstanceInit, TwoAssumptions

LEMMA PeerManager ==
  ASSUME NEW c, Peer!ManagerStep(c)
  PROVE  Two!ManagerStep(c)
<1> USE DEF Peer!Goto, Two!Goto, Peer!Return, Two!Return, Peer!Answer, Two!Answer,
            Peer!Error, Two!Error, Peer!Write, Two!Write, Peer!Created, Two!Created,
            Peer!Deleted, Two!Deleted, Peer!Present, Two!Present, Peer!WantNothing,
            Two!WantNothing, Peer!Routes, Two!Routes
<1>1. Peer!EnsureGet(c) => Two!EnsureGet(c)
  BY DEF Peer!EnsureGet, Two!EnsureGet
<1>2. Peer!EnsureCreate(c) \/ Peer!DeleteCall(c) => Two!EnsureCreate(c) \/ Two!DeleteCall(c)
  BY DEF Peer!EnsureCreate, Two!EnsureCreate, Peer!DeleteCall, Two!DeleteCall
<1>3. Peer!ReconcileStep(c) => Two!ReconcileStep(c)
  <2> USE DEF Peer!AfterFix, Two!AfterFix, Peer!NoteError, Two!NoteError
  <2>1. Peer!ReconcileList(c) => Two!ReconcileList(c)
    BY DEF Peer!ReconcileList, Two!ReconcileList, Peer!IsStale, Two!IsStale
  <2>2. Peer!ReconcileDelete(c) => Two!ReconcileDelete(c)
    BY DEF Peer!ReconcileDelete, Two!ReconcileDelete
  <2>3. Peer!ReconcileCreate(c) => Two!ReconcileCreate(c)
    BY DEF Peer!ReconcileCreate, Two!ReconcileCreate
  <2> QED
    BY <2>1, <2>2, <2>3 DEF Peer!ReconcileStep, Two!ReconcileStep
<1>4. Peer!RootGet(c) \/ Peer!RootWrite(c) => Two!RootGet(c) \/ Two!RootWrite(c)
  BY DEF Peer!RootGet, Two!RootGet, Peer!RootWrite, Two!RootWrite
<1> QED
  BY <1>1, <1>2, <1>3, <1>4
  DEF Peer!ManagerStep, Two!ManagerStep, Peer!watchVars, Two!watchVars

LEMMA PeerHandles ==
  ASSUME NEW p, Peer!WatcherHandles(p)
  PROVE  Two!WatcherHandles(p)
<1> USE DEF Peer!Goto, Two!Goto, Peer!BeginEnsure, Two!BeginEnsure, Peer!BeginDelete,
            Two!BeginDelete, Peer!OnAdd, Two!OnAdd, Peer!OnRemove, Two!OnRemove, Peer!NoCall,
            Two!NoCall, Peer!managerVars, Two!managerVars, Peer!callVars, Two!callVars,
            Peer!Add, Two!Add, Peer!Remove, Two!Remove
<1>1. \A d : Peer!AddFunc(p, d) => Two!AddFunc(p, d)
  BY DEF Peer!AddFunc, Two!AddFunc
<1>2. \A d : Peer!UpdateFunc(p, d) => Two!UpdateFunc(p, d)
  BY DEF Peer!UpdateFunc, Two!UpdateFunc
<1>3. \A d : Peer!DeleteFunc(p, d) => Two!DeleteFunc(p, d)
  BY DEF Peer!DeleteFunc, Two!DeleteFunc
<1>4. \A pod : Peer!DriverOf(pod) = Two!DriverOf(pod)
  BY DEF Peer!DriverOf, Two!DriverOf, Peer!StateOf, Two!StateOf
<1> QED
  BY <1>1, <1>2, <1>3, <1>4
  DEF Peer!WatcherHandles, Two!WatcherHandles, Peer!HandleDelta, Two!HandleDelta,
      Peer!IsSparkDriver, Two!IsSparkDriver

LEMMA PeerRunning == Peer!ListRunning = Two!ListRunning
BY DEF Peer!ListRunning, Two!ListRunning, Peer!Held, Two!Held

LEMMA PeerSyncer == Peer!SyncerStep => Two!SyncerStep
<1> USE DEF Peer!Goto, Two!Goto, Peer!Return, Two!Return, Peer!WantNothing, Two!WantNothing,
            Peer!Routes, Two!Routes, Peer!watchVars, Two!watchVars
<1>1. Peer!Synced => Two!Synced
  BY DEF Peer!Synced, Two!Synced
<1>2. Peer!InitialReconcile => Two!InitialReconcile
  <2>1. Peer!WantedMaps(Peer!ListRunning) = Two!WantedMaps(Two!ListRunning)
    BY PeerRunning DEF Peer!WantedMaps, Two!WantedMaps
  <2> QED
    BY <2>1 DEF Peer!InitialReconcile, Two!InitialReconcile, Peer!BeginReconcile,
                Two!BeginReconcile
<1>3. Peer!InitialReconciled => Two!InitialReconciled
  BY DEF Peer!InitialReconciled, Two!InitialReconciled
<1> QED
  BY <1>1, <1>2, <1>3, PeerManager DEF Peer!SyncerStep, Two!SyncerStep

LEMMA PeerCrash == Peer!Crash => Two!Crash
BY DEF Peer!Crash, Two!Crash, Peer!WatchRestart, Two!WatchRestart, Peer!FirstList,
       Two!FirstList, Peer!Existing, Two!Existing, Peer!Now, Two!Now, Peer!Callers,
       Two!Callers, Peer!WantNothing, Two!WantNothing, Peer!Routes, Two!Routes

LEMMA PeerInit == Peer!Init => Two!Init
<1>1. Peer!LeftBehind = Two!LeftBehind
  BY DEF Peer!LeftBehind, Two!LeftBehind, Peer!Routes, Two!Routes
<1>2. Peer!CallsInit => Two!CallsInit
  BY DEF Peer!CallsInit, Two!CallsInit, Peer!Callers, Two!Callers, Peer!WantNothing,
         Two!WantNothing, Peer!Routes, Two!Routes
<1>3. Peer!WatchInit => Two!WatchInit
  BY DEF Peer!WatchInit, Two!WatchInit, Peer!FirstList, Two!FirstList, Peer!Existing,
         Two!Existing, Peer!Now, Two!Now
<1> QED
  BY <1>1, <1>2, <1>3 DEF Peer!Init, Two!Init, Peer!StoreInit, Two!StoreInit

LEMMA PeerSettled == Peer!Settled => Two!Settled
BY DEF Peer!Settled, Two!Settled, Peer!Callers, Two!Callers

\* Both instances see one cluster.
LEMMA SharedCluster ==
  /\ Two!Present = Present
  /\ Two!OwnRoutes <=> OwnRoutes
  /\ Two!RoutesNamed <=> RoutesNamed
  /\ Two!RunningApps = RunningApps
  /\ Two!Existing = Existing
  /\ Two!Terminal = Terminal
  /\ \A pod : Two!IsSparkDriver(pod) <=> IsSparkDriver(pod)
BY DEF Present, Two!Present, Routes, Two!Routes, OwnRoutes, Two!OwnRoutes, RoutesNamed,
       Two!RoutesNamed, RunningApps, Two!RunningApps, IsSparkDriver, Two!IsSparkDriver,
       Existing, Two!Existing, Terminal, Two!Terminal

LEMMA SharedClusterNext ==
  /\ Two!Present' = Present'
  /\ Two!RoutesNamed' <=> RoutesNamed'
<1>1. (Two!Present = Present)' /\ (Two!RoutesNamed <=> RoutesNamed)'
  BY SharedCluster, PTL
<1> QED
  BY <1>1

----------------------------------------------------------------------------
(* The invariant                                                           *)

\* A route is not missed, or left, by both.
Agree(n) ==
  /\ ~ (Lacks(n) /\ Two!Lacks(n) /\ n \notin Present)
  /\ ~ (Leaves(n) /\ Two!Leaves(n) /\ n \in Present)

\* What holds of each instance, whatever the other one does.
BothInv ==
  /\ TypeOK /\ Two!TypeOK
  /\ InstanceInv /\ Two!InstanceInv
  /\ RoutesNamed

ReplicasInv ==
  /\ BothInv
  /\ "one" \notin raced => SyncerIsRight
  /\ "two" \notin raced => Two!SyncerIsRight
  /\ faults = 0 /\ raced = {} => \A n \in RouteNames : Agree(n)

LEMMA OneTypeStays ==
  ASSUME TypeOK, Two!TypeOK', UNCHANGED ones
  PROVE  TypeOK'
<1> USE DEF ones, callVars, Driver, Two!Driver, DriverStates, Two!DriverStates, Pod, Two!Pod,
            PodPhases, Two!PodPhases, Delta, Two!Delta, Routes, Two!Routes
<1>1. StoreTypeOK' /\ crashes' \in 0 .. MaxCrashes
  BY DEF TypeOK, StoreTypeOK, Two!TypeOK
<1>2. ManagerTypeOK'
  BY DEF TypeOK, ManagerTypeOK, Two!TypeOK, Two!ManagerTypeOK
<1>3. WatchTypeOK'
  BY DEF TypeOK, WatchTypeOK, Two!TypeOK, Two!WatchTypeOK
<1> QED
  BY <1>1, <1>2, <1>3 DEF TypeOK

LEMMA TwoTypeStays ==
  ASSUME Two!TypeOK, TypeOK', UNCHANGED twos
  PROVE  Two!TypeOK'
<1> USE DEF twos, Driver, Two!Driver, DriverStates, Two!DriverStates, Pod, Two!Pod,
            PodPhases, Two!PodPhases, Delta, Two!Delta, Routes, Two!Routes
<1>1. Two!StoreTypeOK' /\ crashes' \in 0 .. MaxCrashes
  BY DEF Two!TypeOK, Two!StoreTypeOK, TypeOK
<1>2. Two!ManagerTypeOK'
  BY DEF TypeOK, ManagerTypeOK, Two!TypeOK, Two!ManagerTypeOK
<1>3. Two!WatchTypeOK'
  BY DEF TypeOK, WatchTypeOK, Two!TypeOK, Two!WatchTypeOK
<1> QED
  BY <1>1, <1>2, <1>3 DEF Two!TypeOK

LEMMA OneMoves ==
  ASSUME OwnRoutes, BothInv, InstanceStep, UNCHANGED <<twos, pods>>
  PROVE  BothInv'
<1>1. [Next]_vars
  BY InstanceSteps
<1>2. TypeOK' /\ InstanceInv' /\ RoutesNamed'
  BY <1>1, NextType, InstanceNext, RoutesNamedNext DEF BothInv, InstanceInv
<1>3. Two!TypeOK'
  BY <1>2, TwoTypeStays DEF BothInv
<1>4. UNCHANGED <<drivers2, Two!callVars, Two!watchVars>>
  BY DEF twos, Two!callVars, Two!watchVars
<1>5. Two!InstanceInv'
  BY <1>4, Two!InstanceStays, TwoAssumptions DEF BothInv
<1> QED
  BY <1>2, <1>3, <1>5 DEF BothInv

LEMMA TwoMoves ==
  ASSUME OwnRoutes, BothInv, Two!InstanceStep, UNCHANGED <<ones, pods>>
  PROVE  BothInv'
<1>1. [Two!Next]_(Two!vars)
  BY Two!InstanceSteps, TwoAssumptions
<1>2. Two!TypeOK'
  BY <1>1, Two!NextType, TwoAssumptions DEF BothInv
<1>3. Two!InstanceInv'
  BY SharedCluster, Two!InstanceNext, TwoAssumptions DEF BothInv
<1>4. RoutesNamed'
  BY <1>1, SharedCluster, SharedClusterNext, Two!RoutesNamedNext, TwoAssumptions
  DEF BothInv, Two!InstanceInv
<1>5. TypeOK'
  BY <1>2, OneTypeStays DEF BothInv
<1>6. UNCHANGED <<drivers, callVars, watchVars>>
  BY DEF ones, callVars, watchVars
<1>7. InstanceInv'
  BY <1>6, InstanceStays DEF BothInv
<1> QED
  BY <1>2, <1>3, <1>4, <1>5, <1>7 DEF BothInv

LEMMA BothTold ==
  ASSUME OwnRoutes, BothInv, ClusterStep, Two!ClusterStep
  PROVE  BothInv'
<1>1. InstanceStep /\ Two!InstanceStep
  BY DEF InstanceStep, Two!InstanceStep
<1>2. [Next]_vars /\ [Two!Next]_(Two!vars)
  BY <1>1, InstanceSteps, Two!InstanceSteps, TwoAssumptions
<1>3. TypeOK' /\ InstanceInv' /\ RoutesNamed'
  BY <1>1, <1>2, NextType, InstanceNext, RoutesNamedNext DEF BothInv, InstanceInv
<1>4. Two!TypeOK' /\ Two!InstanceInv'
  BY <1>1, <1>2, SharedCluster, Two!NextType, Two!InstanceNext, TwoAssumptions DEF BothInv
<1> QED
  BY <1>3, <1>4 DEF BothInv

----------------------------------------------------------------------------
(* The steps                                                               *)

LEMMA OneAgrees ==
  ASSUME OwnRoutes, BothInv, SyncerIsRight, InstanceStep, UNCHANGED twos, faults' = faults,
         NEW n \in RouteNames, Agree(n)
  PROVE  Agree(n)'
<1>1. (Two!Lacks(n)' <=> Two!Lacks(n)) /\ (Two!Leaves(n)' <=> Two!Leaves(n))
  <2>1. UNCHANGED <<drivers2, Two!callVars>>
    BY DEF twos, Two!callVars
  <2> QED
    BY <2>1, Two!OwnSideStays, TwoAssumptions
<1> QED
  BY <1>1, LacksStep, LeavesStep DEF Agree, BothInv

LEMMA TwoAgrees ==
  ASSUME OwnRoutes, BothInv, Two!SyncerIsRight, Two!InstanceStep, UNCHANGED ones,
         faults' = faults, NEW n \in RouteNames, Agree(n)
  PROVE  Agree(n)'
<1>1. (Lacks(n)' <=> Lacks(n)) /\ (Leaves(n)' <=> Leaves(n))
  BY OwnSideStays DEF ones
<1>2. Two!Lacks(n)' /\ n \notin Present' => Two!Lacks(n) /\ n \notin Present
  BY SharedCluster, SharedClusterNext, Two!LacksStep, TwoAssumptions DEF BothInv
<1>3. Two!Leaves(n)' /\ n \in Present' => Two!Leaves(n) /\ n \in Present
  BY SharedCluster, SharedClusterNext, Two!LeavesStep, TwoAssumptions DEF BothInv
<1> QED
  BY <1>1, <1>2, <1>3 DEF Agree

LEMMA ReplicasInit == RInit => ReplicasInv
<1> SUFFICES ASSUME RInit PROVE ReplicasInv
  OBVIOUS
<1>1. Init /\ Two!Init
  BY PeerInit DEF RInit
<1>2. BothInv
  BY <1>1, InitType, InstanceInit, RoutesNamedInit, Two!InitType, Two!InstanceInit, TwoAssumptions
  DEF BothInv
<1>3. SyncerIsRight /\ Two!SyncerIsRight /\ \A n \in RouteNames : Agree(n)
  BY <1>1, InitFresh, Two!InitFresh, TwoAssumptions DEF Agree
<1> QED
  BY <1>2, <1>3 DEF ReplicasInv

LEMMA OneStepsInv ==
  ASSUME OwnRoutes, ReplicasInv, OneSteps
  PROVE  ReplicasInv'
<1>1. InstanceStep /\ UNCHANGED <<twos, pods>>
  BY DEF OneSteps, InstanceStep, WatcherHandles, HandleDelta, ManagerStep, SyncerStep, Synced,
         InitialReconcile, InitialReconciled, watchVars
<1>2. BothInv'
  BY <1>1, OneMoves DEF ReplicasInv
<1>3. "two" \notin raced' => Two!SyncerIsRight'
  <2>1. UNCHANGED <<drivers2, Two!callVars>>
    BY <1>1 DEF twos, Two!callVars
  <2>2. Two!SyncerIsRight' <=> Two!SyncerIsRight
    BY <2>1, Two!OwnSideStays, TwoAssumptions
  <2> QED
    BY <2>2 DEF ReplicasInv, OneSteps
<1>4. "one" \notin raced' =>
        "one" \notin raced /\ (pc[Syncer] \in {"list", "fix"} => drivers' = drivers)
  BY DEF OneSteps, InReconcile
<1>5. "one" \notin raced' => SyncerIsRight'
  BY <1>1, <1>4, SyncerRightNext DEF ReplicasInv, BothInv
<1>6. ASSUME faults' = 0, raced' = {}, NEW n \in RouteNames PROVE Agree(n)'
  <2>1. faults = 0 /\ raced = {}
    BY <1>1, <1>6, NoFaultBefore DEF ReplicasInv, BothInv, OneSteps
  <2> QED
    BY <1>1, <1>6, <2>1, OneAgrees DEF ReplicasInv
<1> QED
  BY <1>2, <1>3, <1>5, <1>6 DEF ReplicasInv

LEMMA TwoStepsInv ==
  ASSUME OwnRoutes, ReplicasInv, TwoSteps
  PROVE  ReplicasInv'
<1>1. Two!InstanceStep /\ UNCHANGED <<ones, pods>>
  <2>1. \/ \E p \in PodNames : Two!WatcherHandles(p)
        \/ Two!ManagerStep(Watcher) \/ Two!SyncerStep
    BY PeerHandles, PeerManager, PeerSyncer DEF TwoSteps
  <2>2. UNCHANGED pods
    BY <2>1
    DEF Two!WatcherHandles, Two!HandleDelta, Two!ManagerStep, Two!SyncerStep, Two!Synced,
        Two!InitialReconcile, Two!InitialReconciled, Two!watchVars
  <2> QED
    BY <2>1, <2>2 DEF TwoSteps, Two!InstanceStep
<1>2. BothInv'
  BY <1>1, TwoMoves DEF ReplicasInv
<1>3. "one" \notin raced' => SyncerIsRight'
  BY <1>1, OwnSideStays DEF ones, ReplicasInv, TwoSteps
<1>4. "two" \notin raced' =>
        "two" \notin raced /\ (pc2[Syncer] \in {"list", "fix"} => drivers2' = drivers2)
  BY DEF TwoSteps, InReconcile
<1>5. "two" \notin raced' => Two!SyncerIsRight'
  BY <1>1, <1>4, Two!SyncerRightNext, TwoAssumptions DEF ReplicasInv, BothInv
<1>6. ASSUME faults' = 0, raced' = {}, NEW n \in RouteNames PROVE Agree(n)'
  <2>1. faults = 0 /\ raced = {}
    BY <1>1, <1>6, Two!NoFaultBefore, TwoAssumptions DEF ReplicasInv, BothInv, TwoSteps
  <2> QED
    BY <1>1, <1>6, <2>1, TwoAgrees DEF ReplicasInv
<1> QED
  BY <1>2, <1>3, <1>5, <1>6 DEF ReplicasInv

LEMMA ToldInv ==
  ASSUME OwnRoutes, ReplicasInv, BothAreTold
  PROVE  ReplicasInv'
<1>1. ClusterStep /\ Two!ClusterStep /\ UNCHANGED raced
  BY PeerCluster DEF BothAreTold
<1>2. BothInv'
  BY <1>1, BothTold DEF ReplicasInv
<1>3. UNCHANGED <<drivers, callVars, routes, faults>>
  BY <1>1 DEF ClusterStep, managerVars
<1>4. UNCHANGED <<drivers2, Two!callVars>>
  BY <1>1 DEF Two!ClusterStep, Two!managerVars
<1>5. /\ SyncerIsRight' <=> SyncerIsRight
      /\ \A n : (Lacks(n)' <=> Lacks(n)) /\ (Leaves(n)' <=> Leaves(n))
  BY <1>3, OwnSideStays
<1>6. /\ Two!SyncerIsRight' <=> Two!SyncerIsRight
      /\ \A n : (Two!Lacks(n)' <=> Two!Lacks(n)) /\ (Two!Leaves(n)' <=> Two!Leaves(n))
  BY <1>4, Two!OwnSideStays, TwoAssumptions
<1>7. Present' = Present
  BY <1>3 DEF Present
<1> QED
  BY <1>1, <1>2, <1>3, <1>5, <1>6, <1>7 DEF ReplicasInv, Agree

LEMMA OneReplacedInv ==
  ASSUME OwnRoutes, ReplicasInv, OneIsReplaced
  PROVE  ReplicasInv'
<1>1. InstanceStep /\ UNCHANGED <<twos, pods>> /\ Crash
  BY DEF OneIsReplaced, InstanceStep, Crash, WatchRestart
<1>2. BothInv'
  BY <1>1, OneMoves DEF ReplicasInv
<1>3. SyncerIsRight' /\ \A n \in RouteNames : Agree(n)'
  BY <1>1, CrashFresh DEF Agree
<1>4. UNCHANGED <<drivers2, Two!callVars>>
  BY <1>1 DEF twos, Two!callVars
<1>5. Two!SyncerIsRight' <=> Two!SyncerIsRight
  BY <1>4, Two!OwnSideStays, TwoAssumptions
<1>6. "two" \notin raced' => "two" \notin raced
  BY DEF OneIsReplaced
<1> QED
  BY <1>2, <1>3, <1>5, <1>6 DEF ReplicasInv

LEMMA TwoReplacedInv ==
  ASSUME OwnRoutes, ReplicasInv, TwoIsReplaced
  PROVE  ReplicasInv'
<1>1. Two!InstanceStep /\ UNCHANGED <<ones, pods>> /\ Two!Crash
  BY PeerCrash DEF TwoIsReplaced, Two!InstanceStep, Two!Crash, Two!WatchRestart
<1>2. BothInv'
  BY <1>1, TwoMoves DEF ReplicasInv
<1>3. Two!SyncerIsRight' /\ \A n \in RouteNames : Agree(n)'
  BY <1>1, Two!CrashFresh, TwoAssumptions DEF Agree
<1>4. SyncerIsRight' <=> SyncerIsRight
  BY <1>1, OwnSideStays DEF ones
<1>5. "one" \notin raced' => "one" \notin raced
  BY DEF TwoIsReplaced
<1> QED
  BY <1>2, <1>3, <1>4, <1>5 DEF ReplicasInv

LEMMA ReplicasStay ==
  ASSUME ReplicasInv, UNCHANGED rvars
  PROVE  ReplicasInv'
<1>1. /\ UNCHANGED <<drivers, callVars, watchVars, routes, faults, crashes, raced>>
      /\ UNCHANGED <<drivers2, Two!callVars, Two!watchVars>>
      /\ UNCHANGED <<ones, twos>>
  BY DEF rvars, vars, managerVars, twos, ones, watchVars, Two!callVars, Two!watchVars
<1>2. TypeOK'
  BY <1>1 DEF ReplicasInv, BothInv, TypeOK, StoreTypeOK, ManagerTypeOK, WatchTypeOK, callVars,
              watchVars
<1>3. Two!TypeOK'
  BY <1>1, <1>2, TwoTypeStays DEF ReplicasInv, BothInv
<1>4. InstanceInv' /\ Two!InstanceInv'
  BY <1>1, InstanceStays, Two!InstanceStays, TwoAssumptions DEF ReplicasInv, BothInv
<1>5. RoutesNamed' /\ Present' = Present
  BY <1>1 DEF ReplicasInv, BothInv, RoutesNamed, Present
<1>6. /\ SyncerIsRight' <=> SyncerIsRight
      /\ \A n : (Lacks(n)' <=> Lacks(n)) /\ (Leaves(n)' <=> Leaves(n))
  BY <1>1, OwnSideStays
<1>7. /\ Two!SyncerIsRight' <=> Two!SyncerIsRight
      /\ \A n : (Two!Lacks(n)' <=> Two!Lacks(n)) /\ (Two!Leaves(n)' <=> Two!Leaves(n))
  BY <1>1, Two!OwnSideStays, TwoAssumptions
<1> QED
  BY <1>1, <1>2, <1>3, <1>4, <1>5, <1>6, <1>7 DEF ReplicasInv, BothInv, Agree

LEMMA ReplicasNext ==
  ASSUME OwnRoutes, ReplicasInv, [RNext]_rvars
  PROVE  ReplicasInv'
BY ToldInv, OneStepsInv, TwoStepsInv, OneReplacedInv, TwoReplacedInv, ReplicasStay DEF RNext

----------------------------------------------------------------------------
(* Replicas agree                                                          *)

LEMMA InvAgrees ==
  OwnRoutes /\ ReplicasInv => (faults = 0 => ReplicasAgree)
<1> SUFFICES ASSUME OwnRoutes, ReplicasInv, faults = 0, Settled, Peer!Settled, raced = {},
                    NEW n \in RouteNames
             PROVE  LET apps == {s \in RunningApps : RouteName[s] = n}
                        over == \A p \in Existing : /\ IsSparkDriver(pods[p])
                                                    /\ RouteName[pods[p].sel] = n
                                                    => pods[p].phase \in Terminal
                    IN (apps # {} => routes[n] \in apps) /\ (over => n \notin Present)
  BY DEF ReplicasAgree, RoutesServe
<1>1. Agree(n) /\ Two!Settled
  BY PeerSettled DEF ReplicasInv
<1> DEFINE over == \A p \in Existing : /\ IsSparkDriver(pods[p])
                                       /\ RouteName[pods[p].sel] = n
                                       => pods[p].phase \in Terminal
<1>2. /\ (\E s \in RunningApps : RouteName[s] = n) => Lacks(n)
      /\ over => Leaves(n)
  BY SettledInstance DEF ReplicasInv, BothInv
<1>3. /\ (\E s \in RunningApps : RouteName[s] = n) => Two!Lacks(n)
      /\ over => Two!Leaves(n)
  <2>1. /\ (\E s \in Two!RunningApps : RouteName[s] = n) => Two!Lacks(n)
        /\ (\A p \in Two!Existing : /\ Two!IsSparkDriver(pods[p])
                                    /\ RouteName[pods[p].sel] = n
                                    => pods[p].phase \in Two!Terminal) => Two!Leaves(n)
    BY <1>1, Two!SettledInstance, TwoAssumptions DEF ReplicasInv, BothInv
  <2> QED
    BY <2>1, SharedCluster
<1>4. over => n \notin Present
  BY <1>1, <1>2, <1>3 DEF Agree
<1>5. ASSUME NEW s \in RunningApps, RouteName[s] = n PROVE routes[n] = s
  <2>1. routes[n] # None
    BY <1>1, <1>2, <1>3, <1>5, PresentIff DEF Agree
  <2>2. routes[n] \in Selectors /\ RouteName[routes[n]] = n
    BY <2>1 DEF ReplicasInv, BothInv, RoutesNamed
  <2>3. s \in Selectors
    BY DEF RunningApps, ReplicasInv, BothInv, TypeOK, WatchTypeOK, Pod, IsSparkDriver
  <2> QED
    BY <1>5, <2>2, <2>3 DEF OwnRoutes
<1> QED
  BY <1>4, <1>5

\* Where applications have routes of their own, two instances of the service agree:
\* when neither has anything left to do, no request has failed and no pod changed
\* under a running initial reconcile, each Running driver has its route and no
\* finished one has, whatever the instances have deleted and created in between
\* (the handlers of watcher.go, Reconcile and Ensure of httproute.go).
THEOREM ReplicasDoAgree ==
  ASSUME OwnRoutes
  PROVE  RSpec => [](faults = 0 => ReplicasAgree)
<1>1. ReplicasInv /\ [RNext]_rvars => ReplicasInv'
  BY ReplicasNext
<1>2. ReplicasInv => (faults = 0 => ReplicasAgree)
  BY InvAgrees
<1> QED
  BY <1>1, <1>2, ReplicasInit, PTL DEF RSpec

=============================================================================
