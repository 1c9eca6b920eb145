--------------------------- MODULE WatcherProofs ----------------------------
(***************************************************************************)
(* Proofs about the informer and the store: what the informer has queued   *)
(* and cached is the cluster with a delay, the store is its cache, and its *)
(* goroutine acts on what the store still says.                            *)
(***************************************************************************)
EXTENDS DriverRoutesProofs

----------------------------------------------------------------------------
(* The invariant                                                           *)

\* What the informer knows of a pod once it has handled the delta d, and once it
\* has handled the first i deltas of pod p.
After(d) == IF d.gone THEN None ELSE d.pod

Known(p, i) == IF i = 0 THEN cache[p] ELSE After(deltas[p][i])

\* The last change queued for a pod is what became of it in the cluster.
LatestIsCluster == \A p \in PodNames : Known(p, Len(deltas[p])) = pods[p]

\* A pod is queued as gone only after it was queued, or handled, as it was then.
GoneFollowsPod ==
  \A p \in PodNames : \A i \in 1 .. Len(deltas[p]) :
    deltas[p][i].gone => Known(p, i - 1) = deltas[p][i].pod

\* A pod carries a label that its name may have, wherever it is seen.
KeepsLabels ==
  \A p \in PodNames :
    /\ p \in Existing => pods[p].sel \in LabelOf[p]
    /\ cache[p] # None => cache[p].sel \in LabelOf[p]
    /\ \A i \in 1 .. Len(deltas[p]) : deltas[p][i].pod.sel \in LabelOf[p]
    /\ p \in Held => drivers[p].sel \in LabelOf[p]

\* The store holds what the informer does.  An entry without a pod is one that
\* a pod without the label has replaced.
StoreIsCache ==
  \A p \in PodNames :
    /\ cache[p] # None /\ IsSparkDriver(cache[p]) => drivers[p] = DriverOf(cache[p])
    /\ cache[p] = None /\ NoSelector \notin LabelOf[p] => drivers[p] = None

WatchInv ==
  /\ LatestIsCluster
  /\ GoneFollowsPod
  /\ KeepsLabels
  /\ StoreIsCache

----------------------------------------------------------------------------
(* What the cluster and a new list do to a queue                           *)

\* d may be queued behind the first k deltas of pod p, to end the queue.
MayFollow(p, k, d) ==
  /\ After(d) = pods'[p]
  /\ d.gone => d.pod = Known(p, k)
  /\ d.pod.sel \in LabelOf[p]

\* In a step the queue of p loses all but k of its deltas and gets at most one, and
\* says then what the cluster does.
Requeued(p) ==
  \E k \in 0 .. Len(deltas[p]) :
    /\ \A i \in 1 .. k : deltas'[p][i] = deltas[p][i]
    /\ \/ Len(deltas'[p]) = k /\ Known(p, k) = pods'[p]
       \/ Len(deltas'[p]) = k + 1 /\ MayFollow(p, k, deltas'[p][k + 1])

LEMMA DeltasType ==
  ASSUME TypeOK, NEW p \in PodNames
  PROVE  /\ deltas[p] \in Seq(Delta)
         /\ Len(deltas[p]) \in Nat
         /\ \A i \in 1 .. Len(deltas[p]) : deltas[p][i] \in Delta
         /\ cache[p] \in Pod \cup {None}
         /\ pods[p] \in Pod \cup {None}
BY DEF TypeOK, WatchTypeOK

LEMMA KnownType ==
  ASSUME TypeOK, NEW p \in PodNames, NEW i \in 0 .. Len(deltas[p])
  PROVE  Known(p, i) \in Pod \cup {None}
BY DeltasType DEF Known, After, Delta

\* What is known carries a label of the pod's name.
LEMMA KnownLabel ==
  ASSUME TypeOK, KeepsLabels, NEW p \in PodNames, NEW i \in 0 .. Len(deltas[p]),
         Known(p, i) # None
  PROVE  Known(p, i).sel \in LabelOf[p]
<1>1. Len(deltas[p]) \in Nat
  BY DeltasType
<1>2. CASE i = 0
  BY <1>2 DEF Known, KeepsLabels
<1>3. CASE i \in 1 .. Len(deltas[p])
  BY <1>1, <1>3 DEF Known, After, KeepsLabels
<1> QED
  BY <1>1, <1>2, <1>3

LEMMA QueuedRequeues ==
  ASSUME TypeOK, NEW p \in PodNames, NEW d \in Delta, Queued(p, d),
         MayFollow(p, Len(deltas[p]), d)
  PROVE  Requeued(p)
<1> DEFINE k == Len(deltas[p])
<1>1. deltas[p] \in Seq(Delta) /\ k \in Nat
  BY DeltasType
<1>2. deltas'[p] = Append(deltas[p], d)
  BY DEF Queued, TypeOK, WatchTypeOK
<1>3. /\ Len(deltas'[p]) = k + 1
      /\ deltas'[p][k + 1] = d
      /\ \A i \in 1 .. k : deltas'[p][i] = deltas[p][i]
  BY <1>1, <1>2, AppendProperties
<1>4. k \in 0 .. k
  BY <1>1
<1> HIDE DEF k
<1>5. MayFollow(p, k, deltas'[p][k + 1])
  BY <1>3 DEF k
<1> QED
  BY <1>3, <1>4, <1>5 DEF Requeued, k

LEMMA UntouchedRequeues ==
  ASSUME TypeOK, LatestIsCluster, NEW p \in PodNames,
         deltas'[p] = deltas[p], pods'[p] = pods[p]
  PROVE  Requeued(p)
<1> DEFINE k == Len(deltas[p])
<1>1. k \in 0 .. k
  BY DeltasType
<1>2. Len(deltas'[p]) = k /\ Known(p, k) = pods'[p]
  BY DEF LatestIsCluster
<1>3. \A i \in 1 .. k : deltas'[p][i] = deltas[p][i]
  OBVIOUS
<1> QED
  BY <1>1, <1>2, <1>3 DEF Requeued

LEMMA ClusterRequeues ==
  ASSUME TypeOK, WatchInv, ClusterStep
  PROVE  /\ \A p \in PodNames : Requeued(p)
         /\ \A p \in PodNames : pods'[p] # None => pods'[p].sel \in LabelOf[p]
         /\ UNCHANGED <<cache, drivers>>
<1> USE DEF WatchInv
<1>1. PICK p \in PodNames : PodCreated(p) \/ PodUpdated(p) \/ PodDeleted(p)
  BY DEF ClusterStep
<1>2. \A q \in PodNames : pods[q] # None => pods[q].sel \in LabelOf[q]
  BY DEF KeepsLabels, Existing
<1>3. ASSUME NEW pod \in Pod, pod.sel \in LabelOf[p], Changed(p, pod)
      PROVE  Requeued(p) /\ \E x : /\ pods' = [pods EXCEPT ![p] = x]
                                   /\ x # None => x.sel \in LabelOf[p]
  <2>1. Now(pod) \in Delta
    BY DEF Now, Delta
  <2>2. MayFollow(p, Len(deltas[p]), Now(pod))
    BY <1>3 DEF Changed, TypeOK, WatchTypeOK, MayFollow, Now, After
  <2> QED
    BY <1>3, <2>1, <2>2, QueuedRequeues DEF Changed
<1>4. Requeued(p) /\ \E x : /\ pods' = [pods EXCEPT ![p] = x]
                            /\ x # None => x.sel \in LabelOf[p]
  <2>1. CASE PodCreated(p)
    <3>1. PICK s \in LabelOf[p], ph \in Phases \cap {"", "Pending"} :
            Changed(p, [sel |-> s, phase |-> ph])
      BY <2>1 DEF PodCreated
    <3>2. /\ [sel |-> s, phase |-> ph] \in Pod
          /\ [sel |-> s, phase |-> ph].sel \in LabelOf[p]
      BY LabelOfAssumption DEF Pod, PodPhases
    <3> QED
      BY <1>3, <3>1, <3>2
  <2>2. CASE PodUpdated(p)
    <3>1. PICK ph \in Phases : Changed(p, [pods[p] EXCEPT !.phase = ph])
      BY <2>2 DEF PodUpdated
    <3>2. /\ [pods[p] EXCEPT !.phase = ph] \in Pod
          /\ [pods[p] EXCEPT !.phase = ph].sel \in LabelOf[p]
      BY <2>2, <1>2, PhasesAssumption DEF PodUpdated, Existing, TypeOK, WatchTypeOK, Pod
    <3> QED
      BY <1>3, <3>1, <3>2
  <2>3. CASE PodDeleted(p)
    <3>1. pods[p] \in Pod /\ Queued(p, Gone(pods[p])) /\ pods' = [pods EXCEPT ![p] = None]
      BY <2>3 DEF PodDeleted, Existing, TypeOK, WatchTypeOK
    <3>2. Gone(pods[p]) \in Delta
      BY <3>1 DEF Gone, Delta
    <3>3. MayFollow(p, Len(deltas[p]), Gone(pods[p]))
      BY <1>2, <3>1, NoPodAssumption
      DEF MayFollow, Gone, After, LatestIsCluster, TypeOK, WatchTypeOK
    <3> QED
      BY <3>1, <3>2, <3>3, QueuedRequeues
  <2> QED
    BY <1>1, <2>1, <2>2, <2>3
<1>5. UNCHANGED <<cache, drivers>> /\ \A q \in PodNames \ {p} : deltas'[q] = deltas[q]
  BY <1>1 DEF ClusterStep, PodCreated, PodUpdated, PodDeleted, Changed, Queued,
              TypeOK, WatchTypeOK
<1>6. \A q \in PodNames \ {p} : pods'[q] = pods[q]
  BY <1>4 DEF TypeOK, WatchTypeOK
<1>7. \A q \in PodNames : Requeued(q)
  BY <1>4, <1>5, <1>6, UntouchedRequeues
<1> QED
  BY <1>2, <1>4, <1>5, <1>6, <1>7 DEF TypeOK, WatchTypeOK

\* A new list, after which the informer has kept k deltas of pod p.
LEMMA ListedRequeues ==
  ASSUME TypeOK, WatchInv, NEW p \in PodNames, NEW k \in 0 .. Len(deltas[p]),
         deltas'[p] = Listed(p, SubSeq(deltas[p], 1, k)), pods'[p] = pods[p]
  PROVE  Requeued(p)
<1> USE DEF WatchInv
<1> DEFINE q == SubSeq(deltas[p], 1, k)
<1>1. /\ q \in Seq(Delta)
      /\ Len(q) = k /\ k \in Nat
      /\ \A i \in 1 .. k : q[i] = deltas[p][i]
  <2>1. deltas[p] \in Seq(Delta) /\ k \in Nat /\ k <= Len(deltas[p])
    BY DeltasType
  <2>2. \A i \in 1 .. k : deltas[p][i] \in Delta
    BY <2>1
  <2> QED
    BY <2>1, <2>2, SubSeqProperties
<1>2. deltas'[p] = Listed(p, q)
  OBVIOUS
<1> HIDE DEF q
<1>3. CASE deltas'[p] = q /\ Known(p, k) = pods[p]
  BY <1>1, <1>3 DEF Requeued
<1>4. ASSUME NEW d \in Delta, deltas'[p] = Append(q, d), MayFollow(p, k, d)
      PROVE  Requeued(p)
  <2>1. /\ Len(deltas'[p]) = k + 1
        /\ deltas'[p][k + 1] = d
        /\ \A i \in 1 .. k : deltas'[p][i] = q[i]
    BY <1>1, <1>4, AppendProperties
  <2>2. MayFollow(p, k, deltas'[p][k + 1])
    BY <1>4, <2>1
  <2> QED
    BY <1>1, <2>1, <2>2 DEF Requeued
<1>5. CASE p \in Existing
  <2>1. Now(pods[p]) \in Delta /\ deltas'[p] = Append(q, Now(pods[p]))
    BY <1>2, <1>5 DEF Listed, Existing, TypeOK, WatchTypeOK, Now, Delta
  <2>2. MayFollow(p, k, Now(pods[p]))
    BY <1>5 DEF MayFollow, Now, After, KeepsLabels
  <2> QED
    BY <1>4, <2>1, <2>2
<1>6. ASSUME p \notin Existing, Known(p, k) # None,
             deltas'[p] = Append(q, Gone(Known(p, k)))
      PROVE  Requeued(p)
  <2>1. Known(p, k) \in Pod /\ Known(p, k).sel \in LabelOf[p]
    BY <1>6, KnownType, KnownLabel
  <2>2. Gone(Known(p, k)) \in Delta /\ MayFollow(p, k, Gone(Known(p, k)))
    BY <1>6, <2>1 DEF Gone, Delta, MayFollow, After, Existing
  <2> QED
    BY <1>4, <1>6, <2>2
<1>7. CASE p \notin Existing /\ q = <<>>
  <2>1. k = 0 /\ Known(p, k) = cache[p]
    BY <1>1, <1>7 DEF Known
  <2>2. <<Gone(cache[p])>> = Append(q, Gone(cache[p]))
    BY <1>7
  <2> QED
    BY <1>2, <1>3, <1>6, <1>7, <2>1, <2>2 DEF Listed, Existing
<1>8. CASE p \notin Existing /\ q # <<>>
  <2>1. k # 0 /\ q[Len(q)] = deltas[p][k] /\ deltas[p][k] \in Delta
    BY <1>1, <1>8, DeltasType
  <2>2. Known(p, k) = After(q[Len(q)])
    BY <2>1 DEF Known
  <2>3. After(q[Len(q)]) = IF q[Len(q)].gone THEN None ELSE q[Len(q)].pod
    BY DEF After
  <2>4. ~q[Len(q)].gone => Known(p, k) # None
    BY <2>1, <2>2, <2>3, NoPodAssumption DEF Delta
  <2> QED
    BY <1>2, <1>3, <1>6, <1>8, <2>2, <2>3, <2>4 DEF Listed, Existing
<1> QED
  BY <1>5, <1>7, <1>8

LEMMA RelistRequeues ==
  ASSUME TypeOK, WatchInv, BrokenWatch
  PROVE  /\ \A p \in PodNames : Requeued(p)
         /\ UNCHANGED <<pods, cache, drivers>>
<1>1. PICK kept \in [PodNames -> 0 .. MaxDeltas] :
        /\ \A p \in PodNames : kept[p] <= Len(deltas[p])
        /\ deltas' = [p \in PodNames |-> Listed(p, SubSeq(deltas[p], 1, kept[p]))]
  BY DEF BrokenWatch, Relist
<1>2. UNCHANGED <<pods, cache, drivers>>
  BY DEF BrokenWatch, Relist
<1>3. ASSUME NEW p \in PodNames PROVE Requeued(p)
  <2>1. kept[p] \in 0 .. Len(deltas[p])
    BY <1>1, DeltasType, MaxDeltasAssumption
  <2> QED
    BY <1>1, <1>2, <2>1, ListedRequeues
<1> QED
  BY <1>2, <1>3

LEMMA RequeuedKeeps ==
  ASSUME TypeOK, TypeOK', WatchInv, UNCHANGED <<cache, drivers>>,
         \A p \in PodNames : Requeued(p),
         \A p \in PodNames : pods'[p] # None => pods'[p].sel \in LabelOf[p]
  PROVE  WatchInv'
<1> USE DEF WatchInv
<1>1. ASSUME NEW p \in PodNames
      PROVE  /\ Known(p, Len(deltas[p]))' = pods'[p]
             /\ \A i \in 1 .. Len(deltas'[p]) :
                  /\ deltas'[p][i].gone => Known(p, i - 1)' = deltas'[p][i].pod
                  /\ deltas'[p][i].pod.sel \in LabelOf[p]
  <2>1. PICK k \in 0 .. Len(deltas[p]) :
          /\ \A i \in 1 .. k : deltas'[p][i] = deltas[p][i]
          /\ \/ Len(deltas'[p]) = k /\ Known(p, k) = pods'[p]
             \/ Len(deltas'[p]) = k + 1 /\ MayFollow(p, k, deltas'[p][k + 1])
    BY DEF Requeued
  <2>2. k \in Nat /\ k <= Len(deltas[p]) /\ Len(deltas[p]) \in Nat
    BY <2>1, DeltasType
  <2>3. \A i \in 0 .. k : Known(p, i)' = Known(p, i)
    BY <2>1, <2>2 DEF Known
  <2>4. ASSUME NEW i \in 1 .. k
        PROVE  /\ deltas'[p][i].gone => Known(p, i - 1)' = deltas'[p][i].pod
               /\ deltas'[p][i].pod.sel \in LabelOf[p]
    <3>1. i \in 1 .. Len(deltas[p]) /\ i - 1 \in 0 .. k
      BY <2>2
    <3> QED
      BY <2>1, <2>3, <3>1 DEF GoneFollowsPod, KeepsLabels
  <2>5. CASE Len(deltas'[p]) = k /\ Known(p, k) = pods'[p]
    BY <2>2, <2>3, <2>4, <2>5
  <2>6. CASE Len(deltas'[p]) = k + 1 /\ MayFollow(p, k, deltas'[p][k + 1])
    <3>1. Known(p, k + 1)' = After(deltas'[p][k + 1])
      BY <2>2 DEF Known
    <3>2. k + 1 - 1 = k /\ Known(p, k)' = Known(p, k)
      BY <2>2, <2>3
    <3>3. \A i \in 1 .. k + 1 : i = k + 1 \/ i \in 1 .. k
      BY <2>2
    <3> QED
      BY <2>4, <2>6, <3>1, <3>2, <3>3 DEF MayFollow
  <2> QED
    BY <2>1, <2>5, <2>6
<1>2. LatestIsCluster' /\ GoneFollowsPod'
  BY <1>1 DEF LatestIsCluster, GoneFollowsPod
<1>3. KeepsLabels'
  BY <1>1 DEF KeepsLabels, Existing, Held
<1>4. StoreIsCache'
  BY DEF StoreIsCache
<1> QED
  BY <1>2, <1>3, <1>4

\* Where a step takes the informer's queues and the store.
LEMMA StepQueues ==
  ASSUME TypeOK, WatchInv, [Next]_vars, ~Crash
  PROVE  \/ UNCHANGED <<drivers, unsynced>> /\ \A p \in PodNames : Requeued(p)
         \/ \E p \in PodNames : WatcherHandles(p)
<1>1. CASE ClusterStep
  BY <1>1, ClusterRequeues DEF ClusterStep, PodCreated, PodUpdated, PodDeleted, Changed, Queued
<1>2. CASE BrokenWatch
  BY <1>2, RelistRequeues DEF BrokenWatch, Relist
<1>3. CASE UNCHANGED <<drivers, watchVars>>
  <2>1. UNCHANGED <<drivers, pods, deltas, unsynced>>
    BY <1>3 DEF watchVars
  <2> QED
    BY <2>1, UntouchedRequeues DEF WatchInv
<1>4. \/ ClusterStep \/ BrokenWatch
      \/ \E p \in PodNames : WatcherHandles(p)
      \/ UNCHANGED <<drivers, watchVars>>
  BY DEF Next, SyncerStep, RequestStep, ManagerStep, Synced, InitialReconcile,
         InitialReconciled, StatusPage, ReconcileRequest, ReconcileResponse, vars
<1> QED
  BY <1>1, <1>2, <1>3, <1>4

----------------------------------------------------------------------------
(* The handlers                                                            *)

\* What the queue of a pod says once its first delta has been handled.
LEMMA HandledQueue ==
  ASSUME TypeOK, NEW p \in PodNames, HandleDelta(p)
  PROVE  LET d == Head(deltas[p])
         IN /\ d = deltas[p][1] /\ d \in Delta /\ 1 \in 1 .. Len(deltas[p])
            /\ cache' = [cache EXCEPT ![p] = After(d)]
            /\ Len(deltas'[p]) = Len(deltas[p]) - 1
            /\ \A i \in 1 .. Len(deltas'[p]) : deltas'[p][i] = deltas[p][i + 1]
            /\ \A i \in 0 .. Len(deltas'[p]) : Known(p, i)' = Known(p, i + 1)
            /\ \A q \in PodNames \ {p} : deltas'[q] = deltas[q]
            /\ UNCHANGED pods
<1> DEFINE d == Head(deltas[p])
<1>1. deltas[p] \in Seq(Delta) /\ deltas[p] # <<>>
  BY DeltasType DEF HandleDelta
<1>2. d = deltas[p][1] /\ d \in Delta /\ 1 \in 1 .. Len(deltas[p])
  BY <1>1
<1>3. cache' = [cache EXCEPT ![p] = After(d)] /\ UNCHANGED pods
  BY DEF HandleDelta, After
<1>4. deltas' = [deltas EXCEPT ![p] = Tail(@)]
  BY DEF HandleDelta
<1>5. deltas'[p] = Tail(deltas[p]) /\ \A q \in PodNames \ {p} : deltas'[q] = deltas[q]
  BY <1>4 DEF TypeOK, WatchTypeOK
<1>6. /\ Len(deltas'[p]) = Len(deltas[p]) - 1
      /\ Len(deltas'[p]) \in Nat
      /\ \A i \in 1 .. Len(deltas'[p]) : deltas'[p][i] = deltas[p][i + 1]
  BY <1>1, <1>5, HeadTailProperties
<1>7. cache'[p] = After(deltas[p][1])
  BY <1>2, <1>3 DEF TypeOK, WatchTypeOK
<1>8. \A i \in 0 .. Len(deltas'[p]) : Known(p, i)' = Known(p, i + 1)
  BY <1>6, <1>7 DEF Known
<1> QED
  BY <1>2, <1>3, <1>5, <1>6, <1>8

\* The pod that has gone is the one the informer knows.
LEMMA GoneIsCached ==
  ASSUME TypeOK, WatchInv, NEW p \in PodNames, HandleDelta(p), Head(deltas[p]).gone
  PROVE  cache[p] = Head(deltas[p]).pod
<1>1. deltas[p][1].gone /\ 1 \in 1 .. Len(deltas[p]) /\ Head(deltas[p]) = deltas[p][1]
  BY HandledQueue
<1>2. Known(p, 1 - 1) = deltas[p][1].pod
  BY <1>1 DEF WatchInv, GoneFollowsPod
<1> QED
  BY <1>1, <1>2 DEF Known

LEMMA HandleKeeps ==
  ASSUME TypeOK, TypeOK', WatchInv, NEW p \in PodNames, HandleDelta(p)
  PROVE  WatchInv'
<1> USE DEF WatchInv
<1> DEFINE d == Head(deltas[p])
<1> PICK n : n = Len(deltas'[p])
  OBVIOUS
<1>1. /\ d = deltas[p][1] /\ d \in Delta /\ 1 \in 1 .. Len(deltas[p])
      /\ cache' = [cache EXCEPT ![p] = After(d)]
      /\ n = Len(deltas[p]) - 1
      /\ \A i \in 1 .. n : deltas'[p][i] = deltas[p][i + 1]
      /\ \A i \in 0 .. n : Known(p, i)' = Known(p, i + 1)
      /\ \A q \in PodNames \ {p} : deltas'[q] = deltas[q]
      /\ UNCHANGED pods
  BY HandledQueue
<1>2. \A q \in PodNames \ {p} : cache'[q] = cache[q]
  BY <1>1 DEF TypeOK, WatchTypeOK
<1>3. \A q \in PodNames \ {p} : \A i : Known(q, i)' = Known(q, i)
  BY <1>1, <1>2 DEF Known
<1>4. n \in Nat /\ Len(deltas[p]) \in Nat
  BY <1>1, DeltasType
<1> HIDE DEF d
<1>5. LatestIsCluster'
  <2>1. Known(p, n)' = pods[p]
    BY <1>1, <1>4 DEF LatestIsCluster
  <2> QED
    BY <1>1, <1>3, <2>1 DEF LatestIsCluster
<1>6. GoneFollowsPod'
  <2>1. ASSUME NEW i \in 1 .. n, deltas'[p][i].gone
        PROVE  Known(p, i - 1)' = deltas'[p][i].pod
    <3>1. i + 1 \in 1 .. Len(deltas[p]) /\ i - 1 \in 0 .. n /\ i + 1 - 1 = i - 1 + 1
      BY <1>1, <1>4
    <3>2. Known(p, i + 1 - 1) = deltas[p][i + 1].pod
      BY <1>1, <2>1, <3>1 DEF GoneFollowsPod
    <3> QED
      BY <1>1, <3>1, <3>2
  <2>2. ASSUME NEW q \in PodNames \ {p}, NEW i \in 1 .. Len(deltas'[q]), deltas'[q][i].gone
        PROVE  Known(q, i - 1)' = deltas'[q][i].pod
    BY <1>1, <1>3, <2>2 DEF GoneFollowsPod
  <2> QED
    BY <2>1, <2>2 DEF GoneFollowsPod
<1>7. d.pod.sel \in LabelOf[p]
  BY <1>1 DEF KeepsLabels
<1>8. /\ \A q \in PodNames \ {p} : drivers'[q] = drivers[q]
      /\ \/ ~IsSparkDriver(d.pod) /\ drivers'[p] = drivers[p]
         \/ d.gone /\ drivers'[p] = None
         \/ ~d.gone /\ IsSparkDriver(d.pod) /\ drivers'[p] = DriverOf(d.pod)
  BY HandlerCases DEF d, Add, Remove, TypeOK, StoreTypeOK
<1>9. KeepsLabels'
  <2>1. cache'[p] = After(d)
    BY <1>1 DEF TypeOK, WatchTypeOK
  <2>2. cache'[p] # None => cache'[p].sel \in LabelOf[p]
    BY <1>7, <2>1 DEF After
  <2>3. drivers'[p] # None => drivers'[p].sel \in LabelOf[p]
    BY <1>7, <1>8 DEF KeepsLabels, Held, DriverOf
  <2>4. \A i \in 1 .. n : deltas'[p][i].pod.sel \in LabelOf[p]
    BY <1>1, <1>4 DEF KeepsLabels
  <2> QED
    BY <1>1, <1>2, <1>8, <2>2, <2>3, <2>4 DEF KeepsLabels, Existing, Held
<1>10. StoreIsCache'
  <2>1. cache'[p] = After(d)
    BY <1>1 DEF TypeOK, WatchTypeOK
  <2>2. cache'[p] # None /\ IsSparkDriver(cache'[p]) => drivers'[p] = DriverOf(cache'[p])
    BY <1>8, <2>1 DEF After
  <2>3. cache'[p] = None /\ NoSelector \notin LabelOf[p] => drivers'[p] = None
    <3>1. d.pod # None
      BY <1>1, NoPodAssumption DEF Delta
    <3> QED
      BY <1>7, <1>8, <2>1, <3>1 DEF After, IsSparkDriver
  <2> QED
    BY <1>2, <1>8, <2>2, <2>3 DEF StoreIsCache
<1> QED
  BY <1>5, <1>6, <1>9, <1>10

----------------------------------------------------------------------------
(* The invariant holds                                                     *)

\* An informer that starts.
LEMMA FirstListKnown ==
  /\ deltas = FirstList /\ cache = [p \in PodNames |-> None]
  /\ drivers = [p \in PodNames |-> None]
  /\ \A p \in Existing : pods[p].sel \in LabelOf[p]
  => WatchInv
<1> SUFFICES ASSUME deltas = FirstList, cache = [p \in PodNames |-> None],
                    drivers = [p \in PodNames |-> None],
                    \A p \in Existing : pods[p].sel \in LabelOf[p]
             PROVE  WatchInv
  OBVIOUS
<1>1. ASSUME NEW p \in Existing
      PROVE  /\ Len(deltas[p]) = 1 /\ Known(p, 1) = pods[p]
             /\ \A i \in 1 .. Len(deltas[p]) : deltas[p][i] = Now(pods[p])
  <2>1. deltas[p] = <<Now(pods[p])>>
    BY DEF FirstList, Existing
  <2>2. Len(deltas[p]) = 1 /\ deltas[p][1] = Now(pods[p])
    BY <2>1
  <2> QED
    BY <2>2 DEF Known, After, Now
<1>2. ASSUME NEW p \in PodNames \ Existing
      PROVE  deltas[p] = <<>> /\ Known(p, 0) = pods[p]
  BY DEF FirstList, Known, Existing
<1>3. LatestIsCluster
  BY <1>1, <1>2 DEF LatestIsCluster
<1>4. ASSUME NEW p \in PodNames, NEW i \in 1 .. Len(deltas[p])
      PROVE  p \in Existing /\ ~deltas[p][i].gone /\ deltas[p][i].pod = pods[p]
  <2>1. p \in Existing
    BY <1>2
  <2>2. deltas[p][i] = Now(pods[p])
    BY <1>1, <2>1
  <2> QED
    BY <2>1, <2>2 DEF Now
<1>5. GoneFollowsPod
  BY <1>4 DEF GoneFollowsPod
<1>6. KeepsLabels
  BY <1>4 DEF KeepsLabels, Held
<1>7. StoreIsCache
  BY DEF StoreIsCache
<1> QED
  BY <1>3, <1>5, <1>6, <1>7 DEF WatchInv

LEMMA WatchInvInit == Init => WatchInv
BY FirstListKnown DEF Init, WatchInit, StoreInit

LEMMA WatchInvNext == TypeOK /\ WatchInv /\ [Next]_vars => WatchInv'
<1> SUFFICES ASSUME TypeOK, WatchInv, [Next]_vars PROVE WatchInv'
  OBVIOUS
<1>1. TypeOK'
  BY NextType
<1>2. CASE ClusterStep
  BY <1>1, <1>2, ClusterRequeues, RequeuedKeeps
<1>3. CASE BrokenWatch
  BY <1>1, <1>3, RelistRequeues, RequeuedKeeps DEF WatchInv, KeepsLabels, Existing
<1>4. ASSUME NEW p \in PodNames, WatcherHandles(p) PROVE WatchInv'
  BY <1>1, <1>4, HandleKeeps DEF WatcherHandles
<1>5. CASE Crash
  <2>1. \A p \in Existing' : pods'[p].sel \in LabelOf[p]
    BY <1>5 DEF Crash, WatchRestart, WatchInv, KeepsLabels, Existing
  <2>2. /\ deltas' = FirstList' /\ drivers' = [p \in PodNames |-> None]
        /\ cache' = [p \in PodNames |-> None]
    BY <1>5 DEF Crash, WatchRestart, FirstList, Existing
  <2>3. (/\ deltas = FirstList /\ cache = [p \in PodNames |-> None]
         /\ drivers = [p \in PodNames |-> None]
         /\ \A p \in Existing : pods[p].sel \in LabelOf[p]
         => WatchInv)'
    BY FirstListKnown, PTL
  <2> QED
    BY <2>1, <2>2, <2>3
<1>6. CASE UNCHANGED <<drivers, watchVars>>
  BY <1>6 DEF watchVars, WatchInv, LatestIsCluster, GoneFollowsPod, KeepsLabels,
              StoreIsCache, Known, Existing, Held
<1>7. \/ ClusterStep \/ BrokenWatch \/ Crash
      \/ \E p \in PodNames : WatcherHandles(p)
      \/ UNCHANGED <<drivers, watchVars>>
  BY DEF Next, SyncerStep, RequestStep, ManagerStep, Synced, InitialReconcile,
         InitialReconciled, StatusPage, ReconcileRequest, ReconcileResponse, vars
<1> QED
  BY <1>2, <1>3, <1>4, <1>5, <1>6, <1>7

----------------------------------------------------------------------------
(* The goroutine acts on what the store says                               *)

\* "spark-app-selector uniquely identifies the application within the cluster"
\* (README.md), an application has one driver pod, and no two applications share
\* the name of a route.  A pod name may be used by many applications in turn.
OwnRoutes ==
  /\ \A s, t \in Selectors : RouteName[s] = RouteName[t] => s = t
  /\ \A p, q \in PodNames : \A s \in Selectors :
       s \in LabelOf[p] /\ s \in LabelOf[q] => p = q

\* No driver of route n is about to run, or running.
Finished(n) ==
  \A p \in Held : RouteName[drivers[p].sel] = n => drivers[p].state \in Terminal

\* The informer goroutine is blocked while it writes a route, so that the store
\* still says what made it do so.
WatcherActsOnStore ==
  /\ pc[Watcher] \in {"get", "create"} => target[Watcher] \in ListRunning
  /\ pc[Watcher] = "delete" => Finished(RouteName[target[Watcher]])

\* The drivers of a route.
LEMMA WantingIff ==
  \A n : Wanting(n) # {} <=> \E p \in Held : /\ drivers[p].state = "Running"
                                             /\ RouteName[drivers[p].sel] = n
BY DEF Wanting, ListRunning

LEMMA RunningNotFinished == \A n : Wanting(n) # {} => ~Finished(n)
BY WantingIff DEF Finished, Terminal

LEMMA WantingIffNext ==
  \A n : /\ (Wanting(n) # {})' <=> \E p \in PodNames : /\ drivers'[p] # None
                                                       /\ drivers'[p].state = "Running"
                                                       /\ RouteName[drivers'[p].sel] = n
         /\ (Wanting(n) # {} => ~Finished(n))'
<1>1. (\A n : Wanting(n) # {} <=> \E p \in Held : /\ drivers[p].state = "Running"
                                                  /\ RouteName[drivers[p].sel] = n)'
  BY WantingIff, PTL
<1>2. (\A n : Wanting(n) # {} => ~Finished(n))'
  BY RunningNotFinished, PTL
<1> QED
  BY <1>1, <1>2 DEF Held

LEMMA HeldLabel ==
  ASSUME TypeOK, KeepsLabels, NEW p \in Held
  PROVE  p \in PodNames /\ drivers[p].sel \in Selectors /\ drivers[p].sel \in LabelOf[p]
BY DEF Held, KeepsLabels, TypeOK, StoreTypeOK, Driver

\* With routes of their own, no other pod has the route of a label of pod p.
LEMMA OnlyHolder ==
  OwnRoutes /\ TypeOK /\ KeepsLabels =>
    \A p \in PodNames : \A s \in LabelOf[p] \cap Selectors : \A q \in Held :
      RouteName[drivers[q].sel] = RouteName[s] => q = p /\ drivers[q].sel = s
<1> SUFFICES ASSUME OwnRoutes, TypeOK, KeepsLabels, NEW p \in PodNames,
                    NEW s \in LabelOf[p] \cap Selectors, NEW q \in Held,
                    RouteName[drivers[q].sel] = RouteName[s]
             PROVE  q = p /\ drivers[q].sel = s
  OBVIOUS
<1> QED
  BY HeldLabel DEF OwnRoutes

LEMMA OnlyHolderNext ==
  ASSUME OwnRoutes, TypeOK', WatchInv'
  PROVE  \A p \in PodNames : \A s \in LabelOf[p] \cap Selectors : \A q \in PodNames :
           drivers'[q] # None /\ RouteName[drivers'[q].sel] = RouteName[s]
             => q = p /\ drivers'[q].sel = s
<1>1. (OwnRoutes /\ TypeOK /\ KeepsLabels =>
         \A p \in PodNames : \A s \in LabelOf[p] \cap Selectors : \A q \in Held :
           RouteName[drivers[q].sel] = RouteName[s] => q = p /\ drivers[q].sel = s)'
  BY OnlyHolder, PTL
<1> QED
  BY <1>1 DEF WatchInv, Held, OwnRoutes

\* What a handler does, seen from the drivers before and after.
LEMMA HandlerEffect ==
  ASSUME TypeOK, WatchInv, NEW p \in PodNames, HandleDelta(p)
  PROVE  /\ pc[Watcher] = "idle" /\ UNCHANGED routes
         /\ \A q \in PodNames \ {p} : drivers'[q] = drivers[q]
         /\ \/ drivers'[p] = drivers[p] /\ UNCHANGED <<pc, target>>
            \/ /\ drivers[p] # None /\ drivers'[p] = None
               /\ BeginDelete(Watcher, drivers[p].sel)
            \/ \E dr \in Driver :
                 /\ dr.sel \in LabelOf[p] /\ drivers'[p] = dr
                 /\ \/ dr.state = "Running" /\ BeginEnsure(Watcher, dr.sel)
                    \/ dr.state \in Terminal /\ BeginDelete(Watcher, dr.sel)
                    \/ /\ dr.state # "Running" /\ (cache[p] # None => dr.state \notin Terminal)
                       /\ UNCHANGED <<pc, target>>
<1> DEFINE d == Head(deltas[p])
<1>1. d \in Delta /\ d = deltas[p][1] /\ 1 \in 1 .. Len(deltas[p])
  BY HandledQueue
<1>2. d.gone => cache[p] = d.pod
  BY GoneIsCached
<1>3. d.pod.sel \in LabelOf[p]
  BY <1>1 DEF WatchInv, KeepsLabels
<1>4. pc[Watcher] = "idle" /\ drivers \in [PodNames -> Driver \cup {None}]
  BY DEF HandleDelta, TypeOK, StoreTypeOK
<1> HIDE DEF d
<1>5. CASE ~IsSparkDriver(d.pod) /\ NoCall /\ UNCHANGED drivers
  BY <1>4, <1>5 DEF NoCall, managerVars, callVars
<1>6. CASE IsSparkDriver(d.pod) /\ d.gone /\ Remove(p) /\ BeginDelete(Watcher, d.pod.sel)
  <2>1. drivers[p] = DriverOf(d.pod) /\ d.pod # None
    BY <1>1, <1>2, <1>6, NoPodAssumption DEF WatchInv, StoreIsCache, Delta
  <2>2. drivers[p].sel = d.pod.sel /\ DriverOf(d.pod) \in Driver
    BY <1>1, <1>6, <2>1, DriverOfType DEF DriverOf, Delta
  <2> QED
    BY <1>4, <1>6, <2>1, <2>2, NoneAssumption DEF Remove, BeginDelete
<1>7. CASE /\ IsSparkDriver(d.pod) /\ ~d.gone /\ Add(p, DriverOf(d.pod))
  <2>1. DriverOf(d.pod) \in Driver /\ DriverOf(d.pod).sel \in LabelOf[p]
    BY <1>1, <1>3, <1>7, DriverOfType DEF DriverOf, Delta
  <2>2. PICK dr \in Driver : dr = DriverOf(d.pod)
    BY <2>1
  <2>3. drivers'[p] = dr /\ \A q \in PodNames \ {p} : drivers'[q] = drivers[q]
    BY <1>4, <1>7, <2>2 DEF Add
  <2>4. \/ dr.state = "Running" /\ BeginEnsure(Watcher, dr.sel)
        \/ dr.state \in Terminal /\ BeginDelete(Watcher, dr.sel)
        \/ /\ dr.state # "Running" /\ (cache[p] # None => dr.state \notin Terminal)
           /\ NoCall
    BY <1>7, <2>2, HandlerCases DEF d
  <2>5. UNCHANGED routes /\ (NoCall => UNCHANGED <<pc, target>>)
    BY <2>4 DEF NoCall, managerVars, callVars, BeginEnsure, BeginDelete
  <2> QED
    BY <1>4, <2>1, <2>2, <2>3, <2>4, <2>5
<1> QED
  BY <1>5, <1>6, <1>7, HandlerCases DEF d

LEMMA HandleActsOnStore ==
  ASSUME OwnRoutes, TypeOK, TypeOK', WatchInv, WatchInv', NEW p \in PodNames, HandleDelta(p)
  PROVE  WatcherActsOnStore'
<1>1. ASSUME NEW s \in LabelOf[p] \cap Selectors, BeginDelete(Watcher, s),
             drivers'[p] # None => drivers'[p].state \in Terminal
      PROVE  WatcherActsOnStore'
  <2>1. pc'[Watcher] = "delete" /\ target'[Watcher] = s
    BY <1>1, CallersElements DEF BeginDelete, Goto, TypeOK, ManagerTypeOK
  <2>2. Finished(RouteName[s])'
    BY <1>1, OnlyHolderNext DEF Finished, Held
  <2> QED
    BY <2>1, <2>2 DEF WatcherActsOnStore
<1>2. ASSUME NEW dr \in Driver, drivers'[p] = dr, dr.state = "Running",
             BeginEnsure(Watcher, dr.sel)
      PROVE  WatcherActsOnStore'
  <2>1. pc'[Watcher] = "get" /\ target'[Watcher] = dr.sel
    BY <1>2, CallersElements DEF BeginEnsure, Goto, TypeOK, ManagerTypeOK
  <2>2. dr.sel \in ListRunning'
    BY <1>2, NoneAssumption DEF ListRunning, Held
  <2> QED
    BY <2>1, <2>2 DEF WatcherActsOnStore
<1>3. pc[Watcher] = "idle"
  BY HandlerEffect
<1>4. CASE UNCHANGED <<pc, target>>
  BY <1>3, <1>4 DEF WatcherActsOnStore
<1>5. CASE drivers[p] # None /\ drivers'[p] = None /\ BeginDelete(Watcher, drivers[p].sel)
  BY <1>1, <1>5, HeldLabel DEF Held, WatchInv
<1> QED
  BY <1>1, <1>2, <1>4, <1>5, HandlerEffect DEF Driver

\* A step that is not the informer goroutine's leaves it and the store alone.
LEMMA WatcherStays ==
  ASSUME TypeOK, [Next]_vars, ~Crash, ~ManagerStep(Watcher),
         ~ \E p \in PodNames : WatcherHandles(p)
  PROVE  UNCHANGED drivers /\ Locals(Watcher)' = Locals(Watcher)
<1>1. CASE UNCHANGED <<drivers, managerVars>>
  BY <1>1 DEF Locals, managerVars, callVars
<1>3. ASSUME NEW c \in Callers, ManagerStep(c)
      PROVE  UNCHANGED drivers /\ Locals(Watcher)' = Locals(Watcher)
  <2>1. UNCHANGED drivers
    BY <1>3 DEF ManagerStep
  <2> QED
    BY <1>3, <2>1, OthersStay, CallersElements
<1>4. CASE Synced
  <2>1. /\ Goto(Syncer, "synced") /\ UNCHANGED <<target, wanted, stale, missing, failed>>
        /\ Watcher \in Callers \ {Syncer} /\ Syncer \in Callers
    BY <1>4, CallersElements, CallersAssumption DEF Synced
  <2> QED
    BY <1>4, <2>1, OthersStay DEF Synced
<1>5. ASSUME NEW c \in Callers \ {Watcher}, UNCHANGED drivers,
             \/ \E s : BeginEnsure(c, s)
             \/ \E w : BeginReconcile(c, w)
             \/ \E l : Return(c, l)
      PROVE  UNCHANGED drivers /\ Locals(Watcher)' = Locals(Watcher)
  BY <1>5, OthersStay, CallersElements
<1> QED
  BY <1>1, <1>3, <1>4, <1>5, StepCases

LEMMA ActsOnStoreNext ==
  OwnRoutes /\ TypeOK /\ WatchInv /\ WatcherActsOnStore /\ [Next]_vars => WatcherActsOnStore'
<1> SUFFICES ASSUME OwnRoutes, TypeOK, WatchInv, WatcherActsOnStore, [Next]_vars
             PROVE  WatcherActsOnStore'
  OBVIOUS
<1>1. TypeOK' /\ WatchInv'
  BY NextType, WatchInvNext
<1>2. ASSUME NEW p \in PodNames, WatcherHandles(p) PROVE WatcherActsOnStore'
  BY <1>1, <1>2, HandleActsOnStore DEF WatcherHandles
<1>3. CASE UNCHANGED drivers /\ Locals(Watcher)' = Locals(Watcher)
  BY <1>3 DEF Locals, WatcherActsOnStore, ListRunning, Finished, Held
<1>4. CASE ManagerStep(Watcher)
  <2>1. UNCHANGED drivers
    BY <1>4 DEF ManagerStep
  <2>2. pc'[Watcher] \in {"get", "create", "delete"}
          => pc[Watcher] = "get" /\ pc'[Watcher] = "create"
    BY <1>4, StepPc, CallersElements
  <2>3. pc[Watcher] = "get" /\ pc'[Watcher] = "create" => target'[Watcher] = target[Watcher]
    BY <1>4, CallersElements
    DEF ManagerStep, ReconcileStep, EnsureGet, EnsureCreate, DeleteCall, ReconcileList,
        ReconcileDelete, ReconcileCreate, RootGet, RootWrite, Return, Goto, TypeOK, ManagerTypeOK
  <2> QED
    BY <2>1, <2>2, <2>3 DEF WatcherActsOnStore, ListRunning, Held
<1>5. CASE Crash
  <2>1. pc'[Watcher] = "idle"
    BY <1>5, CallersElements, CallersAssumption DEF Crash
  <2> QED
    BY <2>1 DEF WatcherActsOnStore
<1> QED
  BY <1>2, <1>3, <1>4, <1>5, WatcherStays

\* The Reconcile of c wants what the store does.
WantsRight(c, n) ==
  IF wanted[c][n] = None THEN Wanting(n) = {} ELSE wanted[c][n] \in Wanting(n)

----------------------------------------------------------------------------
(* An instance whose watch does not break, and which gets no requests       *)

\* Any step but a request's and a new list.
InstanceStep ==
  \/ ClusterStep
  \/ \E p \in PodNames : WatcherHandles(p)
  \/ ManagerStep(Watcher)
  \/ SyncerStep
  \/ Crash

\* A pod is queued under the label that it had when the informer last saw it.
SameLabel ==
  \A p \in PodNames : \A i \in 1 .. Len(deltas[p]) :
    Known(p, i - 1) # None => deltas[p][i].pod.sel = Known(p, i - 1).sel

\* Then the store holds the driver pods of the cache and nothing else.
ExactStore ==
  \A p \in PodNames :
    drivers[p] = IF cache[p] # None /\ IsSparkDriver(cache[p]) THEN DriverOf(cache[p]) ELSE None

InstanceInv ==
  /\ WatchInv
  /\ SameLabel
  /\ ExactStore
  /\ CallsInv
  /\ CallsSpareRoot
  /\ CallsNameRoutes
  /\ WatcherActsOnStore

LEMMA SameLabelQueued ==
  ASSUME TypeOK, WatchInv, SameLabel, ClusterStep
  PROVE  SameLabel'
<1>1. PICK p \in PodNames : PodCreated(p) \/ PodUpdated(p) \/ PodDeleted(p)
  BY DEF ClusterStep
<1>2. PICK d : /\ deltas' = [deltas EXCEPT ![p] = Append(@, d)]
               /\ UNCHANGED cache
               /\ pods[p] # None => d.pod.sel = pods[p].sel
  <2>1. CASE PodCreated(p)
    BY <2>1 DEF PodCreated, Changed, Queued, Existing
  <2>2. CASE PodUpdated(p)
    <3>1. PICK ph \in Phases : Changed(p, [pods[p] EXCEPT !.phase = ph])
      BY <2>2 DEF PodUpdated
    <3>2. pods[p] \in Pod
      BY <2>2, DeltasType DEF PodUpdated, Existing
    <3>3. Now([pods[p] EXCEPT !.phase = ph]).pod.sel = pods[p].sel
      BY <3>2 DEF Now, Pod
    <3> QED
      BY <3>1, <3>3 DEF Changed, Queued
  <2>3. CASE PodDeleted(p)
    <3>1. Gone(pods[p]).pod.sel = pods[p].sel
      BY DEF Gone
    <3> QED
      BY <2>3, <3>1 DEF PodDeleted, Queued
  <2> QED
    BY <1>1, <2>1, <2>2, <2>3
<1>3. deltas[p] \in Seq(Delta) /\ Len(deltas[p]) \in Nat
  BY DeltasType
<1>4. /\ \A q \in PodNames \ {p} : deltas'[q] = deltas[q]
      /\ deltas'[p] = Append(deltas[p], d)
  BY <1>2 DEF TypeOK, WatchTypeOK
<1>5. ASSUME NEW q \in PodNames \ {p}, NEW i \in 1 .. Len(deltas'[q]), Known(q, i - 1)' # None
      PROVE  deltas'[q][i].pod.sel = Known(q, i - 1)'.sel
  <2>1. Known(q, i - 1)' = Known(q, i - 1)
    BY <1>2, <1>4 DEF Known
  <2> QED
    BY <1>4, <1>5, <2>1 DEF SameLabel
<1>6. ASSUME NEW i \in 1 .. Len(deltas'[p]), Known(p, i - 1)' # None
      PROVE  deltas'[p][i].pod.sel = Known(p, i - 1)'.sel
  <2>1. /\ Len(deltas'[p]) = Len(deltas[p]) + 1
        /\ deltas'[p][Len(deltas[p]) + 1] = d
        /\ \A j \in 1 .. Len(deltas[p]) : deltas'[p][j] = deltas[p][j]
    BY <1>3, <1>4
  <2>2. Known(p, i - 1)' = Known(p, i - 1)
    BY <1>2, <1>3, <2>1 DEF Known
  <2>3. CASE i \in 1 .. Len(deltas[p])
    BY <1>6, <2>1, <2>2, <2>3 DEF SameLabel
  <2>4. CASE i = Len(deltas[p]) + 1
    <3>1. Known(p, i - 1) = pods[p]
      BY <1>3, <2>4 DEF WatchInv, LatestIsCluster
    <3> QED
      BY <1>2, <1>6, <2>1, <2>2, <2>4, <3>1
  <2> QED
    BY <1>3, <2>1, <2>3, <2>4
<1> QED
  BY <1>5, <1>6 DEF SameLabel

LEMMA SameLabelHandled ==
  ASSUME TypeOK, SameLabel, NEW p \in PodNames, HandleDelta(p)
  PROVE  SameLabel'
<1> SUFFICES ASSUME NEW q \in PodNames, NEW i \in 1 .. Len(deltas'[q]), Known(q, i - 1)' # None
             PROVE  deltas'[q][i].pod.sel = Known(q, i - 1)'.sel
  BY DEF SameLabel
<1>1. /\ cache' = [cache EXCEPT ![p] = After(Head(deltas[p]))]
      /\ Len(deltas'[p]) = Len(deltas[p]) - 1
      /\ \A j \in 1 .. Len(deltas'[p]) : deltas'[p][j] = deltas[p][j + 1]
      /\ \A j \in 0 .. Len(deltas'[p]) : Known(p, j)' = Known(p, j + 1)
      /\ \A r \in PodNames \ {p} : deltas'[r] = deltas[r]
  BY HandledQueue
<1>2. CASE q # p
  <2>1. Known(q, i - 1)' = Known(q, i - 1)
    BY <1>1, <1>2 DEF Known, TypeOK, WatchTypeOK
  <2> QED
    BY <1>1, <1>2, <2>1 DEF SameLabel
<1>3. CASE q = p
  <2>1. Len(deltas[p]) \in Nat /\ i \in Nat /\ i - 1 \in 0 .. Len(deltas'[p])
        /\ i + 1 \in 1 .. Len(deltas[p]) /\ (i - 1) + 1 = (i + 1) - 1
    BY <1>1, <1>3, DeltasType
  <2>2. Known(p, i - 1)' = Known(p, (i + 1) - 1)
    BY <1>1, <2>1
  <2>3. deltas'[p][i] = deltas[p][i + 1]
    BY <1>1, <1>3
  <2> QED
    BY <1>3, <2>1, <2>2, <2>3 DEF SameLabel
<1> QED
  BY <1>2, <1>3

LEMMA HandledLabel ==
  ASSUME TypeOK, SameLabel, NEW p \in PodNames, HandleDelta(p), cache[p] # None
  PROVE  Head(deltas[p]).pod.sel = cache[p].sel
<1>1. Head(deltas[p]) = deltas[p][1] /\ 1 \in 1 .. Len(deltas[p])
  BY HandledQueue
<1>2. Known(p, 1 - 1) = cache[p]
  BY DEF Known
<1> QED
  BY <1>1, <1>2 DEF SameLabel

LEMMA ExactHandled ==
  ASSUME TypeOK, SameLabel, ExactStore, NEW p \in PodNames, HandleDelta(p)
  PROVE  ExactStore'
<1> DEFINE d == Head(deltas[p])
<1>1. cache' = [cache EXCEPT ![p] = After(d)] /\ d \in Delta
  BY HandledQueue
<1>2. cache[p] # None => d.pod.sel = cache[p].sel
  BY HandledLabel
<1>3. drivers[p] = IF cache[p] # None /\ IsSparkDriver(cache[p]) THEN DriverOf(cache[p]) ELSE None
  BY DEF ExactStore
<1>4. d.pod # None
  BY <1>1, NoPodAssumption DEF Delta
<1> HIDE DEF d
<1>5. /\ \A q \in PodNames \ {p} : drivers'[q] = drivers[q] /\ cache'[q] = cache[q]
      /\ cache'[p] = After(d)
  BY <1>1, HandlerCases DEF Remove, Add, TypeOK, StoreTypeOK, WatchTypeOK
<1>6. drivers'[p] = IF cache'[p] # None /\ IsSparkDriver(cache'[p]) THEN DriverOf(cache'[p])
                                                                    ELSE None
  <2>1. CASE ~IsSparkDriver(d.pod) /\ UNCHANGED drivers
    BY <1>2, <1>3, <1>5, <2>1 DEF After, IsSparkDriver
  <2>2. CASE d.gone /\ Remove(p)
    BY <1>5, <2>2 DEF After, Remove, TypeOK, StoreTypeOK
  <2>3. CASE IsSparkDriver(d.pod) /\ ~d.gone /\ Add(p, DriverOf(d.pod))
    BY <1>4, <1>5, <2>3 DEF After, Add, TypeOK, StoreTypeOK
  <2> QED
    BY <2>1, <2>2, <2>3, HandlerCases DEF d
<1> QED
  BY <1>5, <1>6 DEF ExactStore

LEMMA HeldIsCached ==
  ExactStore => \A p \in PodNames :
                  drivers[p] # None => cache[p] # None /\ drivers[p].sel = cache[p].sel
<1>1. \A pod : DriverOf(pod).sel = pod.sel
  BY DEF DriverOf
<1> QED
  BY <1>1 DEF ExactStore

LEMMA HeldIsCachedNext ==
  (ExactStore => \A p \in PodNames :
                   drivers[p] # None => cache[p] # None /\ drivers[p].sel = cache[p].sel)'
BY HeldIsCached, PTL

LEMMA InstanceSteps == InstanceStep => Next
BY DEF InstanceStep, Next

LEMMA FirstListOnce == \A p \in PodNames : \A i \in 1 .. Len(FirstList[p]) : i = 1
<1> SUFFICES ASSUME NEW p \in PodNames PROVE \A i \in 1 .. Len(FirstList[p]) : i = 1
  OBVIOUS
<1>1. CASE p \in Existing
  <2>1. FirstList[p] = <<Now(pods[p])>>
    BY <1>1 DEF FirstList
  <2> QED
    BY <2>1
<1>2. CASE p \notin Existing
  <2>1. FirstList[p] = <<>>
    BY <1>2 DEF FirstList
  <2> QED
    BY <2>1
<1> QED
  BY <1>1, <1>2

LEMMA InstanceInit == Init => InstanceInv
<1> SUFFICES ASSUME Init PROVE InstanceInv
  OBVIOUS
<1>1. WatchInv /\ CallsInv
  BY WatchInvInit, CallsInvInit
<1>2. SameLabel /\ ExactStore
  <2>1. ASSUME NEW p \in PodNames, NEW i \in 1 .. Len(deltas[p]) PROVE Known(p, i - 1) = None
    <3>1. i = 1
      BY <2>1, FirstListOnce DEF Init, WatchInit
    <3> QED
      BY <3>1 DEF Known, Init, WatchInit
  <2>2. ExactStore
    BY DEF ExactStore, Init, WatchInit, StoreInit
  <2> QED
    BY <2>1, <2>2 DEF SameLabel
<1>3. CallsSpareRoot /\ CallsNameRoutes /\ WatcherActsOnStore
  BY CallersElements, CallersAssumption
  DEF Init, CallsInit, CallsSpareRoot, CallsNameRoutes, WantNothing, Routes, WatcherActsOnStore
<1> QED
  BY <1>1, <1>2, <1>3 DEF InstanceInv

LEMMA InstanceNext ==
  ASSUME OwnRoutes, TypeOK, InstanceInv, InstanceStep
  PROVE  InstanceInv'
<1> USE DEF InstanceInv
<1>1. [Next]_vars
  BY InstanceSteps
<1>2. /\ WatchInv' /\ CallsInv' /\ CallsSpareRoot' /\ CallsNameRoutes'
      /\ WatcherActsOnStore'
  BY <1>1, WatchInvNext, CallsInvNext, SpareNext, NamesNext, ActsOnStoreNext
<1>3. SameLabel' /\ ExactStore'
  <2>1. CASE ClusterStep
    <3>1. ExactStore'
      BY <2>1, ClusterRequeues DEF ExactStore
    <3> QED
      BY <2>1, <3>1, SameLabelQueued
  <2>2. ASSUME NEW p \in PodNames, WatcherHandles(p) PROVE SameLabel' /\ ExactStore'
    BY <2>2, SameLabelHandled, ExactHandled DEF WatcherHandles
  <2>3. CASE UNCHANGED <<drivers, watchVars>>
    BY <2>3 DEF watchVars, SameLabel, ExactStore, Known
  <2>4. CASE Crash
    <3>1. /\ drivers' = [p \in PodNames |-> None] /\ cache' = [p \in PodNames |-> None]
          /\ deltas' = FirstList /\ UNCHANGED pods
      BY <2>4 DEF Crash, WatchRestart
    <3>2. ASSUME NEW p \in PodNames, NEW i \in 1 .. Len(deltas'[p]) PROVE Known(p, i - 1)' = None
      <4>1. i = 1
        BY <3>1, <3>2, FirstListOnce
      <4> QED
        BY <3>1, <4>1 DEF Known
    <3> QED
      BY <3>1, <3>2 DEF SameLabel, ExactStore
  <2> QED
    BY <2>1, <2>2, <2>3, <2>4
    DEF InstanceStep, SyncerStep, ManagerStep, Synced, InitialReconcile, InitialReconciled
<1> QED
  BY <1>2, <1>3

\* What the other instance does to the routes is of no concern to this one's own.
LEMMA InstanceStays ==
  ASSUME InstanceInv, UNCHANGED <<drivers, callVars, watchVars>>
  PROVE  InstanceInv'
<1> USE DEF callVars, watchVars
<1>1. WatchInv' /\ SameLabel' /\ ExactStore'
  BY DEF InstanceInv, WatchInv, LatestIsCluster, GoneFollowsPod, KeepsLabels, StoreIsCache,
         Known, Existing, Held, SameLabel, ExactStore
<1>2. CallsInv' /\ CallsSpareRoot' /\ CallsNameRoutes'
  BY DEF InstanceInv, CallsInv, CallsHaveKinds, StaleIsUnwanted, CallsSpareRoot, CallsNameRoutes
<1>3. WatcherActsOnStore'
  BY DEF InstanceInv, WatcherActsOnStore, ListRunning, Finished, Held
<1> QED
  BY <1>1, <1>2, <1>3 DEF InstanceInv

----------------------------------------------------------------------------
(* What an instance does to a route                                        *)

\* The initial Reconcile wants what the store does.
SyncerIsRight ==
  pc[Syncer] \in {"list", "fix"} => \A n \in RouteNames : WantsRight(Syncer, n)

\* The syncer has still to find the route n, or to delete it.
Pending(n) == \/ pc[Syncer] \in {"waiting", "synced", "list"}
              \/ pc[Syncer] = "fix" /\ n \in stale[Syncer]

\* The instance has a Running driver of route n, or only finished ones, and has
\* nothing left to do about it.
Lacks(n) == Wanting(n) # {} /\ ~Ensuring(n)
Leaves(n) == Finished(n) /\ ~Deleting(n) /\ ~Pending(n)

LEMMA WantedIsRight ==
  ASSUME TypeOK, KeepsLabels, NEW w \in WantedMaps(ListRunning), NEW n \in RouteNames
  PROVE  IF w[n] = None THEN Wanting(n) = {} ELSE w[n] \in Wanting(n)
<1>1. n \in Routes
  BY DEF Routes
<1>2. IF Wanting(n) = {} THEN w[n] = None ELSE w[n] \in Wanting(n)
  BY <1>1 DEF WantedMaps, Wanting
<1>3. None \notin Wanting(n)
  BY HeldLabel, NoneAssumption DEF Wanting, ListRunning
<1> QED
  BY <1>2, <1>3

LEMMA SyncerRightNext ==
  ASSUME TypeOK, InstanceInv, InstanceStep, SyncerIsRight,
         pc[Syncer] \in {"list", "fix"} => drivers' = drivers \/ Crash
  PROVE  SyncerIsRight'
<1> SUFFICES ASSUME pc'[Syncer] \in {"list", "fix"}, NEW n \in RouteNames
             PROVE  WantsRight(Syncer, n)'
  BY DEF SyncerIsRight
<1>1. ~Crash /\ [Next]_vars
  BY CallersElements, InstanceSteps DEF Crash
<1>2. UNCHANGED drivers => Wanting(n)' = Wanting(n)
  BY DEF Wanting, ListRunning, Held
<1>3. CASE pc[Syncer] \in {"list", "fix"} /\ wanted'[Syncer] = wanted[Syncer]
  BY <1>1, <1>2, <1>3 DEF SyncerIsRight, WantsRight
<1>4. CASE UNCHANGED drivers /\ \E w \in WantedMaps(ListRunning) : BeginReconcile(Syncer, w)
  <2>1. PICK w \in WantedMaps(ListRunning) : BeginReconcile(Syncer, w)
    BY <1>4
  <2>2. wanted'[Syncer] = w
    BY <2>1, CallersElements DEF BeginReconcile, TypeOK, ManagerTypeOK
  <2>3. IF w[n] = None THEN Wanting(n) = {} ELSE w[n] \in Wanting(n)
    BY WantedIsRight DEF InstanceInv, WatchInv
  <2> QED
    BY <1>2, <1>4, <2>2, <2>3 DEF WantsRight
<1> QED
  BY <1>1, <1>3, <1>4, ReconcilePc, CallersElements DEF InstanceInv, Locals

LEMMA PresentIff ==
  \A n \in RouteNames : /\ n \in Present <=> routes[n] # None
                        /\ (n \in Present)' <=> routes'[n] # None
BY DEF Present, Routes

\* A request that is answered and is not an error does what it is for.
LEMMA AnsweredWrites ==
  ASSUME TypeOK, CallsSpareRoot, faults' = faults, NEW c \in Callers, ManagerStep(c),
         NEW n \in RouteNames, n = RouteName[target[c]]
  PROVE  /\ pc[c] = "get" /\ n \notin Present => pc'[c] = "create" /\ target'[c] = target[c]
         /\ pc[c] = "create" => routes'[n] # None
         /\ pc[c] = "delete" => routes'[n] = None
<1> USE DEF TypeOK, ManagerTypeOK
<1>1. n \in Routes /\ ~Error /\ target[c] # Fallback
  BY FallbackAssumption, MaxFaultsAssumption DEF Routes, Error
<1>2. CASE EnsureGet(c)
  BY <1>1, <1>2 DEF EnsureGet, Goto
<1>3. CASE EnsureCreate(c)
  <2>1. target[c] \in Selectors /\ target[c] # None
    BY <1>3, NoneAssumption DEF EnsureCreate, CallsSpareRoot
  <2>2. routes' = Created(n, target[c])
    BY <1>1, <1>3 DEF EnsureCreate, Write
  <2>3. routes'[n] # None
    BY <1>1, <2>1, <2>2 DEF Created, Present
  <2> QED
    BY <1>3, <2>3 DEF EnsureCreate
<1>4. CASE DeleteCall(c)
  BY <1>1, <1>4 DEF DeleteCall, Write, Deleted
<1> QED
  BY <1>2, <1>3, <1>4
  DEF ManagerStep, ReconcileStep, ReconcileList, ReconcileDelete, ReconcileCreate, RootGet, RootWrite

\* The syncer's own steps besides its requests.
LEMMA SyncerCalls ==
  ASSUME TypeOK, Synced \/ InitialReconcile \/ InitialReconciled
  PROVE  /\ UNCHANGED <<drivers, routes>> /\ Locals(Watcher)' = Locals(Watcher)
         /\ \/ pc'[Syncer] \in {"synced", "list"}
            \/ pc[Syncer] = "returned"
<1>1. Watcher \in Callers \ {Syncer} /\ Syncer \in Callers
  BY CallersElements, CallersAssumption
<1>2. CASE Synced
  <2>1. Goto(Syncer, "synced") /\ UNCHANGED <<target, wanted, stale, missing, failed>>
    BY <1>2 DEF Synced
  <2> QED
    BY <1>1, <1>2, <2>1, OthersStay DEF Synced, Goto, TypeOK, ManagerTypeOK
<1>3. CASE InitialReconcile
  <2>1. PICK w \in WantedMaps(ListRunning) : BeginReconcile(Syncer, w)
    BY <1>3 DEF InitialReconcile
  <2> QED
    BY <1>1, <1>3, <2>1, OthersStay
    DEF InitialReconcile, BeginReconcile, Goto, TypeOK, ManagerTypeOK
<1>4. CASE InitialReconciled
  BY <1>1, <1>4, OthersStay DEF InitialReconciled
<1> QED
  BY <1>2, <1>3, <1>4

LEMMA WatcherLeavesSyncer ==
  ASSUME TypeOK, ManagerStep(Watcher) \/ \E p \in PodNames : HandleDelta(p)
  PROVE  Locals(Syncer)' = Locals(Syncer)
<1>1. Syncer \in Callers \ {Watcher} /\ Watcher \in Callers
  BY CallersElements, CallersAssumption
<1>2. CASE ManagerStep(Watcher)
  BY <1>1, <1>2, OthersStay
<1>3. ASSUME NEW p \in PodNames, HandleDelta(p) PROVE Locals(Syncer)' = Locals(Syncer)
  <2>1. CASE \E s : BeginEnsure(Watcher, s) \/ BeginDelete(Watcher, s)
    BY <1>1, <2>1, OthersStay
  <2>2. CASE NoCall
    BY <2>2 DEF NoCall, managerVars, callVars, Locals
  <2> QED
    BY <1>3, <2>1, <2>2, HandlerCases
<1> QED
  BY <1>2, <1>3

LEMMA UnchangedHolders ==
  UNCHANGED drivers => \A n : Wanting(n)' = Wanting(n) /\ (Finished(n)' <=> Finished(n))
BY DEF Wanting, Finished, ListRunning, Held

\* An instance is not the one to leave a driver without route, as long as no request
\* fails and the snapshot of its initial Reconcile is right.
LEMMA LacksStep ==
  ASSUME OwnRoutes, TypeOK, InstanceInv, SyncerIsRight, InstanceStep, faults' = faults,
         NEW n \in RouteNames, Lacks(n)', n \notin Present'
  PROVE  Lacks(n) /\ n \notin Present
<1> USE DEF InstanceInv
<1>1. routes'[n] = None /\ (n \notin Present <=> routes[n] = None)
  BY PresentIff
<1>2. CallsHaveKinds /\ WatcherActsOnStore /\ CallsSpareRoot
  BY DEF CallsInv
<1>3. ASSUME NEW p \in PodNames, HandleDelta(p) PROVE Lacks(n) /\ n \notin Present
  <2>1. pc[Watcher] = "idle" /\ UNCHANGED routes
    BY <1>3, HandlerEffect
  <2>2. PICK q \in PodNames : /\ drivers'[q] # None /\ drivers'[q].state = "Running"
                              /\ RouteName[drivers'[q].sel] = n
    BY WantingIffNext DEF Lacks
  <2>3. drivers'[q] = drivers[q]
    <3>1. CASE BeginEnsure(Watcher, drivers'[q].sel)
      <4>1. Ensuring(n)'
        BY <2>2, <3>1, CallersElements DEF BeginEnsure, Goto, Ensuring, TypeOK, ManagerTypeOK
      <4> QED
        BY <4>1 DEF Lacks
    <3>2. CASE q = p
      BY <1>3, <2>2, <3>1, <3>2, HandlerEffect DEF Terminal
    <3> QED
      BY <1>3, <3>2, HandlerEffect
  <2>4. Wanting(n) # {}
    BY <2>2, <2>3, WantingIff DEF Held
  <2> QED
    BY <1>1, <2>1, <2>4 DEF Lacks, Ensuring
<1>4. CASE ManagerStep(Watcher)
  <2>1. Wanting(n) # {} /\ ~Finished(n)
    BY <1>4, UnchangedHolders, RunningNotFinished DEF ManagerStep, Lacks
  <2>2. routes[n] = None
    BY <1>1, <1>2, <1>4, <2>1, RouteWrites, CallersElements
    DEF CallsHaveKinds, WatcherActsOnStore
  <2>3. ~Ensuring(n)
    BY <1>1, <1>2, <1>4, <2>2, AnsweredWrites, CallersElements DEF Ensuring, Lacks
  <2> QED
    BY <1>1, <2>1, <2>2, <2>3 DEF Lacks
<1>5. CASE UNCHANGED <<drivers, routes>> /\ Locals(Watcher)' = Locals(Watcher)
  BY <1>1, <1>5, UnchangedHolders DEF Lacks, Ensuring, Locals
<1>6. CASE ManagerStep(Syncer)
  <2>1. UNCHANGED drivers /\ Locals(Watcher)' = Locals(Watcher)
    BY <1>6, OthersStay, CallersElements, CallersAssumption DEF ManagerStep
  <2>2. Wanting(n) # {} /\ ~Ensuring(n)
    BY <2>1, UnchangedHolders DEF Lacks, Ensuring, Locals
  <2>3. pc[Syncer] = "fix" /\ n \in stale[Syncer] => Wanting(n) = {}
    BY <1>2, CallersElements DEF CallsInv, StaleIsUnwanted, SyncerIsRight, WantsRight
  <2>4. routes[n] = None
    BY <1>1, <1>2, <1>6, <2>2, <2>3, RouteWrites, CallersElements DEF CallsHaveKinds
  <2> QED
    BY <1>1, <2>2, <2>4 DEF Lacks
<1>7. CASE ClusterStep
  BY <1>5, <1>7 DEF ClusterStep, managerVars, callVars, Locals
<1>8. CASE Crash
  <2>1. drivers' = [p \in PodNames |-> None]
    BY <1>8 DEF Crash
  <2>2. Wanting(n)' = {}
    BY <2>1, WantingIffNext
  <2> QED
    BY <2>2 DEF Lacks
<1> QED
  BY <1>3, <1>4, <1>5, <1>6, <1>7, <1>8, SyncerCalls DEF InstanceStep, SyncerStep, WatcherHandles

\* A Reconcile that has found a route nobody wants, or has still to delete it, has it
\* still to delete after the next request, or that deletes it.
LEMMA StaleStays ==
  ASSUME TypeOK, faults' = faults, NEW c \in Callers, ManagerStep(c), NEW n \in RouteNames,
         \/ pc[c] = "list" /\ n \in Present /\ wanted[c][n] = None
         \/ pc[c] = "fix" /\ n \in stale[c]
  PROVE  (pc'[c] = "fix" /\ n \in stale'[c]) \/ routes'[n] = None
<1> USE DEF TypeOK, ManagerTypeOK
<1>1. n \in Routes /\ ~Error /\ n # RootRoute
  BY MaxFaultsAssumption, RootRouteAssumption DEF Routes, Error
<1>2. CASE ReconcileList(c)
  <2> DEFINE s == {m \in Present : IsStale(wanted[c], m)}
  <2>1. PICK m : stale' = [stale EXCEPT ![c] = s] /\ Goto(c, AfterFix(s, m))
    BY <1>1, <1>2 DEF ReconcileList
  <2>2. n \in s
    BY <1>1, <1>2 DEF ReconcileList, IsStale
  <2> HIDE DEF s
  <2> QED
    BY <2>1, <2>2 DEF Goto, AfterFix
<1>3. CASE ReconcileDelete(c)
  <2>1. PICK m \in stale[c] :
          /\ Write(Deleted(m))
          /\ stale' = [stale EXCEPT ![c] = @ \ {m}]
          /\ Goto(c, AfterFix(stale[c] \ {m}, missing[c]))
    BY <1>3 DEF ReconcileDelete
  <2>2. CASE m = n
    BY <1>1, <2>1, <2>2 DEF Write, Deleted
  <2>3. CASE m # n
    <3>1. n \in stale[c] \ {m}
      BY <1>3, <2>3 DEF ReconcileDelete
    <3> QED
      BY <2>1, <3>1 DEF Goto, AfterFix
  <2> QED
    BY <2>2, <2>3
<1> QED
  BY <1>2, <1>3
  DEF ManagerStep, ReconcileStep, ReconcileCreate, EnsureGet, EnsureCreate, DeleteCall, RootGet, RootWrite

\* Nor is it the one to leave a route without driver.
LEMMA LeavesStep ==
  ASSUME OwnRoutes, TypeOK, InstanceInv, SyncerIsRight, InstanceStep, faults' = faults,
         NEW n \in RouteNames, Leaves(n)', n \in Present'
  PROVE  Leaves(n) /\ n \in Present
<1> USE DEF InstanceInv
<1>1. routes'[n] # None /\ (n \in Present <=> routes[n] # None)
  BY PresentIff
<1>2. CallsHaveKinds /\ WatcherActsOnStore /\ CallsSpareRoot
  BY DEF CallsInv
<1>3. ASSUME NEW p \in PodNames, HandleDelta(p) PROVE Leaves(n) /\ n \in Present
  <2>1. pc[Watcher] = "idle" /\ UNCHANGED routes
    BY <1>3, HandlerEffect
  <2>2. ~Pending(n)
    BY <1>3, WatcherLeavesSyncer DEF Locals, Pending, Leaves
  <2>3. ASSUME NEW q \in Held, RouteName[drivers[q].sel] = n, drivers[q].state \notin Terminal
        PROVE  FALSE
    <3>1. drivers'[q] # drivers[q]
      BY <2>3 DEF Leaves, Finished, Held
    <3>2. q = p
      BY <1>3, <2>3, <3>1, HandlerEffect DEF Held
    <3>3. cache[p] # None /\ drivers[p].sel = cache[p].sel
      BY <2>3, <3>2, HeldIsCached DEF Held
    <3>4. drivers'[p] # None => drivers'[p].sel = drivers[p].sel
      <4>1. ExactStore'
        BY <1>3, ExactHandled
      <4>2. cache'[p] = After(Head(deltas[p]))
        BY <1>3, HandledQueue DEF TypeOK, WatchTypeOK
      <4>3. Head(deltas[p]).pod.sel = cache[p].sel
        BY <1>3, <3>3, HandledLabel
      <4> QED
        BY <3>3, <4>1, <4>2, <4>3, HeldIsCachedNext DEF After
    <3>5. ~BeginDelete(Watcher, drivers[p].sel)
      <4>1. BeginDelete(Watcher, drivers[p].sel) => Deleting(n)'
        BY <2>3, <3>2, CallersElements DEF BeginDelete, Goto, Deleting, TypeOK, ManagerTypeOK
      <4> QED
        BY <4>1 DEF Leaves
    <3>6. PICK dr \in Driver :
            /\ drivers'[p] = dr
            /\ \/ dr.state = "Running"
               \/ dr.state \in Terminal /\ BeginDelete(Watcher, dr.sel)
               \/ dr.state \notin Terminal
      BY <1>3, <3>1, <3>2, <3>3, <3>5, HandlerEffect
    <3>7. drivers'[p] # None /\ drivers'[p].sel = drivers[p].sel
      BY <3>4, <3>6, NoneAssumption
    <3>8. dr.state \in Terminal
      BY <2>3, <3>2, <3>6, <3>7 DEF Leaves, Finished, Held
    <3> QED
      BY <3>5, <3>6, <3>7, <3>8 DEF Terminal
  <2> QED
    BY <1>1, <2>1, <2>2, <2>3 DEF Leaves, Finished, Deleting
<1>4. CASE ManagerStep(Watcher)
  <2>1. Finished(n) /\ Wanting(n) = {}
    BY <1>4, UnchangedHolders, RunningNotFinished DEF ManagerStep, Leaves
  <2>2. ~Pending(n)
    BY <1>4, WatcherLeavesSyncer DEF Locals, Pending, Leaves
  <2>3. routes[n] # None
    BY <1>1, <1>2, <1>4, <2>1, RouteWrites, CallersElements
    DEF CallsHaveKinds, WatcherActsOnStore, Wanting
  <2>4. ~Deleting(n)
    BY <1>1, <1>4, AnsweredWrites, CallersElements DEF Deleting
  <2> QED
    BY <1>1, <2>1, <2>2, <2>3, <2>4 DEF Leaves
<1>5. CASE UNCHANGED <<drivers, routes>> /\ Locals(Watcher)' = Locals(Watcher) /\ ~Pending(n)
  BY <1>1, <1>5, UnchangedHolders DEF Leaves, Deleting, Locals
<1>6. CASE Synced \/ InitialReconcile \/ InitialReconciled
  <2>1. pc[Syncer] = "returned"
    BY <1>6, SyncerCalls DEF Leaves, Pending
  <2> QED
    BY <1>5, <1>6, <2>1, SyncerCalls DEF Pending
<1>7. CASE ManagerStep(Syncer)
  <2>1. UNCHANGED drivers /\ Locals(Watcher)' = Locals(Watcher)
    BY <1>7, OthersStay, CallersElements, CallersAssumption DEF ManagerStep
  <2>2. Finished(n) /\ Wanting(n) = {} /\ ~Deleting(n)
    BY <2>1, UnchangedHolders, RunningNotFinished DEF Leaves, Deleting, Locals
  <2>3. pc[Syncer] \in {"list", "fix"} => wanted[Syncer][n] = None
    BY <2>2 DEF SyncerIsRight, WantsRight
  <2>4. routes[n] # None
    BY <1>1, <1>2, <1>7, <2>3, RouteWrites, CallersElements DEF CallsHaveKinds
  <2>5. ~Pending(n)
    <3>1. pc[Syncer] \notin {"waiting", "synced"}
      BY <1>7, StepPc, CallersElements
    <3> QED
      BY <1>1, <1>7, <2>3, <2>4, <3>1, StaleStays, CallersElements DEF Pending, Leaves
  <2> QED
    BY <1>1, <2>2, <2>4, <2>5 DEF Leaves
<1>8. CASE ClusterStep
  BY <1>5, <1>8 DEF ClusterStep, managerVars, callVars, Locals, Pending, Leaves
<1>9. CASE Crash
  <2>1. pc'[Syncer] = "waiting"
    BY <1>9, CallersElements DEF Crash
  <2> QED
    BY <2>1 DEF Leaves, Pending
<1> QED
  BY <1>3, <1>4, <1>6, <1>7, <1>8, <1>9 DEF InstanceStep, SyncerStep, WatcherHandles

\* An instance with nothing left to do knows the cluster, and has done its share.
LEMMA SettledInstance ==
  ASSUME TypeOK, InstanceInv, Settled, NEW n \in RouteNames
  PROVE  /\ (\E s \in RunningApps : RouteName[s] = n) => Lacks(n)
         /\ (\A p \in Existing : /\ IsSparkDriver(pods[p])
                                 /\ RouteName[pods[p].sel] = n
                                 => pods[p].phase \in Terminal) => Leaves(n)
<1>1. pc[Watcher] = "idle" /\ pc[Syncer] = "idle"
  BY CallersElements DEF Settled
<1>2. ASSUME NEW p \in PodNames PROVE cache[p] = pods[p]
  <2>1. Len(deltas[p]) = 0
    BY DEF Settled
  <2> QED
    BY <2>1 DEF InstanceInv, WatchInv, LatestIsCluster, Known
<1>3. \A p \in PodNames :
        /\ drivers[p] # None => pods[p] # None /\ IsSparkDriver(pods[p])
        /\ pods[p] # None /\ IsSparkDriver(pods[p]) => drivers[p] = DriverOf(pods[p])
  BY <1>2 DEF InstanceInv, ExactStore
<1>4. /\ \A pod : DriverOf(pod).sel = pod.sel /\ DriverOf(pod).state = StateOf(pod.phase)
      /\ \A ph : ph = "Running" \/ ph \in Terminal => StateOf(ph) = ph
  BY DEF DriverOf, StateOf, Terminal
<1>5. ASSUME NEW s \in RunningApps, RouteName[s] = n PROVE Lacks(n)
  <2>1. PICK p \in PodNames : /\ pods[p] # None /\ IsSparkDriver(pods[p])
                              /\ pods[p].phase = "Running" /\ s = pods[p].sel
    BY DEF RunningApps
  <2>2. drivers[p] = DriverOf(pods[p]) /\ DriverOf(pods[p]) # None
    <3>1. pods[p].sel \in Selectors /\ pods[p] \in Pod
      BY <2>1 DEF TypeOK, WatchTypeOK, Pod, IsSparkDriver
    <3>2. DriverOf(pods[p]) \in Driver
      BY <2>1, <3>1, DriverOfType
    <3> QED
      BY <1>3, <2>1, <3>2, NoneAssumption
  <2>3. drivers[p].state = "Running" /\ RouteName[drivers[p].sel] = n
    BY <1>4, <1>5, <2>1, <2>2
  <2>4. Wanting(n) # {}
    BY <2>2, <2>3, WantingIff DEF Held
  <2> QED
    BY <1>1, <2>4 DEF Lacks, Ensuring
<1>6. ASSUME \A p \in Existing : /\ IsSparkDriver(pods[p])
                                 /\ RouteName[pods[p].sel] = n
                                 => pods[p].phase \in Terminal
      PROVE  Leaves(n)
  <2>1. Finished(n)
    BY <1>3, <1>4, <1>6 DEF Finished, Held, Existing
  <2> QED
    BY <1>1, <2>1 DEF Leaves, Deleting, Pending
<1> QED
  BY <1>5, <1>6

\* The faults are counted, and never forgotten.
LEMMA NoFaultBefore ==
  ASSUME TypeOK, InstanceStep, faults' = 0
  PROVE  faults = 0
<1>1. faults \in Nat
  BY MaxFaultsAssumption DEF TypeOK, ManagerTypeOK
<1>2. Answer \/ Error => faults = 0
  BY <1>1 DEF Answer, Error
<1>3. ASSUME NEW c, ManagerStep(c) PROVE Answer \/ Error
  <2>1. ReconcileStep(c) => Answer \/ Error
    BY DEF ReconcileStep, ReconcileList, ReconcileDelete, ReconcileCreate, Write
  <2> QED
    BY <1>3, <2>1
    DEF ManagerStep, EnsureGet, EnsureCreate, DeleteCall, RootGet, RootWrite, Write
<1>4. ASSUME NEW p \in PodNames, WatcherHandles(p) PROVE Answer
  <2>1. NoCall \/ \E s : BeginEnsure(Watcher, s) \/ BeginDelete(Watcher, s)
    BY <1>4, HandlerCases DEF WatcherHandles
  <2> QED
    BY <2>1 DEF NoCall, managerVars, BeginEnsure, BeginDelete, Answer
<1>5. ClusterStep \/ Crash \/ Synced \/ InitialReconcile \/ InitialReconciled => Answer
  BY DEF ClusterStep, Crash, Synced, InitialReconcile, InitialReconciled, BeginReconcile,
         managerVars, Answer
<1> QED
  BY <1>2, <1>3, <1>4, <1>5 DEF InstanceStep, SyncerStep

\* An instance that starts has no driver, and all routes still to find.
LEMMA StartsFresh ==
  drivers = [p \in PodNames |-> None] /\ pc[Syncer] = "waiting" =>
    SyncerIsRight /\ \A n : ~Lacks(n) /\ ~Leaves(n)
BY DEF SyncerIsRight, Lacks, Leaves, Pending, Wanting, ListRunning, Held

LEMMA InitFresh == Init => SyncerIsRight /\ \A n : ~Lacks(n) /\ ~Leaves(n)
BY StartsFresh, CallersElements DEF Init, StoreInit, CallsInit

LEMMA CrashFresh == Crash => SyncerIsRight' /\ \A n : ~Lacks(n)' /\ ~Leaves(n)'
<1>1. (drivers = [p \in PodNames |-> None] /\ pc[Syncer] = "waiting" =>
         SyncerIsRight /\ \A n : ~Lacks(n) /\ ~Leaves(n))'
  BY StartsFresh, PTL
<1>2. Crash => drivers' = [p \in PodNames |-> None] /\ pc'[Syncer] = "waiting"
  BY CallersElements DEF Crash
<1> QED
  BY <1>1, <1>2

\* What an instance has to do about a route depends on its store and its goroutines.
LEMMA OwnSideStays ==
  UNCHANGED <<drivers, callVars>> =>
    /\ SyncerIsRight' <=> SyncerIsRight
    /\ \A n : (Lacks(n)' <=> Lacks(n)) /\ (Leaves(n)' <=> Leaves(n))
BY DEF callVars, SyncerIsRight, WantsRight, Lacks, Leaves, Ensuring, Deleting, Pending, Wanting,
       Finished, ListRunning, Held

=============================================================================
