----------------------------- MODULE PodWatcher -----------------------------
(***************************************************************************)
(* The pod watcher (internal/watcher/watcher.go) on client-go's informer,   *)
(* which is not under src/ and is modelled from how Watch uses it: it lists *)
(* the pods, then queues every change of a pod as a delta, and one          *)
(* goroutine hands the deltas, those of one pod in order, to AddFunc,       *)
(* UpdateFunc or DeleteFunc.  Which of them is decided by the informer's    *)
(* own cache, not by what happened to the pod.  After a broken watch the    *)
(* informer lists again: the changes of the gap are lost, and all it sees   *)
(* of a pod is its state at the new list.                                   *)
(***************************************************************************)
EXTENDS RouteManager, Sequences

CONSTANTS NoSelector,    \* the empty value of the label spark-app-selector
          LabelOf,       \* the selectors that pods of each name may carry
          Phases,        \* the pod phases that occur
          MaxDeltas,     \* bound on the deltas queued for one pod
          WatchBreaks    \* whether the watch may break and lose changes

PodPhases == {"", "Pending", "Running", "Succeeded", "Failed", "Unknown"}

ASSUME NoSelectorAssumption == NoSelector \notin Selectors
ASSUME LabelOfAssumption ==
         LabelOf \in [PodNames -> SUBSET (Selectors \cup {NoSelector})]
ASSUME PhasesAssumption == Phases \subseteq PodPhases
ASSUME MaxDeltasAssumption == MaxDeltas \in Nat
ASSUME WatchBreaksAssumption == WatchBreaks \in BOOLEAN

Pod == [sel : Selectors \cup {NoSelector}, phase : PodPhases]

\* A change of a pod as the informer queues it: the pod as it is now or, once
\* it is gone, as it was last known.
Delta == [pod : Pod, gone : BOOLEAN]

ASSUME NoPodAssumption == None \notin Pod

VARIABLES
  pods,      \* the driver pods in the cluster
  cache,     \* the informer's cache: the pods whose deltas were handled
  deltas,    \* the changes of each pod not handled yet, the oldest first
  unsynced   \* the pods of the first list whose AddFunc has not been called

watchVars == <<pods, cache, deltas, unsynced>>

WatchTypeOK ==
  /\ pods \in [PodNames -> Pod \cup {None}]
  /\ cache \in [PodNames -> Pod \cup {None}]
  /\ deltas \in [PodNames -> Seq(Delta)]
  /\ unsynced \subseteq PodNames

Now(pod) == [pod |-> pod, gone |-> FALSE]
Gone(pod) == [pod |-> pod, gone |-> TRUE]

Existing == {p \in PodNames : pods[p] # None}

\* The first list of a process that starts.
FirstList == [p \in PodNames |-> IF p \in Existing THEN <<Now(pods[p])>> ELSE <<>>]

WatchInit ==
  /\ pods \in [PodNames -> [sel : Selectors \cup {NoSelector}, phase : Phases]
                           \cup {None}]
  /\ \A p \in Existing : pods[p].sel \in LabelOf[p]
  /\ cache = [p \in PodNames |-> None]
  /\ deltas = FirstList
  /\ unsynced = Existing

WatchRestart ==
  /\ cache' = [p \in PodNames |-> None]
  /\ deltas' = FirstList
  /\ unsynced' = Existing
  /\ UNCHANGED pods

----------------------------------------------------------------------------
(* The cluster                                                             *)

Terminal == {"Succeeded", "Failed"}

\* Kubernetes never takes a pod back from a terminal phase or to Pending; a
\* change of anything else in the pod leaves the phase as it is.
Follows(a, b) ==
  \/ a = b
  \/ a \notin Terminal /\ b # "" /\ (b = "Pending" => a = "")

Queued(p, d) ==
  /\ Len(deltas[p]) < MaxDeltas
  /\ deltas' = [deltas EXCEPT ![p] = Append(@, d)]
  /\ UNCHANGED <<cache, unsynced>>

Changed(p, pod) == pods' = [pods EXCEPT ![p] = pod] /\ Queued(p, Now(pod))

PodCreated(p) ==
  /\ p \notin Existing
  /\ \E s \in LabelOf[p], ph \in Phases \cap {"", "Pending"} :
       Changed(p, [sel |-> s, phase |-> ph])

PodUpdated(p) ==
  /\ p \in Existing
  /\ \E ph \in Phases : /\ Follows(pods[p].phase, ph)
                        /\ Changed(p, [pods[p] EXCEPT !.phase = ph])

PodDeleted(p) ==
  /\ p \in Existing
  /\ pods' = [pods EXCEPT ![p] = None]
  /\ Queued(p, Gone(pods[p]))

\* What a new list makes of the deltas q of a pod.  A pod that is no longer
\* listed is queued as gone, unless the informer knows that already.
Listed(p, q) ==
  IF p \in Existing THEN Append(q, Now(pods[p]))
  ELSE IF q = <<>>
       THEN IF cache[p] = None THEN q ELSE <<Gone(cache[p])>>
       ELSE IF q[Len(q)].gone THEN q ELSE Append(q, Gone(q[Len(q)].pod))

\* The watch breaks.  Of every pod's deltas the first few had been received,
\* those of the first list in any case; the informer lists the pods again.
Relist ==
  /\ WatchBreaks
  /\ \E kept \in [PodNames -> 0 .. MaxDeltas] :
       /\ \A p \in PodNames : kept[p] <= Len(deltas[p])
       /\ \A p \in unsynced : kept[p] >= 1
       /\ deltas' = [p \in PodNames |-> Listed(p, SubSeq(deltas[p], 1, kept[p]))]
  /\ \A p \in PodNames : Len(deltas'[p]) <= MaxDeltas
  /\ UNCHANGED <<pods, cache, unsynced>>

----------------------------------------------------------------------------
(* The event handlers                                                      *)

\* stateAndReasonFromPod, without the reason.
StateOf(phase) ==
  CASE phase \in {"Running", "Succeeded", "Failed"} -> phase
    [] phase \in {"", "Pending"} -> "Pending"
    [] OTHER -> "Unknown"

DriverOf(pod) == [sel |-> pod.sel, state |-> StateOf(pod.phase)]

\* Mutant: the label only has to be there, as in the server-side selector.
IsLabelled(pod) == TRUE

IsSparkDriver(pod) == pod.sel # NoSelector

\* The handlers' call on the Manager, if any: OnAdd or OnRemove.
NoCall == UNCHANGED managerVars
OnAdd(d) == BeginEnsure(Watcher, d.sel)
OnRemove(s) == BeginDelete(Watcher, s)

\* Mutant: the handler does not look at the state.
AddFuncAnyState(p, d) == Add(p, d) /\ OnAdd(d)

AddFunc(p, d) ==
  /\ Add(p, d)
  /\ IF d.state = "Running" THEN OnAdd(d) ELSE NoCall

\* Mutant: only a pod first seen Running gets a route.
UpdateFuncNoAdd(p, d) ==
  /\ Add(p, d)
  /\ IF d.state \in {"Succeeded", "Failed"} THEN OnRemove(d.sel) ELSE NoCall

\* Mutant: nothing is removed when the driver terminates.
UpdateFuncNoRemove(p, d) ==
  /\ Add(p, d)
  /\ IF d.state = "Running" THEN OnAdd(d) ELSE NoCall

\* Mutant: a driver that has terminated leaves the store at once, as the table of
\* events in DESIGN.md says.
UpdateFuncForgets(p, d) ==
  /\ IF d.state \in {"Succeeded", "Failed"} THEN Remove(p) ELSE Add(p, d)
  /\ CASE d.state = "Running" -> OnAdd(d)
       [] d.state \in {"Succeeded", "Failed"} -> OnRemove(d.sel)
       [] OTHER -> NoCall

UpdateFunc(p, d) ==
  /\ Add(p, d)
  /\ CASE d.state = "Running" -> OnAdd(d)
       [] d.state \in {"Succeeded", "Failed"} -> OnRemove(d.sel)
       [] OTHER -> NoCall

\* Mutant: the driver leaves the store, its route stays.
DeleteFuncStoreOnly(p, pod) == Remove(p) /\ NoCall

\* The pod it is given is the last one the informer knew under the name.
DeleteFunc(p, pod) ==
  /\ Remove(p)
  /\ OnRemove(pod.sel)

\* The informer goroutine takes a pod's next delta and calls the handler: which
\* one depends on its cache.
HandleDelta(p) ==
  /\ pc[Watcher] = "idle"
  /\ deltas[p] # <<>>
  /\ LET d == Head(deltas[p])
     IN /\ cache' = [cache EXCEPT ![p] = IF d.gone THEN None ELSE d.pod]
        /\ \/ ~IsSparkDriver(d.pod) /\ NoCall /\ UNCHANGED drivers
           \/ IsSparkDriver(d.pod) /\ d.gone /\ DeleteFunc(p, d.pod)
           \/ /\ IsSparkDriver(d.pod) /\ ~d.gone
              /\ IF cache[p] = None THEN AddFunc(p, DriverOf(d.pod))
                                    ELSE UpdateFunc(p, DriverOf(d.pod))
  /\ deltas' = [deltas EXCEPT ![p] = Tail(@)]
  /\ unsynced' = unsynced \ {p}
  /\ UNCHANGED pods

=============================================================================
