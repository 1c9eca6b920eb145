------------------------------ MODULE ShsRoute ------------------------------
(***************************************************************************)
(* The root route of a process with a Spark History Server (main.go): the  *)
(* SHS watcher points it at the server or back at the dashboard, and the   *)
(* onSynced goroutine writes the dashboard at startup unless the server is *)
(* up.  The two read State.up and write the route with no lock between.    *)
(*                                                                         *)
(* "waiting" stands for all that onSynced waits for and does before its    *)
(* last branch: the sync of the pods and the reconcile (DriverRoutes).     *)
(***************************************************************************)
EXTENDS ShsWatcher

CONSTANT Syncer          \* the goroutine that runs onSynced

ASSUME AppliersAssumption == Appliers = {Watcher, Syncer} /\ Watcher # Syncer

VARIABLES
  overtaken, \* history: of how many attempts of the call each goroutine is in
             \* somebody's write came between the Get and the Update
  doubt      \* history: why the root route may be wrong, see DoubtStep

history == <<overtaken, doubt>>
vars == <<applyVars, shsVars, history>>

TypeOK ==
  /\ ApplyTypeOK
  /\ ShsTypeOK
  /\ overtaken \in [Appliers -> Nat]
  /\ doubt \in {"none", "start", "failed", "raced"}

Init ==
  /\ root \in {Shs, Fallback, None}
  /\ at = [c \in Appliers |-> IF c = Syncer THEN "waiting" ELSE "idle"]
  /\ backend = [c \in Appliers |-> None]
  /\ attempt = [c \in Appliers |-> 0]
  /\ fresh = [c \in Appliers |-> FALSE]
  /\ faults = 0
  /\ ShsInit
  /\ overtaken = [c \in Appliers |-> 0]
  /\ doubt = "start"

----------------------------------------------------------------------------
(* The history                                                             *)

OvertakenStep ==
  overtaken' = [c \in Appliers |->
                  IF at'[c] \in {"waiting", "idle"} THEN 0
                  ELSE IF fresh[c] /\ ~fresh'[c] THEN overtaken[c] + 1
                  ELSE overtaken[c]]

\* The request writes the route.
Writes(c) ==
  /\ faults' = faults
  /\ \/ at[c] = "create" /\ root = None
     \/ at[c] = "update" /\ fresh[c]

\* The call comes to nothing: a request has failed, or others' writes have overtaken
\* as many attempts as there are.
Fails(c) ==
  \/ faults' # faults
  \/ at[c] = "update" /\ ~fresh[c] /\ overtaken[c] >= MaxRetries

\* The backend is not the one the state calls for, because of the other goroutine:
\* its Create came before the watcher's, or the server has come up since onSynced
\* asked.
Races(c) ==
  \/ c = Watcher /\ at[c] = "create" /\ root \notin {None, backend[c]}
  \/ c = Syncer /\ up /\ root' # root

\* Why the root route may be wrong: a process has started and nobody has come to
\* write it; the watcher's call, or the first one, has failed; a race.
DoubtStep(c) ==
  doubt' = IF Races(c) THEN "raced"
           ELSE IF Fails(c) /\ (c = Watcher \/ doubt = "start") THEN "failed"
           ELSE IF Writes(c) /\ (c = Watcher \/ ~up) THEN "none"
           ELSE doubt

----------------------------------------------------------------------------

SliceStep ==
  /\ \E s \in Slices : SliceChanges(s)
  /\ UNCHANGED <<applyVars, history>>

BrokenWatch == Relist /\ UNCHANGED <<applyVars, history>>

WatcherHandles(s) == HandleChange(s) /\ UNCHANGED history

\* Mutant: no branch, the route is left as it is.
AskIsUpOnly ==
  /\ at[Syncer] = "waiting"
  /\ at' = [at EXCEPT ![Syncer] = "idle"]
  /\ UNCHANGED <<root, backend, attempt, fresh, faults, shsVars, history>>

\* The last branch of onSynced.
AskIsUp ==
  /\ at[Syncer] = "waiting"
  /\ IF up THEN /\ at' = [at EXCEPT ![Syncer] = "idle"]
                /\ UNCHANGED <<root, backend, attempt, fresh, faults>>
           ELSE BeginApply(Syncer, Fallback)
  /\ UNCHANGED <<shsVars, history>>

Applies(c) ==
  /\ ApplyStep(c)
  /\ OvertakenStep
  /\ DoubtStep(c)
  /\ UNCHANGED shsVars

\* A write of others matters only when it makes somebody's version stale.
StatusStep ==
  /\ \E c \in Appliers : fresh[c]
  /\ StatusWritten
  /\ OvertakenStep
  /\ UNCHANGED <<shsVars, doubt>>

\* The process stops, or is told to, and a new one starts.
Crash ==
  /\ at' = [c \in Appliers |-> IF c = Syncer THEN "waiting" ELSE "idle"]
  /\ backend' = [c \in Appliers |-> None]
  /\ attempt' = [c \in Appliers |-> 0]
  /\ fresh' = [c \in Appliers |-> FALSE]
  /\ ShsRestart
  /\ overtaken' = [c \in Appliers |-> 0]
  /\ doubt' = "start"
  /\ UNCHANGED <<root, faults>>

Next ==
  \/ SliceStep
  \/ BrokenWatch
  \/ \E s \in Slices : WatcherHandles(s)
  \/ AskIsUp
  \/ \E c \in Appliers : Applies(c)
  \/ StatusStep
  \/ Crash

Spec == Init /\ [][Next]_vars

\* A goroutine that can run runs in the end, and the informer hands out no slice
\* before one that has waited longer.  Nothing is assumed of the cluster.
Fairness ==
  /\ \A s \in Slices : SF_vars(WatcherHandles(s))
  /\ WF_vars(AskIsUp)
  /\ \A c \in Appliers : WF_vars(Applies(c))

FairSpec == Spec /\ Fairness

----------------------------------------------------------------------------
(* Properties                                                              *)

\* The backend the state calls for.
Wanted == IF up THEN Shs ELSE Fallback

\* Every transition is noticed, in whatever order slices change, go and are
\* listed again (shs.go): once no change is waiting, State.up says whether some
\* slice of the cluster has a ready endpoint.
UpFollowsEndpoints ==
  (\A s \in Slices : changes[s] = <<>>) => up = AnyReady(slices)

\* To the rest of the program the watcher is an Availability: State.up may be behind
\* the endpoints while changes wait, starts as down, and is right whenever none does.
Watch == INSTANCE Availability
           WITH ready <- AnyReady(slices),
                behind <- \E s \in Slices : changes[s] # <<>>

ImplementsAvailability == Watch!WatchSpec

\* Unless there is reason for doubt the root route points to the server when it
\* is up and to the dashboard when it is not, or the watcher is changing it.  That
\* the watcher gives up is a reason only when others have written the route during
\* each of the attempts applyRoute has.
RootRouteFollowsShs ==
  doubt = "none" => at[Watcher] # "idle" \/ root = Wanted

EndpointsSettle == <>[][UNCHANGED slices /\ ~Crash]_vars

\* Once the endpoints stop changing and the process goes on running, the state and the root route come to be what
\* the endpoints say for good, the route unless a call has failed or lost a race: in
\* particular a new process corrects what the one before it has left.
RootRouteSettles ==
  EndpointsSettle =>
    <>[](up = AnyReady(slices) /\ (doubt \in {"failed", "raced"} \/ root = Wanted))

\* main.go: if the server is up, the watcher has already written its route, and
\* overwriting it would break routing.  It may come up between the question and
\* the write, and the dashboard's route stays until its next transition.
Settled ==
  /\ \A s \in Slices : changes[s] = <<>>
  /\ \A c \in Appliers : at[c] = "idle"

RootRouteNotOverwritten == Settled => (up => root = Shs)

----------------------------------------------------------------------------
(* Why the safety properties hold.                                         *)

\* What the watcher will have counted for a slice once it has caught up.
Latest(s) == IF changes[s] = <<>> THEN counts[s] ELSE changes[s][Len(changes[s])]

UpInv ==
  /\ \A s \in Slices : Latest(s) = slices[s]
  /\ wasReady = AnyReady(counts)
  /\ up = wasReady

\* Every attempt of a call but the present one has been overtaken, and that one too
\* when its Update is bound to meet a conflict.
AttemptInv ==
  \A c \in Appliers :
    /\ at[c] \in {"waiting", "idle"} => attempt[c] = 0
    /\ overtaken[c] >= attempt[c]
    /\ at[c] = "update" /\ ~fresh[c] => overtaken[c] > attempt[c]

RouteInv ==
  /\ at[Watcher] # "idle" => backend[Watcher] = Wanted
  /\ at[Syncer] \in {"get", "create", "update"} => backend[Syncer] = Fallback
  /\ RootRouteFollowsShs

=============================================================================
