----------------------------- MODULE ShsWatcher -----------------------------
(***************************************************************************)
(* The watcher of the Spark History Server's EndpointSlices               *)
(* (internal/shs/shs.go, state.go) and the handler main.go gives it.  As in *)
(* PodWatcher the informer is external: it lists the slices, queues every   *)
(* change of one, and after a broken watch lists them again.                *)
(*                                                                         *)
(* The number of ready endpoints of a slice is abstracted to whether there *)
(* is one: a sum of counts is positive when one of them is.                *)
(***************************************************************************)
EXTENDS ApplyRoute, Sequences

CONSTANTS Watcher,       \* the goroutine of this informer
          Slices,        \* names of the service's EndpointSlices
          Shs,           \* SHSService
          Fallback,      \* SelfService
          MaxChanges     \* bound on the changes queued for one slice

ASSUME WatcherAssumption == Watcher \in Appliers
ASSUME BackendsAssumption == {Shs, Fallback} \subseteq Backends
ASSUME NoSliceAssumption == None \notin BOOLEAN
ASSUME MaxChangesAssumption == MaxChanges \in Nat \ {0}

VARIABLES
  slices,    \* the slices in the cluster: ready or not, or None
  changes,   \* the changes of each slice not handled yet; None: deleted
  counts,    \* sliceState.counts
  wasReady,  \* sliceState.wasReady
  up         \* State.up

shsVars == <<slices, changes, counts, wasReady, up>>

Slice == BOOLEAN \cup {None}

ShsTypeOK ==
  /\ slices \in [Slices -> Slice]
  /\ changes \in [Slices -> Seq(Slice)]
  /\ counts \in [Slices -> Slice]
  /\ wasReady \in BOOLEAN
  /\ up \in BOOLEAN

\* totalReady() > 0
AnyReady(c) == \E s \in Slices : c[s] = TRUE

FirstList == [s \in Slices |-> IF slices[s] = None THEN <<>> ELSE <<slices[s]>>]

ShsInit ==
  /\ slices \in [Slices -> Slice]
  /\ changes = FirstList
  /\ counts = [s \in Slices |-> None]
  /\ wasReady = FALSE
  /\ up = FALSE

ShsRestart ==
  /\ changes' = FirstList
  /\ counts' = [s \in Slices |-> None]
  /\ wasReady' = FALSE
  /\ up' = FALSE
  /\ UNCHANGED slices

----------------------------------------------------------------------------
(* The cluster                                                             *)

\* The endpoint controller creates, updates or deletes a slice.
SliceChanges(s) ==
  /\ Len(changes[s]) < MaxChanges
  /\ \E v \in Slice :
       /\ <<slices[s], v>> # <<None, None>>
       /\ slices' = [slices EXCEPT ![s] = v]
       /\ changes' = [changes EXCEPT ![s] = Append(@, v)]
  /\ UNCHANGED <<counts, wasReady, up>>

\* What the informer knows of a slice once the changes q are handled; its cache
\* holds the slices that have a count.
Known(s, q) == IF q = <<>> THEN counts[s] # None ELSE q[Len(q)] # None

\* A new list: a slice that has gone meanwhile comes as a tombstone.
Listed(s, q) == IF slices[s] = None /\ ~Known(s, q) THEN q ELSE Append(q, slices[s])

\* The watch breaks after the first few changes of every slice.
Relist ==
  /\ \E kept \in [Slices -> 0 .. MaxChanges] :
       /\ \A s \in Slices : kept[s] <= Len(changes[s])
       /\ changes' = [s \in Slices |-> Listed(s, SubSeq(changes[s], 1, kept[s]))]
  /\ \A s \in Slices : Len(changes'[s]) <= MaxChanges
  /\ UNCHANGED <<slices, counts, wasReady, up>>

----------------------------------------------------------------------------
(* The handlers                                                            *)

NoTransition == UNCHANGED <<wasReady, up, applyVars>>

\* combinedSHSHandler: the state first, then the route.
OnUp ==
  /\ wasReady' = TRUE
  /\ up' = TRUE
  /\ BeginApply(Watcher, Shs)

\* Mutant: the route is left alone.
OnDownStateOnly ==
  /\ wasReady' = FALSE
  /\ up' = FALSE
  /\ UNCHANGED applyVars

OnDown ==
  /\ wasReady' = FALSE
  /\ up' = FALSE
  /\ BeginApply(Watcher, Fallback)

HandleSlice(s, v) ==
  /\ counts' = [counts EXCEPT ![s] = v]
  /\ \/ AnyReady(counts') /\ ~wasReady /\ OnUp
     \/ ~AnyReady(counts') /\ wasReady /\ OnDown
     \/ AnyReady(counts') = wasReady /\ NoTransition

\* Mutant: the last slice may go unnoticed.
DeleteSliceQuietly(s) ==
  /\ counts' = [counts EXCEPT ![s] = None]
  /\ NoTransition

DeleteSlice(s) ==
  /\ counts' = [counts EXCEPT ![s] = None]
  /\ IF wasReady /\ ~AnyReady(counts') THEN OnDown ELSE NoTransition

HandleChange(s) ==
  /\ at[Watcher] = "idle"
  /\ changes[s] # <<>>
  /\ IF Head(changes[s]) = None THEN DeleteSlice(s)
                                ELSE HandleSlice(s, Head(changes[s]))
  /\ changes' = [changes EXCEPT ![s] = Tail(@)]
  /\ UNCHANGED slices

=============================================================================
