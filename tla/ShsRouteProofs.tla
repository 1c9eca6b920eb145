--------------------------- MODULE ShsRouteProofs ---------------------------
(***************************************************************************)
(* Proofs about ShsRoute, for any set of slices and any bounds.            *)
(***************************************************************************)
EXTENDS ShsRoute, SequenceTheorems, TLAPS

----------------------------------------------------------------------------
(* Type correctness                                                        *)

LEMMA ReturnType ==
  ASSUME ApplyTypeOK, NEW c \in Appliers, Return(c)
  PROVE  /\ at' \in [Appliers -> {"waiting", "idle", "get", "create", "update"}]
         /\ backend' \in [Appliers -> Backends \cup {None}]
         /\ attempt' \in [Appliers -> 0 .. MaxRetries - 1]
BY MaxRetriesAssumption DEF ApplyTypeOK, Return

LEMMA AnswerType ==
  ASSUME ApplyTypeOK, Answer \/ Error
  PROVE  faults' \in 0 .. MaxFaults
BY MaxFaultsAssumption DEF ApplyTypeOK, Answer, Error

LEMMA SetRootType ==
  ASSUME ApplyTypeOK, NEW c \in Appliers, NEW b \in Backends \cup {None}, SetRoot(c, b)
  PROVE  /\ root' \in Backends \cup {None}
         /\ fresh' \in [Appliers -> BOOLEAN]
BY DEF SetRoot

LEMMA BeginApplyType ==
  ASSUME ApplyTypeOK, NEW c \in Appliers, NEW b \in Backends, BeginApply(c, b)
  PROVE  ApplyTypeOK'
BY DEF ApplyTypeOK, BeginApply

LEMMA ApplyStepType ==
  ASSUME ApplyTypeOK, NEW c \in Appliers, ApplyStep(c)
  PROVE  ApplyTypeOK'
<1>1. faults' \in 0 .. MaxFaults
  <2>1. Answer \/ Error
    BY DEF ApplyStep, ApplyGet, ApplyCreate, ApplyUpdate
  <2> QED
    BY <2>1, AnswerType
<1>2. backend[c] \in Backends \cup {None}
  BY DEF ApplyTypeOK
<1>3. CASE ApplyGet(c)
  <2>1. root' \in Backends \cup {None} /\ fresh' \in [Appliers -> BOOLEAN]
    BY <1>3 DEF ApplyGet, ApplyTypeOK
  <2>2. CASE Return(c)
    BY <1>1, <2>1, <2>2, ReturnType DEF ApplyTypeOK
  <2>3. CASE /\ at' = [at EXCEPT ![c] = IF root = None THEN "create" ELSE "update"]
             /\ UNCHANGED <<backend, attempt>>
    BY <1>1, <2>1, <2>3 DEF ApplyTypeOK
  <2> QED
    BY <1>3, <2>2, <2>3 DEF ApplyGet
<1>4. ASSUME SetRoot(c, backend[c]) \/ NoWrite(c)
      PROVE  root' \in Backends \cup {None} /\ fresh' \in [Appliers -> BOOLEAN]
  BY <1>2, <1>4, SetRootType DEF ApplyTypeOK, NoWrite
<1>5. CASE ApplyCreate(c)
  <2>1. /\ SetRoot(c, backend[c]) \/ NoWrite(c)
        /\ Return(c)
    BY <1>5 DEF ApplyCreate
  <2> QED
    BY <1>1, <1>4, <2>1, ReturnType DEF ApplyTypeOK
<1>6. CASE ApplyUpdate(c)
  <2>1. /\ SetRoot(c, backend[c]) \/ NoWrite(c)
        /\ Return(c) \/ (Retry(c) /\ ~LastAttempt(c))
    BY <1>6 DEF ApplyUpdate
  <2>2. CASE Return(c)
    BY <1>1, <1>4, <2>1, <2>2, ReturnType DEF ApplyTypeOK
  <2>3. CASE Retry(c) /\ ~LastAttempt(c)
    <3>1. attempt[c] + 1 \in 0 .. MaxRetries - 1
      BY <2>3, MaxRetriesAssumption DEF ApplyTypeOK, LastAttempt
    <3> QED
      BY <1>1, <1>4, <2>1, <2>3, <3>1 DEF ApplyTypeOK, Retry
  <2> QED
    BY <2>1, <2>2, <2>3
<1> QED
  BY <1>3, <1>5, <1>6 DEF ApplyStep

LEMMA FirstListType ==
  ASSUME slices \in [Slices -> Slice]
  PROVE  FirstList \in [Slices -> Seq(Slice)]
<1>1. \A v \in Slice : <<v>> \in Seq(Slice)
  OBVIOUS
<1>2. << >> \in Seq(Slice)
  OBVIOUS
<1> QED
  BY <1>1, <1>2 DEF FirstList

LEMMA ListedType ==
  ASSUME ShsTypeOK, NEW s \in Slices, NEW n \in 0 .. Len(changes[s])
  PROVE  /\ SubSeq(changes[s], 1, n) \in Seq(Slice)
         /\ Len(SubSeq(changes[s], 1, n)) = n
         /\ Listed(s, SubSeq(changes[s], 1, n)) \in Seq(Slice)
<1> DEFINE q == SubSeq(changes[s], 1, n)
<1>1. changes[s] \in Seq(Slice)
  BY DEF ShsTypeOK
<1>2. q \in Seq(Slice) /\ Len(q) = n
  BY <1>1, LenProperties, SubSeqProperties
<1>3. Append(q, slices[s]) \in Seq(Slice)
  BY <1>2 DEF ShsTypeOK
<1> QED
  BY <1>2, <1>3 DEF Listed

\* What the watcher's handlers may do.
LEMMA HandleChangeCases ==
  ASSUME NEW s \in Slices, HandleChange(s)
  PROVE  OnUp \/ OnDown \/ NoTransition
BY DEF HandleChange, HandleSlice, DeleteSlice

LEMMA HandleChangeType ==
  ASSUME ApplyTypeOK, ShsTypeOK, NEW s \in Slices, HandleChange(s)
  PROVE  ApplyTypeOK' /\ ShsTypeOK'
<1>1. ApplyTypeOK' /\ wasReady' \in BOOLEAN /\ up' \in BOOLEAN
  <2>1. CASE OnUp
    BY <2>1, BeginApplyType, WatcherAssumption, BackendsAssumption DEF OnUp
  <2>2. CASE OnDown
    BY <2>2, BeginApplyType, WatcherAssumption, BackendsAssumption DEF OnDown
  <2>3. CASE NoTransition
    BY <2>3 DEF NoTransition, applyVars, callVars, ApplyTypeOK, ShsTypeOK
  <2> QED
    BY <2>1, <2>2, <2>3, HandleChangeCases
<1>2. changes[s] \in Seq(Slice) /\ changes[s] # << >>
  BY DEF HandleChange, ShsTypeOK
<1>3. Head(changes[s]) \in Slice /\ Tail(changes[s]) \in Seq(Slice)
  BY <1>2, HeadTailProperties
<1>4. slices' \in [Slices -> Slice] /\ changes' \in [Slices -> Seq(Slice)]
  BY <1>3 DEF HandleChange, ShsTypeOK
<1>5. \/ counts' = [counts EXCEPT ![s] = None]
      \/ counts' = [counts EXCEPT ![s] = Head(changes[s])]
  BY DEF HandleChange, HandleSlice, DeleteSlice
<1>6. counts' \in [Slices -> Slice]
  BY <1>3, <1>5 DEF ShsTypeOK, Slice
<1> QED
  BY <1>1, <1>4, <1>6 DEF ShsTypeOK

LEMMA OvertakenType ==
  ASSUME TypeOK, OvertakenStep
  PROVE  overtaken' \in [Appliers -> Nat]
BY DEF OvertakenStep, TypeOK

LEMMA InitType == Init => TypeOK
<1> SUFFICES ASSUME Init PROVE TypeOK
  OBVIOUS
<1>1. ApplyTypeOK
  BY BackendsAssumption, MaxRetriesAssumption, MaxFaultsAssumption DEF Init, ApplyTypeOK
<1>2. ShsTypeOK
  BY FirstListType DEF Init, ShsInit, ShsTypeOK, Slice
<1> QED
  BY <1>1, <1>2 DEF Init, TypeOK

LEMMA NextType == TypeOK /\ [Next]_vars => TypeOK'
<1> SUFFICES ASSUME TypeOK, [Next]_vars PROVE TypeOK'
  OBVIOUS
<1> USE DEF TypeOK
<1>1. CASE SliceStep
  <2>1. PICK s \in Slices : SliceChanges(s)
    BY <1>1 DEF SliceStep
  <2>2. PICK v \in Slice : /\ slices' = [slices EXCEPT ![s] = v]
                           /\ changes' = [changes EXCEPT ![s] = Append(@, v)]
    BY <2>1 DEF SliceChanges
  <2>3. Append(changes[s], v) \in Seq(Slice)
    BY DEF ShsTypeOK
  <2> QED
    BY <1>1, <2>1, <2>2, <2>3
       DEF SliceStep, SliceChanges, history, ShsTypeOK, ApplyTypeOK, applyVars, callVars
<1>2. CASE BrokenWatch
  <2>1. PICK kept \in [Slices -> 0 .. MaxChanges] :
          /\ \A s \in Slices : kept[s] <= Len(changes[s])
          /\ changes' = [s \in Slices |-> Listed(s, SubSeq(changes[s], 1, kept[s]))]
    BY <1>2 DEF BrokenWatch, Relist
  <2>2. \A s \in Slices : kept[s] \in 0 .. Len(changes[s])
    BY <2>1, LenProperties, MaxChangesAssumption DEF ShsTypeOK
  <2>3. changes' \in [Slices -> Seq(Slice)]
    BY <2>1, <2>2, ListedType
  <2> QED
    BY <1>2, <2>3 DEF BrokenWatch, Relist, history, ShsTypeOK, ApplyTypeOK, applyVars, callVars
<1>3. ASSUME NEW s \in Slices, WatcherHandles(s) PROVE TypeOK'
  BY <1>3, HandleChangeType DEF WatcherHandles, history
<1>4. CASE AskIsUp
  <2>1. ApplyTypeOK'
    <3>1. Syncer \in Appliers
      BY AppliersAssumption
    <3> QED
      BY <1>4, <3>1, BeginApplyType, BackendsAssumption DEF AskIsUp, ApplyTypeOK
  <2> QED
    BY <1>4, <2>1 DEF AskIsUp, ShsTypeOK, shsVars, history
<1>5. ASSUME NEW c \in Appliers, Applies(c) PROVE TypeOK'
  <2>1. doubt' \in {"none", "start", "failed", "raced"}
    BY <1>5 DEF Applies, DoubtStep
  <2>2. overtaken' \in [Appliers -> Nat]
    BY <1>5, OvertakenType DEF Applies
  <2> QED
    BY <1>5, <2>1, <2>2, ApplyStepType DEF Applies, ShsTypeOK, shsVars
<1>6. CASE StatusStep
  <2>1. overtaken' \in [Appliers -> Nat]
    BY <1>6, OvertakenType DEF StatusStep
  <2> QED
    BY <1>6, <2>1
       DEF StatusStep, StatusWritten, callVars, shsVars, ApplyTypeOK, ShsTypeOK
<1>7. CASE Crash
  <2>1. ApplyTypeOK'
    BY <1>7, MaxRetriesAssumption DEF Crash, ApplyTypeOK
  <2>2. ShsTypeOK'
    <3>1. slices' = slices /\ changes' = FirstList
      BY <1>7 DEF Crash, ShsRestart
    <3> QED
      BY <1>7, <3>1, FirstListType DEF Crash, ShsRestart, ShsTypeOK, Slice
  <2> QED
    BY <1>7, <2>1, <2>2 DEF Crash
<1>8. CASE UNCHANGED vars
  BY <1>8 DEF vars, history, applyVars, callVars, shsVars, ApplyTypeOK, ShsTypeOK
<1> QED
  BY <1>1, <1>2, <1>3, <1>4, <1>5, <1>6, <1>7, <1>8 DEF Next

\* Every state of the root route's model is well typed: in particular no goroutine
\* makes more than the attempts applyRoute allows.
THEOREM ShsRouteType == Spec => []TypeOK
BY InitType, NextType, PTL DEF Spec

----------------------------------------------------------------------------
(* The state follows the endpoints                                         *)

LEMMA UpInit == Init => UpInv
<1> SUFFICES ASSUME Init PROVE UpInv
  OBVIOUS
<1>1. \A s \in Slices : Latest(s) = slices[s]
  BY DEF Init, ShsInit, FirstList, Latest
<1>2. AnyReady(counts) = FALSE
  BY NoSliceAssumption DEF Init, ShsInit, AnyReady
<1> QED
  BY <1>1, <1>2 DEF Init, ShsInit, UpInv

\* The handlers keep wasReady in step with the counts.
LEMMA HandleChangeReady ==
  ASSUME ShsTypeOK, UpInv, NEW s \in Slices, HandleChange(s)
  PROVE  wasReady' = AnyReady(counts') /\ up' = wasReady'
<1>1. wasReady = AnyReady(counts) /\ up = wasReady /\ wasReady \in BOOLEAN
  BY DEF UpInv, ShsTypeOK
<1>2. AnyReady(counts') \in BOOLEAN
  BY DEF AnyReady
<1>3. CASE HandleSlice(s, Head(changes[s]))
  BY <1>1, <1>2, <1>3 DEF HandleSlice, OnUp, OnDown, NoTransition
<1>4. CASE DeleteSlice(s)
  <2>1. counts' = [counts EXCEPT ![s] = None]
    BY <1>4 DEF DeleteSlice
  <2>2. AnyReady(counts') => AnyReady(counts)
    BY <2>1, NoSliceAssumption DEF AnyReady, ShsTypeOK
  <2>3. CASE wasReady /\ ~AnyReady(counts')
    BY <1>2, <1>4, <2>3 DEF DeleteSlice, OnDown
  <2>4. CASE ~(wasReady /\ ~AnyReady(counts'))
    <3>1. NoTransition
      BY <1>4, <2>4 DEF DeleteSlice
    <3>2. wasReady' = wasReady /\ up' = up
      BY <3>1 DEF NoTransition
    <3> QED
      BY <1>1, <1>2, <2>2, <2>4, <3>2
  <2> QED
    BY <2>3, <2>4
<1> QED
  BY <1>3, <1>4 DEF HandleChange

\* A handled change leaves the latest one as it is.
LEMMA HandleChangeLatest ==
  ASSUME ShsTypeOK, UpInv, NEW s \in Slices, HandleChange(s)
  PROVE  \A x \in Slices : Latest(x)' = slices'[x]
<1>1. slices' = slices /\ changes' = [changes EXCEPT ![s] = Tail(@)]
  BY DEF HandleChange
<1>2. counts' = [counts EXCEPT ![s] = Head(changes[s])]
  BY DEF HandleChange, HandleSlice, DeleteSlice
<1> SUFFICES ASSUME NEW x \in Slices PROVE Latest(x)' = slices[x]
  BY <1>1
<1>3. Latest(x) = slices[x]
  BY DEF UpInv
<1>4. CASE x # s
  BY <1>1, <1>2, <1>3, <1>4 DEF Latest, ShsTypeOK
<1>5. CASE x = s
  <2> DEFINE q == changes[s]
  <2>1. q \in Seq(Slice) /\ q # << >>
    BY DEF HandleChange, ShsTypeOK
  <2>2. changes'[s] = Tail(q) /\ counts'[s] = Head(q)
    BY <1>1, <1>2 DEF ShsTypeOK
  <2>3. slices[s] = q[Len(q)]
    BY <1>3, <1>5, <2>1 DEF Latest
  <2>4. CASE Tail(q) = << >>
    <3>1. Len(Tail(q)) = Len(q) - 1 /\ Len(Tail(q)) = 0
      BY <2>1, <2>4, HeadTailProperties, EmptySeq
    <3>2. Len(q) = 1 /\ Head(q) = q[1]
      BY <2>1, <3>1, LenProperties
    <3> QED
      BY <1>5, <2>2, <2>3, <2>4, <3>2 DEF Latest
  <2>5. CASE Tail(q) # << >>
    <3>1. Tail(q)[Len(Tail(q))] = q[Len(q)]
      BY <2>1, <2>5
    <3> QED
      BY <1>5, <2>2, <2>3, <2>5, <3>1 DEF Latest
  <2> QED
    BY <2>4, <2>5
<1> QED
  BY <1>4, <1>5

LEMMA UpNext == TypeOK /\ UpInv /\ [Next]_vars => UpInv'
<1> SUFFICES ASSUME TypeOK, UpInv, [Next]_vars PROVE UpInv'
  OBVIOUS
<1> USE DEF TypeOK
<1>1. CASE SliceStep
  <2>1. PICK s \in Slices : SliceChanges(s)
    BY <1>1 DEF SliceStep
  <2>2. PICK v \in Slice : /\ slices' = [slices EXCEPT ![s] = v]
                           /\ changes' = [changes EXCEPT ![s] = Append(@, v)]
    BY <2>1 DEF SliceChanges
  <2>3. UNCHANGED <<counts, wasReady, up>>
    BY <2>1 DEF SliceChanges
  <2>4. ASSUME NEW x \in Slices PROVE Latest(x)' = slices'[x]
    <3>1. CASE x = s
      <4>1. changes[s] \in Seq(Slice)
        BY DEF ShsTypeOK
      <4>2. /\ Append(changes[s], v) # << >>
            /\ Append(changes[s], v)[Len(Append(changes[s], v))] = v
        BY <4>1
      <4>3. changes'[s] = Append(changes[s], v) /\ slices'[s] = v
        BY <2>2 DEF ShsTypeOK
      <4> QED
        BY <3>1, <4>2, <4>3 DEF Latest
    <3>2. CASE x # s
      BY <2>2, <2>3, <3>2 DEF Latest, UpInv, ShsTypeOK
    <3> QED
      BY <3>1, <3>2
  <2> QED
    BY <2>3, <2>4 DEF UpInv, AnyReady
<1>2. CASE BrokenWatch
  <2>1. PICK kept \in [Slices -> 0 .. MaxChanges] :
          /\ \A s \in Slices : kept[s] <= Len(changes[s])
          /\ changes' = [s \in Slices |-> Listed(s, SubSeq(changes[s], 1, kept[s]))]
    BY <1>2 DEF BrokenWatch, Relist
  <2>2. UNCHANGED <<slices, counts, wasReady, up>>
    BY <1>2 DEF BrokenWatch, Relist
  <2>3. ASSUME NEW x \in Slices PROVE Latest(x)' = slices[x]
    <3> DEFINE q == SubSeq(changes[x], 1, kept[x])
    <3>1. kept[x] \in 0 .. Len(changes[x])
      BY <2>1, LenProperties, MaxChangesAssumption DEF ShsTypeOK
    <3>2. q \in Seq(Slice)
      BY <3>1, ListedType
    <3>3. changes'[x] = Listed(x, q)
      BY <2>1
    <3>4. CASE slices[x] = None /\ ~Known(x, q)
      BY <2>2, <3>3, <3>4 DEF Listed, Known, Latest
    <3>5. CASE ~(slices[x] = None /\ ~Known(x, q))
      <4>1. changes'[x] = Append(q, slices[x])
        BY <3>3, <3>5 DEF Listed
      <4>2. /\ Append(q, slices[x]) # << >>
            /\ Append(q, slices[x])[Len(Append(q, slices[x]))] = slices[x]
        BY <3>2
      <4> QED
        BY <4>1, <4>2 DEF Latest
    <3> QED
      BY <3>4, <3>5
  <2> QED
    BY <2>2, <2>3 DEF UpInv, AnyReady
<1>3. ASSUME NEW s \in Slices, WatcherHandles(s) PROVE UpInv'
  BY <1>3, HandleChangeReady, HandleChangeLatest DEF WatcherHandles, UpInv
<1>4. ASSUME UNCHANGED shsVars PROVE UpInv'
  BY <1>4 DEF shsVars, UpInv, Latest, AnyReady
<1>5. CASE Crash
  <2>1. changes' = FirstList /\ slices' = slices /\ wasReady' = FALSE /\ up' = FALSE
    BY <1>5 DEF Crash, ShsRestart
  <2>2. counts' = [s \in Slices |-> None]
    BY <1>5 DEF Crash, ShsRestart
  <2>3. AnyReady(counts') = FALSE
    BY <2>2, NoSliceAssumption DEF AnyReady
  <2>4. \A s \in Slices : Latest(s)' = slices'[s]
    BY <2>1, <2>2 DEF FirstList, Latest
  <2> QED
    BY <2>1, <2>3, <2>4 DEF UpInv
<1> QED
  BY <1>1, <1>2, <1>3, <1>4, <1>5 DEF Next, AskIsUp, Applies, StatusStep, vars

\* Whatever the order of the slices' events and the gaps in the watch, once the
\* watcher has handled all it was told its state is that of the cluster.
THEOREM UpFollows == Spec => []UpFollowsEndpoints
<1>1. UpInv => UpFollowsEndpoints
  <2> SUFFICES ASSUME UpInv, \A s \in Slices : changes[s] = << >>
               PROVE  up = AnyReady(slices)
    BY DEF UpFollowsEndpoints
  <2>1. \A s \in Slices : counts[s] = slices[s]
    BY DEF UpInv, Latest
  <2> QED
    BY <2>1 DEF UpInv, AnyReady
<1> QED
  BY <1>1, InitType, NextType, UpInit, UpNext, PTL DEF Spec

----------------------------------------------------------------------------
(* How many attempts are overtaken                                         *)

LEMMA AttemptInit == Init => AttemptInv
<1> SUFFICES ASSUME Init, NEW c \in Appliers
             PROVE  /\ at[c] \in {"waiting", "idle"} => attempt[c] = 0
                    /\ overtaken[c] >= attempt[c]
                    /\ at[c] = "update" /\ ~fresh[c] => overtaken[c] > attempt[c]
  BY DEF AttemptInv
<1>1. /\ attempt[c] = 0 /\ overtaken[c] = 0
      /\ at[c] # "update"
  BY DEF Init
<1> QED
  BY <1>1

\* A step of one goroutine's applyRoute, for itself and for the others.
LEMMA AttemptStep ==
  ASSUME TypeOK, AttemptInv, NEW c \in Appliers, ApplyStep(c), OvertakenStep
  PROVE  AttemptInv'
<1> SUFFICES ASSUME NEW d \in Appliers
             PROVE  /\ at'[d] \in {"waiting", "idle"} => attempt'[d] = 0
                    /\ overtaken'[d] >= attempt'[d]
                    /\ at'[d] = "update" /\ ~fresh'[d] => overtaken'[d] > attempt'[d]
  BY DEF AttemptInv
<1> USE DEF TypeOK, ApplyTypeOK
<1>1. overtaken[d] \in Nat /\ attempt[d] \in Nat
  BY MaxRetriesAssumption
<1>2. overtaken'[d] = IF at'[d] \in {"waiting", "idle"} THEN 0
                      ELSE IF fresh[d] /\ ~fresh'[d] THEN overtaken[d] + 1
                      ELSE overtaken[d]
  BY DEF OvertakenStep
<1>3. CASE d # c
  <2>1. at'[d] = at[d] /\ attempt'[d] = attempt[d]
    BY <1>3 DEF ApplyStep, ApplyGet, ApplyCreate, ApplyUpdate, Return, Retry
  <2> QED
    BY <1>1, <1>2, <2>1 DEF AttemptInv
<1>4. CASE d = c /\ Return(c)
  <2>1. at'[d] = "idle" /\ attempt'[d] = 0
    BY <1>4 DEF Return
  <2> QED
    BY <1>2, <2>1
<1>5. CASE d = c /\ ~Return(c) /\ ApplyGet(c)
  <2>1. /\ attempt'[d] = attempt[d]
        /\ at'[d] \in {"create", "update"}
        /\ at'[d] = "update" => fresh'[d]
    BY <1>5 DEF ApplyGet
  <2> QED
    BY <1>1, <1>2, <2>1 DEF AttemptInv
<1>6. CASE d = c /\ Retry(c) /\ ApplyUpdate(c) /\ ~Return(c)
  <2>1. at[d] = "update" /\ ~fresh[d]
    BY <1>6 DEF ApplyUpdate
  <2>2. at'[d] = "get" /\ attempt'[d] = attempt[d] + 1
    BY <1>1, <1>6 DEF Retry
  <2> QED
    BY <1>1, <1>2, <2>1, <2>2 DEF AttemptInv
<1> QED
  BY <1>3, <1>4, <1>5, <1>6 DEF ApplyStep, ApplyCreate, ApplyUpdate

LEMMA AttemptNext == TypeOK /\ AttemptInv /\ [Next]_vars => AttemptInv'
<1> SUFFICES ASSUME TypeOK, AttemptInv, [Next]_vars PROVE AttemptInv'
  OBVIOUS
<1>1. ASSUME UNCHANGED <<at, attempt, fresh, overtaken>> PROVE AttemptInv'
  BY <1>1 DEF AttemptInv
<1>2. ASSUME NEW c \in Appliers, NEW b, BeginApply(c, b), overtaken' = overtaken
      PROVE  AttemptInv'
  BY <1>2 DEF BeginApply, AttemptInv, TypeOK, ApplyTypeOK
<1>3. CASE SliceStep \/ BrokenWatch \/ UNCHANGED vars
  BY <1>1, <1>3 DEF SliceStep, BrokenWatch, vars, applyVars, callVars, history
<1>4. ASSUME NEW s \in Slices, WatcherHandles(s) PROVE AttemptInv'
  <2>1. overtaken' = overtaken
    BY <1>4 DEF WatcherHandles, history
  <2>2. CASE OnUp \/ OnDown
    BY <1>2, <2>1, <2>2, WatcherAssumption DEF OnUp, OnDown
  <2>3. CASE NoTransition
    BY <1>1, <2>1, <2>3 DEF NoTransition, applyVars, callVars
  <2> QED
    BY <1>4, <2>2, <2>3, HandleChangeCases DEF WatcherHandles
<1>5. CASE AskIsUp
  <2>1. overtaken' = overtaken
    BY <1>5 DEF AskIsUp, history
  <2>2. CASE BeginApply(Syncer, Fallback)
    BY <1>2, <2>1, <2>2, AppliersAssumption
  <2>3. CASE /\ at[Syncer] = "waiting"
             /\ at' = [at EXCEPT ![Syncer] = "idle"]
             /\ UNCHANGED <<root, backend, attempt, fresh, faults>>
    BY <2>1, <2>3 DEF AttemptInv, TypeOK, ApplyTypeOK
  <2> QED
    BY <1>5, <2>2, <2>3 DEF AskIsUp
<1>6. ASSUME NEW c \in Appliers, Applies(c) PROVE AttemptInv'
  BY <1>6, AttemptStep DEF Applies
<1>7. CASE StatusStep
  <2>1. UNCHANGED <<at, attempt>> /\ OvertakenStep
    BY <1>7 DEF StatusStep, StatusWritten, callVars
  <2> QED
    BY <2>1, MaxRetriesAssumption DEF OvertakenStep, AttemptInv, TypeOK, ApplyTypeOK
<1>8. CASE Crash
  BY <1>8 DEF Crash, AttemptInv
<1> QED
  BY <1>3, <1>4, <1>5, <1>6, <1>7, <1>8 DEF Next

----------------------------------------------------------------------------
(* The root route follows the state                                        *)

LEMMA RouteInit == Init => RouteInv
BY AppliersAssumption DEF Init, RouteInv, RootRouteFollowsShs

\* The watcher's applyRoute ends with its route written, or in doubt.
LEMMA RouteWatcherStep ==
  ASSUME TypeOK, AttemptInv, RouteInv, ApplyStep(Watcher), DoubtStep(Watcher), up' = up
  PROVE  RouteInv'
<1> USE WatcherAssumption, AppliersAssumption
<1>1. backend[Watcher] = Wanted
  BY DEF ApplyStep, ApplyGet, ApplyCreate, ApplyUpdate, RouteInv
<1>2. Wanted' = Wanted
  BY DEF Wanted
<1>3. at'[Syncer] = at[Syncer] /\ backend'[Syncer] = backend[Syncer]
  BY DEF ApplyStep, ApplyGet, ApplyCreate, ApplyUpdate, Return, Retry, TypeOK, ApplyTypeOK
<1>4. at'[Watcher] # "idle" => backend'[Watcher] = backend[Watcher]
  BY DEF ApplyStep, ApplyGet, ApplyCreate, ApplyUpdate, Return, Retry, TypeOK, ApplyTypeOK
<1>5. doubt' = "none" => ~Races(Watcher) /\ ~Fails(Watcher)
  BY DEF DoubtStep
<1>6. doubt' = "none" => at'[Watcher] # "idle" \/ root' = Wanted
  <2> SUFFICES ASSUME ~Races(Watcher), ~Fails(Watcher), at'[Watcher] = "idle"
               PROVE  root' = Wanted
    BY <1>5
  <2>1. faults' = faults
    BY DEF Fails
  <2>2. ~Error
    BY <2>1 DEF Error, TypeOK, ApplyTypeOK
  <2>3. ~ApplyGet(Watcher)
    BY <2>2 DEF ApplyGet, TypeOK, ApplyTypeOK
  <2>4. CASE ApplyCreate(Watcher)
    <3>1. root \in {None, Wanted}
      BY <1>1, <2>4 DEF ApplyCreate, Races
    <3> QED
      BY <1>1, <2>2, <2>4, <3>1 DEF ApplyCreate, SetRoot, NoWrite
  <2>5. CASE ApplyUpdate(Watcher)
    <3>1. at[Watcher] = "update" /\ ~Retry(Watcher)
      BY <2>5 DEF ApplyUpdate, Retry, TypeOK, ApplyTypeOK
    <3>2. fresh[Watcher] \/ ~LastAttempt(Watcher)
      <4>1. CASE ~fresh[Watcher] /\ LastAttempt(Watcher)
        <5>1. overtaken[Watcher] > attempt[Watcher] /\ overtaken[Watcher] < MaxRetries
          BY <3>1, <4>1, MaxRetriesAssumption DEF AttemptInv, Fails, TypeOK
        <5> QED
          BY <4>1, <5>1, MaxRetriesAssumption DEF LastAttempt, TypeOK
      <4> QED
        BY <4>1
    <3> QED
      BY <1>1, <2>2, <2>5, <3>1, <3>2 DEF ApplyUpdate, SetRoot
  <2> QED
    BY <2>3, <2>4, <2>5 DEF ApplyStep
<1> QED
  BY <1>1, <1>2, <1>3, <1>4, <1>6 DEF RouteInv, RootRouteFollowsShs

\* onSynced writes the dashboard: right while the server is down, else in doubt.
LEMMA RouteSyncerStep ==
  ASSUME TypeOK, RouteInv, ApplyStep(Syncer), DoubtStep(Syncer), up' = up
  PROVE  RouteInv'
<1> USE WatcherAssumption, AppliersAssumption
<1>1. backend[Syncer] = Fallback
  BY DEF ApplyStep, ApplyGet, ApplyCreate, ApplyUpdate, RouteInv
<1>2. Wanted' = Wanted
  BY DEF Wanted
<1>3. at'[Watcher] = at[Watcher] /\ backend'[Watcher] = backend[Watcher]
  BY DEF ApplyStep, ApplyGet, ApplyCreate, ApplyUpdate, Return, Retry, TypeOK, ApplyTypeOK
<1>4. at'[Syncer] # "idle" => backend'[Syncer] = backend[Syncer]
  BY DEF ApplyStep, ApplyGet, ApplyCreate, ApplyUpdate, Return, Retry, TypeOK, ApplyTypeOK
<1>5. root' = root \/ root' = Fallback
  BY <1>1 DEF ApplyStep, ApplyGet, ApplyCreate, ApplyUpdate, SetRoot, NoWrite
<1>6. ~up /\ Writes(Syncer) => root' = Fallback
  <2> SUFFICES ASSUME Writes(Syncer) PROVE root' = Fallback
    OBVIOUS
  <2>1. ~Error
    BY DEF Writes, Error, TypeOK, ApplyTypeOK
  <2> QED
    BY <1>1, <2>1 DEF Writes, ApplyStep, ApplyGet, ApplyCreate, ApplyUpdate, SetRoot
<1>7. doubt' = "none" => at[Watcher] # "idle" \/ root' = Wanted
  <2> SUFFICES ASSUME doubt' = "none", at[Watcher] = "idle" PROVE root' = Wanted
    OBVIOUS
  <2>1. /\ ~(up /\ root' # root)
        /\ doubt = "none" \/ (Writes(Syncer) /\ ~up)
    BY DEF DoubtStep, Races
  <2>2. doubt = "none" => root = Wanted
    BY DEF RouteInv, RootRouteFollowsShs
  <2> QED
    BY <1>5, <1>6, <2>1, <2>2 DEF Wanted
<1> QED
  BY <1>1, <1>2, <1>3, <1>4, <1>7 DEF RouteInv, RootRouteFollowsShs

LEMMA RouteNext == TypeOK /\ AttemptInv /\ RouteInv /\ [Next]_vars => RouteInv'
<1> SUFFICES ASSUME TypeOK, AttemptInv, RouteInv, [Next]_vars PROVE RouteInv'
  OBVIOUS
<1> USE WatcherAssumption, AppliersAssumption
<1>1. ASSUME UNCHANGED applyVars, UNCHANGED <<up, doubt>> PROVE RouteInv'
  BY <1>1 DEF applyVars, callVars, RouteInv, RootRouteFollowsShs, Wanted
<1>2. ASSUME NEW s \in Slices, WatcherHandles(s) PROVE RouteInv'
  <2>1. CASE OnUp \/ OnDown
    <3>1. at'[Watcher] = "get" /\ backend'[Watcher] = Wanted'
      BY <2>1 DEF OnUp, OnDown, BeginApply, Wanted, TypeOK, ApplyTypeOK
    <3>2. at'[Syncer] = at[Syncer] /\ backend'[Syncer] = backend[Syncer]
      BY <2>1 DEF OnUp, OnDown, BeginApply, TypeOK, ApplyTypeOK
    <3> QED
      BY <3>1, <3>2 DEF RouteInv, RootRouteFollowsShs
  <2>2. CASE NoTransition
    BY <1>1, <1>2, <2>2 DEF NoTransition, WatcherHandles, history
  <2> QED
    BY <1>2, <2>1, <2>2, HandleChangeCases DEF WatcherHandles, history
<1>3. CASE AskIsUp
  <2>1. UNCHANGED <<root, up, doubt>>
    BY <1>3 DEF AskIsUp, BeginApply, shsVars, history
  <2>2. at'[Watcher] = at[Watcher] /\ backend'[Watcher] = backend[Watcher]
    BY <1>3 DEF AskIsUp, BeginApply, TypeOK, ApplyTypeOK
  <2>3. at'[Syncer] = "idle" \/ backend'[Syncer] = Fallback
    BY <1>3 DEF AskIsUp, BeginApply, TypeOK, ApplyTypeOK
  <2> QED
    BY <2>1, <2>2, <2>3 DEF RouteInv, RootRouteFollowsShs, Wanted
<1>4. ASSUME NEW c \in Appliers, Applies(c) PROVE RouteInv'
  <2>1. up' = up
    BY <1>4 DEF Applies, shsVars
  <2> QED
    BY <1>4, <2>1, RouteWatcherStep, RouteSyncerStep DEF Applies
<1>5. CASE StatusStep
  BY <1>5 DEF StatusStep, StatusWritten, callVars, shsVars, RouteInv, RootRouteFollowsShs,
              Wanted
<1>6. CASE Crash
  BY <1>6 DEF Crash, RouteInv, RootRouteFollowsShs
<1> QED
  BY <1>1, <1>2, <1>3, <1>4, <1>5, <1>6
     DEF Next, SliceStep, BrokenWatch, SliceChanges, Relist, vars, shsVars, history

\* The root route points where State.up says, or the watcher is changing it, in
\* every state that no failure, lost race or fresh start has put in doubt.  Whatever
\* the number of attempts, applyRoute gives up for conflicts only when others have
\* written the route during each of them.
THEOREM RootRouteFollows == Spec => []RootRouteFollowsShs
<1>1. RouteInv => RootRouteFollowsShs
  BY DEF RouteInv
<1> QED
  BY <1>1, InitType, NextType, AttemptInit, AttemptNext, RouteInit, RouteNext, PTL DEF Spec

----------------------------------------------------------------------------
(* The refinement                                                          *)

Behind == \E s \in Slices : changes[s] # << >>

LEMMA UpInvExact == UpInv => Watch!Exact
<1> SUFFICES ASSUME UpInv, ~Behind PROVE up = AnyReady(slices)
  BY DEF Watch!Exact, Behind
<1>1. \A s \in Slices : counts[s] = slices[s]
  BY DEF UpInv, Latest, Behind
<1> QED
  BY <1>1 DEF UpInv, AnyReady

LEMMA WatchTypeHolds == TypeOK => Watch!WatchTypeOK
BY DEF TypeOK, ShsTypeOK, Watch!WatchTypeOK, AnyReady

LEMMA AvailabilityInit == Init => Watch!WatchInit
<1> SUFFICES ASSUME Init PROVE Watch!WatchInit
  OBVIOUS
<1>1. Watch!WatchTypeOK
  BY InitType, WatchTypeHolds
<1>2. Watch!Exact
  BY UpInit, UpInvExact
<1>3. ~up
  BY DEF Init, ShsInit
<1> QED
  BY <1>1, <1>2, <1>3 DEF Watch!WatchInit

\* After a new list the watcher is behind, or nothing is left to tell it.
LEMMA AvailabilityRelist ==
  ASSUME BrokenWatch, Watch!Exact'
  PROVE  Watch!Changes \/ Watch!Handles \/ UNCHANGED Watch!watchVars
<1>1. UNCHANGED <<slices, up>>
  BY DEF BrokenWatch, Relist
<1>2. AnyReady(slices)' = AnyReady(slices)
  BY <1>1 DEF AnyReady
<1>3. CASE Behind'
  <2>1. Watch!Changes
    BY <1>1, <1>3 DEF Watch!Changes, Behind, AnyReady
  <2> QED
    BY <2>1
<1>4. CASE Behind /\ ~Behind'
  <2>1. up' \in BOOLEAN
    BY <1>4 DEF Watch!Exact, Behind, AnyReady
  <2>2. Watch!Handles
    BY <1>2, <1>4, <2>1 DEF Watch!Handles, Behind
  <2> QED
    BY <2>2
<1>5. CASE ~Behind /\ ~Behind'
  <2>1. UNCHANGED Watch!watchVars
    BY <1>1, <1>2, <1>5 DEF Watch!watchVars, Behind
  <2> QED
    BY <2>1
<1> QED
  BY <1>3, <1>4, <1>5

LEMMA AvailabilityNext ==
  ASSUME TypeOK, TypeOK', Watch!Exact', [Next]_vars
  PROVE  [Watch!WatchNext]_(Watch!watchVars)
<1> USE DEF TypeOK
<1>1. Watch!Exact'
  OBVIOUS
<1>2. CASE SliceStep
  <2>1. PICK s \in Slices : SliceChanges(s)
    BY <1>2 DEF SliceStep
  <2>2. PICK v \in Slice : changes' = [changes EXCEPT ![s] = Append(@, v)]
    BY <2>1 DEF SliceChanges
  <2>3. changes[s] \in Seq(Slice)
    BY DEF ShsTypeOK
  <2>4. Append(changes[s], v) # << >>
    BY <2>3, AppendProperties
  <2>5. Behind'
    BY <2>2, <2>4 DEF ShsTypeOK, Behind
  <2>6. Watch!Changes
    BY <2>1, <2>5 DEF SliceChanges, Watch!Changes, Behind, AnyReady
  <2> QED
    BY <2>6 DEF Watch!WatchNext
<1>3. CASE BrokenWatch
  BY <1>1, <1>3, AvailabilityRelist DEF Watch!WatchNext
<1>4. ASSUME NEW s \in Slices, WatcherHandles(s)
      PROVE  Watch!WatchNext
  <2>1. Behind /\ UNCHANGED slices
    BY <1>4 DEF WatcherHandles, HandleChange, Behind
  <2>2. up' \in BOOLEAN
    BY DEF ShsTypeOK
  <2>3. Watch!Handles
    BY <1>1, <2>1, <2>2 DEF Watch!Handles, Behind, AnyReady
  <2> QED
    BY <2>3 DEF Watch!WatchNext
<1>5. CASE AskIsUp \/ (\E c \in Appliers : Applies(c)) \/ StatusStep
  <2>1. UNCHANGED shsVars
    BY <1>5 DEF AskIsUp, Applies, StatusStep
  <2> QED
    BY <2>1 DEF shsVars, Watch!watchVars, AnyReady
<1>6. CASE Crash
  <2>1. up' = FALSE /\ UNCHANGED slices
    BY <1>6 DEF Crash, ShsRestart
  <2>2. Watch!Restarted
    BY <1>1, <2>1 DEF Watch!Restarted, AnyReady
  <2> QED
    BY <2>2 DEF Watch!WatchNext
<1>7. CASE UNCHANGED vars
  BY <1>7 DEF vars, shsVars, Watch!watchVars, AnyReady
<1> QED
  BY <1>2, <1>3, <1>4, <1>5, <1>6, <1>7 DEF Next

\* The watcher implements what the pages and the process rely on.
THEOREM WatcherIsAvailability == Spec => ImplementsAvailability
<1>1. Init => TypeOK /\ UpInv /\ Watch!WatchInit
  BY InitType, UpInit, AvailabilityInit
<1>2. TypeOK /\ UpInv /\ [Next]_vars => TypeOK' /\ UpInv'
  BY NextType, UpNext
<1>3. TypeOK /\ TypeOK' /\ Watch!Exact' /\ [Next]_vars
        => [Watch!WatchNext]_(Watch!watchVars)
  BY AvailabilityNext
<1> QED
  BY <1>1, <1>2, <1>3, UpInvExact, PTL DEF Spec, ImplementsAvailability, Watch!WatchSpec

=============================================================================
