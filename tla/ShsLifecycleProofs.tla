------------------------- MODULE ShsLifecycleProofs -------------------------
(***************************************************************************)
(* Proofs about ShsLifecycle, for any length of the day, any grace period, *)
(* any lag that leaves the two apart, and any users.                       *)
(***************************************************************************)
EXTENDS ShsLifecycle, TLAPS

----------------------------------------------------------------------------
(* Steps that leave the scheduler and its history alone                    *)

Idle == UNCHANGED <<tod, stop, sched, delay, late, historyVars>>

LEMMA IdleKeepsInv ==
  ASSUME SchedInv, Idle, proc' = "running" <=> proc = "running"
  PROVE  SchedInv'
BY DEF SchedInv, TimerInv, DueInv, ProcInv, Idle, historyVars, Due, SinceStop

\* What a step of a user or of the process does to the state around it.
UserStep(u) == Request(u) \/ Polls(u) \/ WakePatch(u) \/ PollFails(u) \/ Leave(u)

LEMMA UserStepType ==
  ASSUME AppTypeOK, replicas \in 0 .. 1, NEW u \in Users, UserStep(u)
  PROVE  /\ AppTypeOK'
         /\ replicas' \in 0 .. 1
         /\ replicas <= replicas'
         /\ Idle
         /\ UNCHANGED <<watchVars, proc>>
<1>1. /\ \E p \in Pages : Shows(u, p)
      /\ replicas' \in {1, replicas}
      /\ Idle
      /\ UNCHANGED <<watchVars, proc>>
  <2>1. CASE Request(u)
    BY <2>1 DEF Request, LoadPage, FollowLink, PostWake, Answers, Pages, schedVars, Idle
  <2>2. CASE Polls(u)
    BY <2>2 DEF Polls, Poll, Answers, Pages, schedVars, Idle
  <2>3. CASE WakePatch(u)
    BY <2>3 DEF WakePatch, Pages, Idle
  <2>4. CASE PollFails(u)
    BY <2>4 DEF PollFails, Pages, schedVars, Idle
  <2>5. CASE Leave(u)
    BY <2>5 DEF Leave, Pages, schedVars, Idle
  <2> QED
    BY <2>1, <2>2, <2>3, <2>4, <2>5 DEF UserStep
<1> QED
  BY <1>1 DEF AppTypeOK, Shows

LEMMA ForgottenType ==
  ASSUME Forgotten
  PROVE  overdue' \in 0 .. 2 /\ crossed' \in BOOLEAN
<1>1. overdue' \in 0 .. 2
  BY DEF Forgotten
<1>2. crossed' \in BOOLEAN
  BY DEF Forgotten
<1> QED
  BY <1>1, <1>2

LEMMA EndsType ==
  ASSUME AppTypeOK, Ends
  PROVE  AppTypeOK'
BY DEF AppTypeOK, Ends, Pages

----------------------------------------------------------------------------
(* The numbers                                                             *)

LEMMA SinceStopType ==
  ASSUME SchedTypeOK
  PROVE  SinceStop \in 0 .. DayLength - 1
BY DayAssumption DEF SchedTypeOK, Times, SinceStop

LEMMA FirstDelay ==
  ASSUME SchedTypeOK
  PROVE  /\ DurationUntilNextStop \in 0 .. DayLength
         /\ DurationUntilNextStop = 0 => SinceStop < Grace
         /\ DurationUntilNextStop > 0 =>
              \/ tod < stop /\ DurationUntilNextStop = stop - tod
              \/ stop <= tod /\ DurationUntilNextStop = stop + DayLength - tod
BY DayAssumption DEF SchedTypeOK, Times, SinceStop, DurationUntilNextStop

LEMMA NextDelay ==
  ASSUME SchedTypeOK
  PROVE  DurationAfterStop \in 1 .. 2 * DayLength - 1
BY DayAssumption DEF SchedTypeOK, Times, DurationAfterStop

\* A unit later the time since the stop is one more, or none when it is the stop.
LEMMA SinceStopTicks ==
  ASSUME SchedTypeOK, Tick
  PROVE  /\ tod' \in Times
         /\ tod' = stop => SinceStop = DayLength - 1 /\ SinceStop' = 0
         /\ tod' # stop => SinceStop' = SinceStop + 1
BY DayAssumption DEF SchedTypeOK, Times, SinceStop, Tick

----------------------------------------------------------------------------
(* Types and the scheduler's invariant, together: an action at a time      *)

LifeInv == TypeOK /\ SchedInv

LEMMA LifeInit == Init => LifeInv
<1> SUFFICES ASSUME Init PROVE LifeInv
  OBVIOUS
<1>1. SchedTypeOK
  <2>1. DurationUntilNextStop \in 0 .. 2 * DayLength - 1
    BY DayAssumption DEF Init, SchedInit, Times, DurationUntilNextStop
  <2> QED
    BY <2>1, DayAssumption DEF Init, SchedInit, SchedTypeOK
<1>2. TypeOK
  <2>1. WatchTypeOK /\ crossed \in BOOLEAN
    BY DEF Init, WatchInit
  <2>2. AppTypeOK /\ overdue \in 0 .. 2
    BY DEF Init, AppInit, AppTypeOK, Pages
  <2> QED
    BY <1>1, <2>1, <2>2 DEF TypeOK
<1>3. SchedInv
  BY <1>1, FirstDelay, DayAssumption
  DEF Init, SchedInit, AppInit, SchedInv, TimerInv, DueInv, ProcInv, Due, SchedTypeOK, Times
<1> QED
  BY <1>2, <1>3 DEF LifeInv

LEMMA LifeTimePasses ==
  ASSUME LifeInv, TimePasses
  PROVE  LifeInv'
<1> USE DEF LifeInv, TypeOK
<1>1. SchedTypeOK
  OBVIOUS
<1>2. Tick /\ UNCHANGED <<watchVars, appVars, crossed>>
  BY DEF TimePasses
<1>3. WatchTypeOK' /\ AppTypeOK' /\ crossed' \in BOOLEAN
  BY <1>2 DEF WatchTypeOK, watchVars, AppTypeOK, appVars
<1>4. SinceStop \in 0 .. DayLength - 1
  BY <1>1, SinceStopType
<1>5. SchedTypeOK'
  BY <1>1, <1>2, SinceStopTicks, DayAssumption DEF SchedTypeOK, Tick, Times
<1>6. CASE Due
  <2>1. tod' # stop /\ SinceStop' = SinceStop + 1
    BY <1>1, <1>2, <1>4, <1>6, SinceStopTicks, DayAssumption
    DEF SchedInv, DueInv, SchedTypeOK, Tick
  <2>2. UNCHANGED <<sched, delay, overdue, crossed, proc>> /\ late' = late + 1
    BY <1>2, <1>6, <2>1 DEF TimePasses, Tick, SchedInv, DueInv, appVars
  <2>3. SchedInv'
    BY <1>1, <1>4, <1>6, <2>1, <2>2, DayAssumption
    DEF SchedInv, TimerInv, DueInv, ProcInv, Due, SchedTypeOK
  <2> QED
    BY <1>3, <1>5, <2>2, <2>3
<1>7. CASE ~Due /\ sched = "off"
  <2>1. UNCHANGED <<sched, delay, overdue, crossed, proc>>
    BY <1>2, <1>7 DEF TimePasses, Tick, SchedInv, ProcInv, appVars
  <2>2. SchedInv'
    BY <1>7, <2>1 DEF SchedInv, TimerInv, DueInv, ProcInv, Due
  <2> QED
    BY <1>3, <1>5, <2>1, <2>2
<1>8. CASE ~Due /\ sched # "off"
  <2>1. sched = "sleep" /\ delay > 0
    BY <1>1, <1>8 DEF Due, SchedTypeOK
  <2>2. /\ sched' = sched /\ delay' = delay - 1 /\ late' = 0 /\ proc = "running"
        /\ UNCHANGED <<stop, crossed, proc>>
    BY <1>2, <1>8, <2>1 DEF Tick, SchedInv, ProcInv, appVars
  <2>3. overdue' = IF tod' = stop THEN overdue + 1 ELSE overdue
    BY <2>2 DEF TimePasses
  <2>4. tod' = IF tod = DayLength - 1 THEN 0 ELSE tod + 1
    BY <1>2 DEF Tick
  <2>5. delay' = 0 => tod' = stop /\ overdue' > 0 /\ overdue' <= (IF crossed THEN 2 ELSE 1)
    BY <1>1, <2>1, <2>2, <2>3, <2>4, DayAssumption
    DEF SchedInv, TimerInv, SchedTypeOK, Times
  <2>6. tod' = stop => SinceStop' = 0
    BY <1>1, <1>2, SinceStopTicks
  <2>7. TimerInv'
    BY <1>1, <2>1, <2>2, <2>3, <2>4, DayAssumption
    DEF SchedInv, TimerInv, SchedTypeOK, Times
  <2>8. DueInv' /\ ProcInv'
    BY <2>1, <2>2, <2>5, <2>6, DayAssumption DEF SchedInv, DueInv, ProcInv, Due
  <2>9. overdue' \in 0 .. 2
    BY <1>1, <2>1, <2>3 DEF SchedInv, TimerInv
  <2> QED
    BY <1>3, <1>5, <2>7, <2>8, <2>9 DEF SchedInv
<1> QED
  BY <1>6, <1>7, <1>8

LEMMA LifeScheduler ==
  ASSUME LifeInv, SchedulerStep
  PROVE  LifeInv'
<1> USE DEF LifeInv, TypeOK
<1>1. /\ WatchTypeOK' /\ AppTypeOK'
      /\ UNCHANGED <<tod, stop, proc>>
  BY DEF SchedulerStep, Fires, ScalesDown, Reschedules, TimerFires, ScaleDeploymentToZero,
         Reschedule, WatchTypeOK, watchVars, AppTypeOK, appVars
<1>2. CASE Fires
  <2>1. TypeOK'
    <3>1. SchedTypeOK'
      BY <1>1, <1>2 DEF Fires, TimerFires, SchedTypeOK
    <3>2. overdue' \in 0 .. 2 /\ crossed' \in BOOLEAN
      BY <1>2, ForgottenType DEF Fires
    <3> QED
      BY <1>1, <3>1, <3>2
  <2>2. SchedInv'
    BY <1>1, <1>2
    DEF Fires, TimerFires, Forgotten, SchedInv, TimerInv, DueInv, ProcInv, Due, SinceStop
  <2> QED
    BY <2>1, <2>2
<1>3. CASE ScalesDown
  <2>1. TypeOK'
    BY <1>1, <1>3 DEF ScalesDown, ScaleDeploymentToZero, historyVars, SchedTypeOK
  <2>2. SchedInv'
    BY <1>1, <1>3
    DEF ScalesDown, ScaleDeploymentToZero, historyVars, SchedInv, TimerInv, DueInv, ProcInv,
        Due, SinceStop
  <2> QED
    BY <2>1, <2>2
<1>4. CASE Reschedules
  <2>1. /\ sched = "patched" /\ sched' = "sleep" /\ late' = 0
        /\ delay' = DurationAfterStop
        /\ crossed' = (tod < stop)
        /\ UNCHANGED <<overdue, replicas>>
    BY <1>4 DEF Reschedules, Reschedule
  <2>2. delay' \in 1 .. 2 * DayLength - 1
    BY <2>1, NextDelay
  <2>3. SchedTypeOK'
    BY <1>1, <2>1, <2>2, DayAssumption DEF SchedTypeOK
  <2>4. crossed' \in BOOLEAN /\ overdue' \in 0 .. 2
    BY <2>1
  <2>5. overdue' = 0 /\ proc' = "running"
    BY <1>1, <2>1 DEF SchedInv, DueInv, ProcInv
  <2>6. TimerInv'
    <3>1. delay' = stop' + DayLength - tod'
      BY <1>1, <2>1 DEF DurationAfterStop
    <3>2. CASE tod < stop
      BY <1>1, <2>1, <2>5, <3>1, <3>2 DEF TimerInv
    <3>3. CASE stop <= tod
      BY <1>1, <2>5, <3>1, <3>3 DEF TimerInv
    <3> QED
      BY <3>2, <3>3 DEF SchedTypeOK, Times
  <2>7. DueInv' /\ ProcInv'
    BY <2>1, <2>2, <2>5 DEF DueInv, ProcInv, Due
  <2> QED
    BY <1>1, <2>3, <2>4, <2>6, <2>7 DEF SchedInv
<1> QED
  BY <1>2, <1>3, <1>4 DEF SchedulerStep

LEMMA LifeUser ==
  ASSUME LifeInv, NEW u \in Users, UserStep(u)
  PROVE  LifeInv'
<1>1. /\ AppTypeOK' /\ replicas' \in 0 .. 1
      /\ Idle /\ UNCHANGED <<watchVars, proc>>
  BY UserStepType DEF LifeInv, TypeOK, SchedTypeOK
<1>2. TypeOK'
  BY <1>1 DEF LifeInv, TypeOK, SchedTypeOK, WatchTypeOK, watchVars, Idle, historyVars
<1>3. SchedInv'
  BY <1>1, IdleKeepsInv DEF LifeInv
<1> QED
  BY <1>2, <1>3 DEF LifeInv

\* Of the process, and of the server and its watcher.
LEMMA LifeOther ==
  ASSUME LifeInv, \/ ServerChanges \/ WatcherHandles
                  \/ ShutdownCloses \/ ShutdownExpires \/ MainReturns
  PROVE  LifeInv'
<1> USE DEF LifeInv, TypeOK
<1>1. UNCHANGED <<schedVars, historyVars>>
  BY DEF ServerChanges, WatcherHandles, ShutdownCloses, ShutdownExpires, MainReturns
<1>2. proc' = "running" <=> proc = "running"
  BY DEF ServerChanges, WatcherHandles, ShutdownCloses, ShutdownExpires, MainReturns, Ends, appVars
<1>3. SchedInv'
  BY <1>1, <1>2, IdleKeepsInv DEF Idle, schedVars
<1>4. SchedTypeOK' /\ overdue' \in 0 .. 2 /\ crossed' \in BOOLEAN
  BY <1>1 DEF SchedTypeOK, schedVars, historyVars
<1>5. CASE ServerChanges \/ WatcherHandles
  <2>1. WatchTypeOK'
    BY <1>5 DEF ServerChanges, WatcherHandles, Changes, Handles, WatchTypeOK
  <2>2. AppTypeOK'
    BY <1>5 DEF ServerChanges, WatcherHandles, AppTypeOK, appVars
  <2> QED
    BY <1>3, <1>4, <2>1, <2>2
<1>6. CASE ShutdownCloses \/ ShutdownExpires \/ MainReturns
  <2>1. WatchTypeOK'
    BY <1>6 DEF ShutdownCloses, ShutdownExpires, MainReturns, WatchTypeOK, watchVars
  <2>2. AppTypeOK'
    BY <1>6, EndsType DEF ShutdownCloses, ShutdownExpires, MainReturns, AppTypeOK
  <2> QED
    BY <1>3, <1>4, <2>1, <2>2
<1> QED
  BY <1>5, <1>6

LEMMA LifeEnds ==
  ASSUME LifeInv, Signal \/ Killed
  PROVE  LifeInv'
<1> USE DEF LifeInv, TypeOK
<1>1. SchedEnd /\ Forgotten /\ UNCHANGED watchVars
  BY DEF Signal, Killed
<1>2. AppTypeOK' /\ proc' # "running"
  BY EndsType DEF Signal, Killed, Ends, AppTypeOK
<1>3. SchedTypeOK' /\ WatchTypeOK' /\ overdue' \in 0 .. 2 /\ crossed' \in BOOLEAN
  <2>1. SchedTypeOK' /\ WatchTypeOK'
    BY <1>1, DayAssumption DEF SchedEnd, SchedTypeOK, WatchTypeOK, watchVars
  <2> QED
    BY <1>1, <2>1, ForgottenType
<1>4. SchedInv'
  BY <1>1, <1>2 DEF SchedEnd, Forgotten, SchedInv, TimerInv, DueInv, ProcInv, Due
<1> QED
  BY <1>2, <1>3, <1>4

LEMMA LifeStarts ==
  ASSUME LifeInv, Starts
  PROVE  LifeInv'
<1> USE DEF LifeInv, TypeOK
<1>1. /\ proc' = "running" /\ sched' = "sleep" /\ late' = 0
      /\ delay' = DurationUntilNextStop
      /\ overdue' = IF delay' = 0 THEN 1 ELSE 0
      /\ UNCHANGED <<tod, stop, replicas, page, crossed>>
  BY DEF Starts, SchedStart
<1>2. ~crossed
  BY DEF Starts, SchedInv, ProcInv
<1>3. SchedTypeOK'
  BY <1>1, FirstDelay, DayAssumption DEF SchedTypeOK
<1>4. AppTypeOK' /\ overdue' \in 0 .. 2 /\ crossed' \in BOOLEAN
  BY <1>1 DEF AppTypeOK
<1>5. WatchTypeOK'
  BY DEF Starts, Restarted, WatchTypeOK
<1>6. SinceStop' = SinceStop
  BY <1>1 DEF SinceStop
<1>7. SchedInv'
  BY <1>1, <1>2, <1>6, FirstDelay, DayAssumption
  DEF SchedInv, TimerInv, DueInv, ProcInv, Due, SchedTypeOK, Times
<1> QED
  BY <1>3, <1>4, <1>5, <1>7

LEMMA LifeNext == LifeInv /\ [Next]_vars => LifeInv'
<1> SUFFICES ASSUME LifeInv, [Next]_vars PROVE LifeInv'
  OBVIOUS
<1>1. CASE UNCHANGED vars
  BY <1>1 DEF vars, watchVars, schedVars, appVars, historyVars, LifeInv, TypeOK, WatchTypeOK,
              SchedTypeOK, AppTypeOK, SchedInv, TimerInv, DueInv, ProcInv, Due, SinceStop
<1>2. CASE TimePasses
  BY <1>2, LifeTimePasses
<1>3. CASE SchedulerStep
  BY <1>3, LifeScheduler
<1>4. CASE \E u \in Users : UserStep(u)
  BY <1>4, LifeUser
<1>5. CASE ServerChanges \/ WatcherHandles \/ Shutdown
  BY <1>5, LifeOther DEF Shutdown
<1>6. CASE Signal \/ Killed
  BY <1>6, LifeEnds
<1>7. CASE Starts
  BY <1>7, LifeStarts
<1> QED
  BY <1>1, <1>2, <1>3, <1>4, <1>5, <1>6, <1>7 DEF Next, UserStep

LEMMA Life == Spec => []LifeInv
<1>1. Init => LifeInv
  BY LifeInit
<1>2. LifeInv /\ [Next]_vars => LifeInv'
  BY LifeNext
<1> QED
  BY <1>1, <1>2, PTL DEF Spec

----------------------------------------------------------------------------
(* The theorems                                                            *)

\* Type correctness of the History Server's life.
THEOREM LifecycleType == Spec => []TypeOK
<1>1. LifeInv => TypeOK
  BY DEF LifeInv
<1> QED
  BY <1>1, Life, PTL

\* While the process runs no scheduled time passes without a scale-down, but for
\* the one after a scale-down that returned past midnight.
THEOREM NoStopMissed == Spec => []MissesNoStop
<1>1. LifeInv => MissesNoStop
  <2> SUFFICES ASSUME LifeInv PROVE MissesNoStop
    OBVIOUS
  <2> USE DEF LifeInv, TypeOK, SchedTypeOK, SchedInv
  <2>1. CASE sched = "sleep" /\ delay > 0
    BY <2>1 DEF TimerInv, MissesNoStop
  <2>2. CASE sched = "sleep" /\ delay = 0
    BY <2>2 DEF DueInv, MissesNoStop
  <2>3. CASE sched \in {"patch", "patched"}
    BY <2>3 DEF DueInv, MissesNoStop
  <2>4. CASE sched = "off"
    BY <2>4 DEF ProcInv, MissesNoStop
  <2> QED
    BY <2>1, <2>2, <2>3, <2>4, DayAssumption
<1> QED
  BY <1>1, Life, PTL

\* The timer fires for a scheduled time, and once for each.
THEOREM OneStopPerSchedule == Spec => StopsOncePerSchedule
<1>1. LifeInv /\ [Next]_vars => [TimerFires => overdue > 0]_vars
  BY DEF LifeInv, SchedInv, DueInv, TimerFires
<1> QED
  BY <1>1, Life, PTL DEF Spec, StopsOncePerSchedule

\* The server is scaled down between the scheduled time and the end of the grace
\* period and the lag, and at no other time.
THEOREM StopsOnlyInWindow == Spec => StopsInWindow
<1>1. ASSUME LifeInv, Next, replicas' < replicas
      PROVE  SinceStop < Grace + MaxLag
  <2> USE DEF LifeInv, TypeOK
  <2>1. replicas \in 0 .. 1 /\ late \in 0 .. MaxLag
    BY <1>1 DEF SchedTypeOK
  <2>2. ~UNCHANGED replicas
    BY <1>1, <2>1
  <2>3. ~\E u \in Users : UserStep(u)
    BY <1>1, <2>1, UserStepType
  <2>4. ScalesDown
    BY <1>1, <2>2, <2>3
    DEF Next, UserStep, ServerChanges, WatcherHandles, Signal, Shutdown, ShutdownCloses,
        ShutdownExpires, MainReturns, Killed, Starts, SchedStart, SchedEnd, TimePasses, Tick,
        SchedulerStep, Fires, TimerFires, Reschedules, Reschedule, schedVars
  <2>5. SinceStop < Grace + late
    BY <1>1, <2>4 DEF ScalesDown, ScaleDeploymentToZero, SchedInv, DueInv, Due
  <2>6. SinceStop \in 0 .. DayLength - 1
    BY <1>1, SinceStopType
  <2> QED
    BY <2>1, <2>5, <2>6, DayAssumption
<1>2. LifeInv /\ [Next]_vars => [replicas' < replicas => SinceStop < Grace + MaxLag]_vars
  BY <1>1
<1> QED
  BY <1>2, Life, PTL DEF Spec, StopsInWindow

=============================================================================
