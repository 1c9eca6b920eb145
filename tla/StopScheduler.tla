--------------------------- MODULE StopScheduler ---------------------------
(***************************************************************************)
(* RunStopScheduler (internal/shs/scheduler.go): a goroutine that scales   *)
(* the History Server's Deployment to zero once a day.  Time is the time of*)
(* day in units of some minutes, and goes round.  The timer, the request to*)
(* the API server and the goroutine's own steps may be late, but all in all*)
(* by at most MaxLag units after the timer is due.                         *)
(***************************************************************************)
EXTENDS Naturals

CONSTANTS DayLength,     \* 24 hours
          Grace,         \* gracePeriod
          MaxLag         \* bound on the lateness

ASSUME DayAssumption ==
         /\ DayLength \in Nat /\ Grace \in Nat /\ MaxLag \in Nat
         /\ Grace > 0
         /\ Grace + MaxLag < DayLength

Times == 0 .. DayLength - 1

VARIABLES
  tod,       \* the time of day
  stop,      \* the configured hour and minute
  sched,     \* where the goroutine is: off when it does not run
  delay,     \* what is left of its timer
  late,      \* how long ago its timer was due
  replicas   \* whether the Deployment has a replica: 0 or 1

schedVars == <<tod, stop, sched, delay, late, replicas>>

SchedTypeOK ==
  /\ tod \in Times
  /\ stop \in Times
  /\ sched \in {"off", "sleep", "patch", "patched"}
  /\ delay \in 0 .. 2 * DayLength - 1
  /\ late \in 0 .. MaxLag
  /\ replicas \in 0 .. 1

\* The time since the last scheduled time, today's or yesterday's.
SinceStop == IF stop <= tod THEN tod - stop ELSE tod + DayLength - stop

\* Mutant: there is no grace period.
DelayWithoutEnd == IF stop <= tod THEN 0 ELSE stop - tod

\* Mutant: the first stop is tomorrow's, as after a scale-down.
DelayUntilTomorrow == stop + DayLength - tod

\* durationUntilNextStop: today's stop when it is ahead, now when it is less than
\* the grace period ago, tomorrow's otherwise.
DurationUntilNextStop ==
  IF stop <= tod /\ tod - stop < Grace THEN 0
  ELSE IF tod < stop THEN stop - tod
  ELSE stop + DayLength - tod

\* Mutant: a day is added to the stop that is already tomorrow's.
DurationAfterNextStop == stop + 2 * DayLength - tod

\* The delay after a scale-down: tomorrow's stop, from the day it is by now.
DurationAfterStop == stop + DayLength - tod

SchedInit ==
  /\ tod \in Times
  /\ stop \in Times
  /\ sched = "sleep"
  /\ delay = DurationUntilNextStop
  /\ late = 0
  /\ replicas \in 0 .. 1

\* The goroutine starts with its process, and ends when the context is cancelled:
\* a request in flight has taken effect before or never does.
SchedStart ==
  /\ sched' = "sleep"
  /\ delay' = DurationUntilNextStop
  /\ late' = 0
  /\ UNCHANGED <<tod, stop, replicas>>

SchedEnd ==
  /\ sched' = "off"
  /\ delay' = 0
  /\ late' = 0
  /\ UNCHANGED <<tod, stop, replicas>>

----------------------------------------------------------------------------

Due == sched \in {"patch", "patched"} \/ (sched = "sleep" /\ delay = 0)

Tick ==
  /\ Due => late < MaxLag
  /\ tod' = IF tod = DayLength - 1 THEN 0 ELSE tod + 1
  /\ late' = IF Due THEN late + 1 ELSE 0
  /\ delay' = IF delay > 0 THEN delay - 1 ELSE 0
  /\ UNCHANGED <<stop, sched, replicas>>

TimerFires ==
  /\ sched = "sleep"
  /\ delay = 0
  /\ sched' = "patch"
  /\ UNCHANGED <<tod, stop, delay, late, replicas>>

\* An error, which may hide that the patch took effect, is only logged.
ScaleDeploymentToZero ==
  /\ sched = "patch"
  /\ sched' = "patched"
  /\ replicas' \in {0, replicas}
  /\ UNCHANGED <<tod, stop, delay, late>>

\* Mutant: the next delay is computed as the first one is.
RescheduleAsFirst ==
  /\ sched = "patched"
  /\ sched' = "sleep"
  /\ delay' = DurationUntilNextStop
  /\ late' = 0
  /\ UNCHANGED <<tod, stop, replicas>>

Reschedule ==
  /\ sched = "patched"
  /\ sched' = "sleep"
  /\ delay' = DurationAfterStop
  /\ late' = 0
  /\ UNCHANGED <<tod, stop, replicas>>

=============================================================================
