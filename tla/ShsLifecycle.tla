---------------------------- MODULE ShsLifecycle ----------------------------
(***************************************************************************)
(* The life of the Spark History Server under this service: the scheduler  *)
(* stops it once a day, users wake it from the pages of the HTTP server    *)
(* (internal/server/server.go) and wait there until the SHS watcher has    *)
(* seen it ready, and the process that does all this is itself stopped,    *)
(* killed and started again (main.go).  The watcher is an Availability, as *)
(* ShsRoute is shown to be.                                                *)
(***************************************************************************)
EXTENDS Availability, StopScheduler

CONSTANT Users           \* browsers and other clients of the HTTP server

VARIABLES
  page,      \* what each user has before him, or the request he is waiting for
  proc,      \* the process, see the section on it
  overdue,   \* history: the scheduled times reached since the last scale-down or
             \* the start of the process, one for a start in the grace period
  crossed    \* history: the last scale-down returned on the day after its own

appVars == <<page, proc>>
historyVars == <<overdue, crossed>>
vars == <<watchVars, schedVars, appVars, historyVars>>

Pages == {"none",        \* nothing of ours
          "link",        \* a page with the link that starts the server
          "posting",     \* POST wake: the handler has found the server down
          "waiting",     \* the page that asks again every few seconds
          "history",     \* a link or a redirect to the server itself
          "error"}       \* an error: nothing asks again

AppTypeOK ==
  /\ page \in [Users -> Pages]
  /\ proc \in {"running", "stopping", "closed", "expired", "down"}

TypeOK ==
  /\ WatchTypeOK
  /\ SchedTypeOK
  /\ AppTypeOK
  /\ overdue \in 0 .. 2
  /\ crossed \in BOOLEAN

AppInit ==
  /\ page = [u \in Users |-> "none"]
  /\ proc = "running"

Forgotten == overdue' = 0 /\ crossed' = FALSE

Shows(u, p) == page' = [page EXCEPT ![u] = p]

----------------------------------------------------------------------------
(* The cluster                                                             *)

\* Endpoints come only with a replica; they may go at any time.
ServerChanges ==
  /\ Changes
  /\ ready' => ready \/ replicas = 1
  /\ UNCHANGED <<schedVars, appVars, historyVars>>

\* The informer runs until the context is cancelled.
WatcherHandles ==
  /\ proc = "running"
  /\ Handles
  /\ UNCHANGED <<schedVars, appVars, historyVars>>

\* The last of the waiting changes.
WatcherCatchesUp == WatcherHandles /\ ~behind'

----------------------------------------------------------------------------
(* The pages                                                               *)

\* Until Shutdown closes the listeners requests are accepted.
Serving == proc \in {"running", "stopping"}

\* What a request that finds the server down leads to, and one that finds it up.
Answers(u, down) == Shows(u, IF up THEN "history" ELSE down)

\* The dashboard, or the status page of a driver that is finished or not found.
LoadPage(u) == page[u] = "none" /\ Answers(u, "link")

\* The link is followed with a GET, which patches nothing (serveWakeGet).
FollowLink(u) == page[u] = "link" /\ Answers(u, "waiting")

\* Mutant: the page is rendered without a look at the state.
PollBlindly(u) == page[u] = "waiting" /\ Shows(u, "waiting")

\* The waiting page and the redirect after a POST ask again with a GET.
Poll(u) == page[u] = "waiting" /\ Answers(u, "waiting")

\* POST wake.  None of the pages has a form that sends one.
PostWake(u) == page[u] = "none" /\ Answers(u, "posting")

Request(u) ==
  /\ Serving
  /\ LoadPage(u) \/ FollowLink(u) \/ PostWake(u)
  /\ UNCHANGED <<watchVars, schedVars, proc, historyVars>>

Polls(u) == Serving /\ Poll(u) /\ UNCHANGED <<watchVars, schedVars, proc, historyVars>>

\* An error, which may hide that the patch took effect, is the answer.
WakePatch(u) ==
  /\ page[u] = "posting"
  /\ \/ replicas' = 1 /\ Shows(u, "waiting")
     \/ replicas' \in {1, replicas} /\ Shows(u, "error")
  /\ UNCHANGED <<watchVars, tod, stop, sched, delay, late, proc, historyVars>>

\* The browser finds nobody there: its error page does not ask again.
PollFails(u) ==
  /\ ~Serving
  /\ page[u] = "waiting"
  /\ Shows(u, "error")
  /\ UNCHANGED <<watchVars, schedVars, proc, historyVars>>

Leave(u) ==
  /\ page[u] \in Pages \ {"none", "posting"}
  /\ Shows(u, "none")
  /\ UNCHANGED <<watchVars, schedVars, proc, historyVars>>

----------------------------------------------------------------------------
(* The process: running; stopping, the context being cancelled; closed, the *)
(* listeners being closed by Shutdown, which then waits for the requests;   *)
(* expired, when it has waited five seconds; down.                          *)

Signal ==
  /\ proc = "running"
  /\ proc' = "stopping"
  /\ SchedEnd
  /\ Forgotten
  /\ UNCHANGED <<watchVars, page>>

ShutdownCloses ==
  /\ proc = "stopping"
  /\ proc' = "closed"
  /\ UNCHANGED <<watchVars, schedVars, page, historyVars>>

ShutdownExpires ==
  /\ proc = "closed"
  /\ proc' = "expired"
  /\ UNCHANGED <<watchVars, schedVars, page, historyVars>>

\* A process that ends takes the requests in flight with it.
Ends ==
  /\ proc' = "down"
  /\ page' = [u \in Users |-> IF page[u] = "posting" THEN "error" ELSE page[u]]

\* main returns when ListenAndServe does, which is as soon as the listeners are
\* closed.
MainReturns ==
  /\ proc \in {"closed", "expired"}
  /\ Ends
  /\ UNCHANGED <<watchVars, schedVars, historyVars>>

Killed ==
  /\ proc # "down"
  /\ Ends
  /\ SchedEnd
  /\ Forgotten
  /\ UNCHANGED watchVars

Starts ==
  /\ proc = "down"
  /\ proc' = "running"
  /\ Restarted
  /\ SchedStart
  /\ overdue' = IF delay' = 0 THEN 1 ELSE 0
  /\ UNCHANGED <<page, crossed>>

----------------------------------------------------------------------------

(* The scheduler                                                           *)

TimePasses ==
  /\ Tick
  /\ overdue' = IF proc = "running" /\ tod' = stop THEN overdue + 1 ELSE overdue
  /\ UNCHANGED <<watchVars, appVars, crossed>>

Fires ==
  /\ TimerFires
  /\ Forgotten
  /\ UNCHANGED <<watchVars, appVars>>

ScalesDown ==
  /\ ScaleDeploymentToZero
  /\ UNCHANGED <<watchVars, appVars, historyVars>>

Reschedules ==
  /\ Reschedule
  /\ crossed' = (tod < stop)
  /\ UNCHANGED <<watchVars, appVars, overdue>>

SchedulerStep == Fires \/ ScalesDown \/ Reschedules

Shutdown == ShutdownCloses \/ ShutdownExpires \/ MainReturns

Next ==
  \/ ServerChanges
  \/ WatcherHandles
  \/ \E u \in Users : Request(u) \/ Polls(u) \/ WakePatch(u) \/ PollFails(u) \/ Leave(u)
  \/ Signal
  \/ Shutdown
  \/ Killed
  \/ Starts
  \/ TimePasses
  \/ SchedulerStep

Init ==
  /\ WatchInit
  /\ SchedInit
  /\ AppInit
  /\ overdue = IF delay = 0 THEN 1 ELSE 0
  /\ crossed = FALSE

Spec == Init /\ [][Next]_vars

\* Time passes, the goroutines that can run do, browsers poll, and the cluster
\* starts the process again.  Nothing is assumed of the server, of what users
\* choose to do, of errors and of signals.
Fairness ==
  /\ WF_vars(TimePasses)
  /\ WF_vars(SchedulerStep)
  /\ WF_vars(WatcherCatchesUp)
  /\ \A u \in Users : WF_vars(Polls(u) \/ WakePatch(u) \/ PollFails(u))
  /\ WF_vars(Shutdown \/ Starts)

FairSpec == Spec /\ Fairness

----------------------------------------------------------------------------
(* Properties                                                              *)

\* The server is only stopped around the scheduled time (scheduler.go): between it
\* and the end of the grace period, give or take the lag, whatever restarts and
\* late timers do.  A user who wakes it at another time keeps it.
StopsInWindow == [][replicas' < replicas => SinceStop < Grace + MaxLag]_vars

\* One scheduled time makes a process scale down once: a server that is woken again
\* in the grace period is stopped a second time by a restart only.
StopsOncePerSchedule == [][TimerFires => overdue > 0]_vars

\* No scheduled time passes without a scale-down while the process runs, but for the
\* one that follows a scale-down which returned after midnight.
MissesNoStop == overdue <= IF crossed THEN 2 ELSE 1

\* A user on the waiting page gets to the server, however it came to be down or
\* up, if in the end it stays ready and the process runs: the page asks again,
\* and the watcher tells it.
ServerStays == <>[](proc = "running" /\ ready) /\ <>[][~ServerChanges]_vars

WaitingUserArrives ==
  ServerStays => \A u \in Users : page[u] = "waiting" ~> page[u] # "waiting"

----------------------------------------------------------------------------
(* What the documents and comments say, and the runs refute.               *)

\* DESIGN.md: the HTTP server is given five seconds before the process exits.  It
\* exits before the requests in flight are answered and before the time is up.
ShutdownWindow ==
  [][MainReturns => proc = "expired" \/ \A u \in Users : page[u] # "posting"]_vars

\* values.yaml: a click on the link patches the Deployment to scale it up.  It
\* leads to the page that waits for somebody else to do so.
LinkStartsServer ==
  \A u \in Users : page[u] = "waiting" ~> replicas = 1 \/ page[u] # "waiting"

----------------------------------------------------------------------------
(* Why the first three hold.                                               *)

\* A timer that runs ends at a scheduled time, the next one but after a scale-down
\* that returned on the day after its own.
TimerInv ==
  sched = "sleep" /\ delay > 0 =>
    \/ tod < stop /\ delay = stop - tod /\ overdue <= (IF crossed THEN 1 ELSE 0)
    \/ /\ stop <= tod /\ delay = stop + DayLength - tod
       /\ overdue <= (IF crossed THEN 1 ELSE 0)
    \/ tod < stop /\ delay = stop + DayLength - tod /\ overdue = 0 /\ crossed

\* A timer that has ended did so at a scheduled time or, at the start, in the grace
\* period, and the scale-down is late by no more than the lag.
DueInv ==
  /\ Due => delay = 0 /\ SinceStop < Grace + late
  /\ sched = "sleep" /\ delay = 0 =>
       overdue > 0 /\ overdue <= (IF crossed THEN 2 ELSE 1)
  /\ sched \in {"patch", "patched"} => overdue = 0 /\ ~crossed

ProcInv ==
  /\ sched = "off" <=> proc # "running"
  /\ sched = "off" => delay = 0 /\ overdue = 0 /\ ~crossed

SchedInv == TimerInv /\ DueInv /\ ProcInv

=============================================================================
