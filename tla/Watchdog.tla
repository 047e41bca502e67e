------------------------------ MODULE Watchdog ------------------------------
(***************************************************************************)
(* pkg/watchdog/watchdog.go: the record of each backup's last success and  *)
(* failures, which the goroutines of the runs update, and the goroutine of *)
(* StartPeriodicCheck, which looks for backups without a recent success.   *)
(* Both decide under the mutex what to tell and tell it after unlocking,   *)
(* so that the calls to the alerter interleave with everything else.  How  *)
(* old a success may be follows from the schedule, by the estimate the     *)
(* scheduler registers (estimateCronInterval in pkg/scheduler).            *)
(*                                                                         *)
(* Time is counted in units in which intervals and the ticker's period are *)
(* whole; the wording of messages is left out, their severity is not.      *)
(***************************************************************************)
EXTENDS Integers, FiniteSets, FiniteSetsExt

CONSTANTS
  Jobs,          \* names of the registered backups
  Schedule,      \* of each one: the times of a cycle at which cron starts a run
  Starts,        \* at what times of their cycles the daemon may be started
  Clamp,         \* the bounds of an interval, a minute and a week
  Period,        \* of the ticker of StartPeriodicCheck
  MaxTime,       \* bounds on a behaviour: the clock,
  MaxFails,      \*   failures in a row of each backup,
  MaxSuccesses   \*   and its successes

ASSUME WatchdogAssumption ==
  /\ IsFiniteSet(Jobs)
  /\ \A j \in Jobs :
       /\ Schedule[j].cycle \in Nat \ {0}
       /\ Schedule[j].at # {} /\ Schedule[j].at \subseteq 0..(Schedule[j].cycle - 1)
  /\ Starts \subseteq Nat
  /\ Clamp.least \in Nat \ {0} /\ Clamp.most \in Nat /\ Clamp.least <= Clamp.most
  /\ Period \in Nat \ {0}
  /\ {MaxTime, MaxSuccesses} \subseteq Nat
  /\ MaxFails \in [Jobs -> Nat]

VARIABLES
  started,         \* when the daemon was started, on the clock of the schedules
  now,             \* the time since then
  interval,        \* the longest gap of each schedule, as estimated at the start
  since,           \* lastSuccess of each job, or registeredAt before the first one
  consecutiveFails,
  lastAlertLevel,
  failing,         \* the failure count a run is telling the alerter, 0 for none
  due,             \* the ticker's channel holds a tick
  checker,         \* the goroutine of StartPeriodicCheck
  alerts,          \* what CheckAll has decided to tell and has not told yet
  stopped,         \* stopCh is closed
  missed,          \* history: jobs of which a run that was due has not succeeded in time,
  epoch,           \* history: how many successes of each job were recorded,
  lastSent,        \* history: the last stale alert of each job given to the alerter,
  told             \* history: severity of its last failure alert since a success

jobVars   == <<since, consecutiveFails, lastAlertLevel, failing>>
checkVars == <<due, checker, alerts, stopped>>
histVars  == <<epoch, lastSent, told>>
regVars   == <<started, interval>>
vars      == <<now, regVars, jobVars, checkVars, missed, histVars>>

------------------------------------------------------------------------------
(* The interval a job is registered with. *)

Scheduled(j, t) == (started + t) % Schedule[j].cycle \in Schedule[j].at

\* cron's Next, on the clock of the schedule.
NextRun(s, t) == Min({u \in (t + 1)..(t + s.cycle) : u % s.cycle \in s.at})

\* How many gaps are looked at.
Samples == 8

\* Faulty: the first gap stands for all of them.
EstimateFirst(s, t) == NextRun(s, NextRun(s, t)) - NextRun(s, t)

\* The longest of the gaps after the next runs, within the bounds.
EstimateInterval(s, t) ==
  LET upcoming == {u \in (t + 1)..(t + Samples * s.cycle) : u % s.cycle \in s.at}
      next     == {u \in upcoming : Cardinality({v \in upcoming : v < u}) < Samples}
      longest  == Max({NextRun(s, u) - u : u \in next})
  IN  Max({Clamp.least, Min({Clamp.most, longest})})

\* Levels of stale alerts (lastAlertLevel): 0 none, 1 WARN, 2 ERROR, 3 CRITICAL.
Levels == 0..3

Missing(j, t) == t - since[j] > 2 * interval[j]
LevelAt(j, t) == IF t - since[j] > 4 * interval[j] THEN 3
                 ELSE IF t - since[j] > 2 * interval[j] THEN 2 ELSE 1

Severity(fails) == IF fails >= 6 THEN "CRITICAL" ELSE IF fails >= 3 THEN "ERROR" ELSE "ALERT"

Alerts == [job : Jobs, level : Levels, epoch : 0..MaxSuccesses]

TypeOK ==
  /\ started \in Starts
  /\ now \in 0..MaxTime
  /\ interval \in [Jobs -> Clamp.least..Clamp.most]
  /\ since \in [Jobs -> 0..MaxTime]
  /\ consecutiveFails \in [Jobs -> Nat]
  /\ lastAlertLevel \in [Jobs -> Levels]
  /\ failing \in [Jobs -> Nat]
  /\ \A j \in Jobs : {consecutiveFails[j], failing[j]} \subseteq 0..MaxFails[j]
  /\ due \in BOOLEAN
  /\ checker \in {"waiting", "telling", "ended"}
  /\ alerts \subseteq Alerts
  /\ stopped \in BOOLEAN
  /\ missed \subseteq Jobs
  /\ epoch \in [Jobs -> 0..MaxSuccesses]
  /\ lastSent \in [Jobs -> [level : Levels, epoch : 0..MaxSuccesses]]
  /\ told \in [Jobs -> {"none", "ALERT", "ERROR", "CRITICAL"}]

\* After Register and StartPeriodicCheck.
Init ==
  /\ started \in Starts
  /\ now = 0
  /\ interval = [j \in Jobs |-> EstimateInterval(Schedule[j], started)]
  /\ since = [j \in Jobs |-> 0]
  /\ consecutiveFails = [j \in Jobs |-> 0]
  /\ lastAlertLevel = [j \in Jobs |-> 0]
  /\ failing = [j \in Jobs |-> 0]
  /\ due = FALSE
  /\ checker = "waiting"
  /\ alerts = {}
  /\ stopped = FALSE
  /\ missed = {}
  /\ epoch = [j \in Jobs |-> 0]
  /\ lastSent = [j \in Jobs |-> [level |-> 0, epoch |-> 0]]
  /\ told = [j \in Jobs |-> "none"]

\* No success since the last time a run of j was due.
Overdue(j) ==
  LET past == {t \in 1..now : Scheduled(j, t)}
  IN  past # {} /\ since[j] < Max(past)

------------------------------------------------------------------------------
(* Faulty forms of definitions below, each a bug the code could have had: put in the    *)
(* place of the one it is named after, each makes a property fail.                      *)

\* A ticker without a buffer: a tick is lost while CheckAll tells.
TickUnbuffered ==
  /\ now < MaxTime
  /\ now' = now + 1
  /\ due' = (due \/ (now' % Period = 0 /\ checker = "waiting"))
  /\ missed' = missed \cup {j \in Jobs : Scheduled(j, now') /\ Overdue(j)}
  /\ UNCHANGED <<regVars, jobVars, checker, alerts, stopped, histVars>>

\* The count is read before it is advanced.
RecordFailureStale(j) ==
  /\ failing[j] = 0
  /\ consecutiveFails[j] < MaxFails[j]
  /\ consecutiveFails' = [consecutiveFails EXCEPT ![j] = @ + 1]
  /\ failing' = [failing EXCEPT ![j] = consecutiveFails[j]]
  /\ UNCHANGED <<now, regVars, missed, since, lastAlertLevel, checkVars, histVars>>

\* level < lastAlertLevel instead of level <= lastAlertLevel.
EscalatedOrEqual == {j \in Jobs : Missing(j, now) /\ LevelAt(j, now) >= lastAlertLevel[j]}

\* The level goes up by one at each check instead of following the time.
CheckAllStepsUp ==
  /\ checker = "waiting"
  /\ due
  /\ due' = FALSE
  /\ lastAlertLevel' = [j \in Jobs |-> lastAlertLevel[j] + (IF Missing(j, now) THEN 1 ELSE 0)]
  /\ alerts' = {[job |-> j, level |-> lastAlertLevel'[j], epoch |-> epoch[j]] :
                  j \in {k \in Jobs : Missing(k, now)}}
  /\ checker' = "telling"
  /\ UNCHANGED <<now, regVars, missed, since, consecutiveFails, failing, stopped, histVars>>

\* break in the select leaves the select, not the loop.
EndLoopBreaks ==
  /\ checker = "waiting"
  /\ stopped
  /\ UNCHANGED vars

------------------------------------------------------------------------------
\* The clock; the ticker drops a tick when its channel still holds one.
Tick ==
  /\ now < MaxTime
  /\ now' = now + 1
  /\ due' = (due \/ now' % Period = 0)
  /\ missed' = missed \cup {j \in Jobs : Scheduled(j, now') /\ Overdue(j)}
  /\ UNCHANGED <<regVars, jobVars, checker, alerts, stopped, histVars>>

\* A run of j is not in RecordFailure: Scheduler lets one run of a name go at a time.
Free(j) == failing[j] = 0

RecordSuccess(j) ==
  /\ Free(j)
  /\ epoch[j] < MaxSuccesses
  /\ since' = [since EXCEPT ![j] = now]
  /\ consecutiveFails' = [consecutiveFails EXCEPT ![j] = 0]
  /\ lastAlertLevel' = [lastAlertLevel EXCEPT ![j] = 0]
  /\ epoch' = [epoch EXCEPT ![j] = @ + 1]
  /\ told' = [told EXCEPT ![j] = "none"]
  /\ UNCHANGED <<now, regVars, missed, failing, checkVars, lastSent>>

\* RecordFailure up to Unlock, with the count it has read ...
RecordFailure(j) ==
  /\ Free(j)
  /\ consecutiveFails[j] < MaxFails[j]
  /\ consecutiveFails' = [consecutiveFails EXCEPT ![j] = @ + 1]
  /\ failing' = [failing EXCEPT ![j] = consecutiveFails[j] + 1]
  /\ UNCHANGED <<now, regVars, missed, since, lastAlertLevel, checkVars, histVars>>

\* ... and its sendAlert, which is not repeated if the alerter fails.
TellFailure(j) ==
  /\ failing[j] # 0
  /\ told' = [told EXCEPT ![j] = Severity(failing[j])]
  /\ failing' = [failing EXCEPT ![j] = 0]
  /\ UNCHANGED <<now, regVars, missed, since, consecutiveFails, lastAlertLevel, checkVars, epoch, lastSent>>

\* The jobs CheckAll has to tell about: missing, and worse than when last told.
Escalated == {j \in Jobs : Missing(j, now) /\ LevelAt(j, now) > lastAlertLevel[j]}

\* case <-ticker.C: CheckAll up to Unlock.  select may prefer a tick to a closed stopCh.
CheckAll ==
  /\ checker = "waiting"
  /\ due
  /\ due' = FALSE
  /\ lastAlertLevel' = [j \in Jobs |-> IF j \in Escalated THEN LevelAt(j, now) ELSE lastAlertLevel[j]]
  /\ alerts' = {[job |-> j, level |-> LevelAt(j, now), epoch |-> epoch[j]] : j \in Escalated}
  /\ checker' = "telling"
  /\ UNCHANGED <<now, regVars, missed, since, consecutiveFails, failing, stopped, histVars>>

\* sendAlert for one of them, in the order in which the map was traversed.
TellStale ==
  /\ checker = "telling"
  /\ \E a \in alerts :
       /\ alerts' = alerts \ {a}
       /\ lastSent' = [lastSent EXCEPT ![a.job] = [level |-> a.level, epoch |-> a.epoch]]
  /\ UNCHANGED <<now, regVars, missed, jobVars, due, checker, stopped, epoch, told>>

\* CheckAll returns to the loop.
EndCheck ==
  /\ checker = "telling"
  /\ alerts = {}
  /\ checker' = "waiting"
  /\ UNCHANGED <<now, regVars, missed, jobVars, due, alerts, stopped, histVars>>

\* Stop: close(stopCh), once.
Stop ==
  /\ ~stopped
  /\ stopped' = TRUE
  /\ UNCHANGED <<now, regVars, missed, jobVars, due, checker, alerts, histVars>>

\* case <-w.stopCh: the goroutine returns.
EndLoop ==
  /\ checker = "waiting"
  /\ stopped
  /\ checker' = "ended"
  /\ UNCHANGED <<now, regVars, missed, jobVars, due, alerts, stopped, histVars>>

CheckerStep == CheckAll \/ TellStale \/ EndCheck \/ EndLoop
RunStep == \E j \in Jobs : RecordSuccess(j) \/ RecordFailure(j) \/ TellFailure(j)

\* The watchdog has been stopped; the process is about to end.
Ended == checker = "ended" /\ UNCHANGED vars

Next == Tick \/ RunStep \/ CheckerStep \/ Stop \/ Ended

Spec == Init /\ [][Next]_vars

\* Calls to the alerter return (its HTTP client times out) and the goroutine goes on; a
\* select that finds both channels ready picks one at random, so not always the ticker.
FairSpec == Spec /\ WF_vars(CheckerStep) /\ SF_vars(EndLoop)

------------------------------------------------------------------------------
(* Properties. *)

\* The last multiple of the period.
LastTick == now - (now % Period)

\* Whenever the goroutine is back at its select and has taken the last tick, the alerter
\* has been told of each backup that was missing then, with the severity it had then: a
\* slow alerter, dropped ticks and runs in between lose nothing (watchdog.go:120-219).
StaleIsTold ==
  checker = "waiting" /\ ~due =>
    \A j \in Jobs : Missing(j, LastTick) =>
      lastSent[j].epoch = epoch[j] /\ lastSent[j].level >= LevelAt(j, LastTick)

\* What alert a says is later than what was told of its job, or worse.
IsNews(a) ==
  \/ a.epoch > lastSent[a.job].epoch
  \/ a.epoch = lastSent[a.job].epoch /\ a.level > lastSent[a.job].level

\* Of two alerts on a stale backup with no success between what they report, the later is
\* the worse: none is repeated, though a run may succeed between CheckAll's decision and
\* its call of the alerter (watchdog.go:116, 166-170).
AlertsEscalate ==
  [][\A a \in alerts \ alerts' : IsNews(a)]_vars

\* The failure count a run tells is the current one when it is told, although the mutex
\* is not held any more; once told, the severity is that of the failures in a row
\* (watchdog.go:81-112).
FailureAlertsAreCurrent ==
  \A j \in Jobs :
    IF failing[j] # 0
      THEN failing[j] = consecutiveFails[j]
      ELSE told[j] = CASE consecutiveFails[j] = 0 -> "none"
                       [] consecutiveFails[j] \in 1..2 -> "ALERT"
                       [] consecutiveFails[j] \in 3..5 -> "ERROR"
                       [] OTHER -> "CRITICAL"

(* The inductive invariant: why the alerts that are told lose and repeat nothing. *)

\* What CheckAll decided is news until it is told, one alert of each job, and agrees with
\* lastAlertLevel unless a run has succeeded since.
DecidedInv ==
  /\ checker # "telling" => alerts = {}
  /\ \A a, b \in alerts : a.job = b.job => a = b
  /\ \A a \in alerts :
       /\ IsNews(a)
       /\ a.epoch <= epoch[a.job]
       /\ a.epoch = epoch[a.job] => a.level <= lastAlertLevel[a.job]

\* lastAlertLevel, set before the alert is sent, is what was sent last or is to be sent.
SentInv ==
  \A j \in Jobs :
    /\ lastSent[j].epoch <= epoch[j]
    /\ lastSent[j].epoch = epoch[j] => lastSent[j].level <= lastAlertLevel[j]
    /\ lastAlertLevel[j] > 0 =>
         \/ lastSent[j] = [level |-> lastAlertLevel[j], epoch |-> epoch[j]]
         \/ [job |-> j, level |-> lastAlertLevel[j], epoch |-> epoch[j]] \in alerts

\* Once a tick was taken, every job missing at its time has the level it had then.
CheckedInv ==
  ~due => \A j \in Jobs : Missing(j, LastTick) => lastAlertLevel[j] >= LevelAt(j, LastTick)

\* Two runs of a job were not due since its last success, unless it has missed one.
MissedInv ==
  \A j \in Jobs :
    /\ since[j] <= now
    /\ j \in missed \/ \A t, u \in 1..now :
                         since[j] < t /\ Scheduled(j, t) /\ Scheduled(j, u) => u <= t

WatchdogInv ==
  /\ TypeOK
  /\ interval = [j \in Jobs |-> EstimateInterval(Schedule[j], started)]
  /\ FailureAlertsAreCurrent
  /\ DecidedInv
  /\ SentInv
  /\ CheckedInv
  /\ MissedInv

\* After Stop the goroutine ends, having told what it had decided (watchdog.go:207-226).
StopEndsChecks == stopped ~> checker = "ended" /\ alerts = {}

\* A backup each of whose runs succeeded before the next was due is never called stale:
\* the interval is "the maximum interval between cron runs", whose sampling "covers a full
\* week for daily schedules and catches weekend gaps" (scheduler.go:225-252).
NoFalseAlarm == [][\A a \in alerts' \ alerts : a.job \in missed]_vars

\* The cycle of the schedule is within the gaps looked at, and its gaps within the bounds.
Sampled(j) ==
  /\ Cardinality(Schedule[j].at) <= Samples
  /\ Schedule[j].cycle <= Clamp.most

\* It is not if it has such a schedule, however irregular, whenever the daemon started and
\* however late within its time each run succeeded.
NoFalseAlarmIfSampled ==
  [][\A a \in alerts' \ alerts : Sampled(a.job) => a.job \in missed]_vars

==============================================================================
