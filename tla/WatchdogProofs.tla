--------------------------- MODULE WatchdogProofs ----------------------------
(***************************************************************************)
(* Proofs about Watchdog for every set of jobs, every schedule and every   *)
(* period of the check: what is told is current, escalates and loses       *)
(* nothing, and no backup that meets a sampled schedule is called stale.   *)
(***************************************************************************)
EXTENDS Watchdog, IntegerLemmas, FiniteSetTheorems

------------------------------------------------------------------------------
(* What the typing invariant says. *)

\* The level of a stale alert is a warning or worse (watchdog.go:155-164).
LEMMA LevelType ==
  ASSUME NEW j \in Jobs, NEW t \in Int
  PROVE  LevelAt(j, t) \in 1..3
BY DEF LevelAt

\* What the typing says of the clock, the records of a job and its last alert.
LEMMA Numbers ==
  ASSUME TypeOK
  PROVE  /\ now \in Nat
         /\ \A j \in Jobs :
              /\ since[j] \in Nat /\ interval[j] \in Nat /\ epoch[j] \in Nat
              /\ consecutiveFails[j] \in Nat /\ failing[j] \in Nat
              /\ lastAlertLevel[j] \in Nat /\ lastSent[j].level \in Nat
              /\ lastSent[j].epoch \in Nat
BY WatchdogAssumption DEF WatchdogAssumption, TypeOK, Levels

\* ... and of an alert that is still to be told.
LEMMA AlertParts ==
  ASSUME TypeOK, NEW a \in alerts
  PROVE  a.job \in Jobs /\ a.level \in Nat /\ a.epoch \in Nat
BY SMTT(30), WatchdogAssumption DEF WatchdogAssumption, TypeOK, Alerts, Levels

\* As time passes a missing backup stays missing and its level does not fall
\* (watchdog.go:134-164).
LEMMA LevelRises ==
  ASSUME TypeOK, NEW j \in Jobs, NEW t \in Nat, NEW u \in Nat, t <= u, Missing(j, t)
  PROVE  Missing(j, u) /\ LevelAt(j, t) <= LevelAt(j, u)
<1>1. since[j] \in Int /\ interval[j] \in Int
  BY WatchdogAssumption DEF WatchdogAssumption, TypeOK
<1>. QED
  BY <1>1 DEF Missing, LevelAt

\* Every step keeps the types and bounds of the variables.
LEMMA TypeStep ==
  ASSUME TypeOK, [Next]_vars
  PROVE  TypeOK'
<1> USE WatchdogAssumption
    DEF WatchdogAssumption, jobVars, checkVars, histVars, regVars, TypeOK, Levels, Alerts,
        LevelAt, Missing, Severity
<1>1. CASE Tick
  BY <1>1 DEF Tick
<1>2. CASE \E j \in Jobs : RecordSuccess(j)
  BY <1>2 DEF RecordSuccess, Free
<1>3. CASE \E j \in Jobs : RecordFailure(j)
  BY <1>3 DEF RecordFailure, Free
<1>4. CASE \E j \in Jobs : TellFailure(j)
  BY <1>4 DEF TellFailure
<1>5. CASE CheckAll
  <2> HIDE DEF LevelAt
  <2>1. \A j \in Jobs : LevelAt(j, now) \in Levels
    BY LevelType
  <2>2. Escalated \subseteq Jobs
    BY DEF Escalated
  <2>3. (lastAlertLevel \in [Jobs -> Levels])'
    BY <1>5, <2>1, <2>2 DEF CheckAll
  <2>4. \A j \in Escalated : [job |-> j, level |-> LevelAt(j, now), epoch |-> epoch[j]] \in Alerts
    BY <2>1, <2>2
  <2>5. (alerts \subseteq Alerts)'
    BY <1>5, <2>4 DEF CheckAll
  <2>. QED
    BY <1>5, <2>3, <2>5 DEF CheckAll
<1>6. CASE TellStale
  BY <1>6 DEF TellStale
<1>7. CASE EndCheck
  BY <1>7 DEF EndCheck
<1>8. CASE Stop
  BY <1>8 DEF Stop
<1>9. CASE EndLoop
  BY <1>9 DEF EndLoop
<1>10. CASE UNCHANGED vars
  BY <1>10 DEF vars
<1>. QED
  BY <1>1, <1>2, <1>3, <1>4, <1>5, <1>6, <1>7, <1>8, <1>9, <1>10
     DEF Next, RunStep, CheckerStep, Ended

------------------------------------------------------------------------------
(* The alerts: one lemma for each part of the inductive invariant. *)

\* No step comes between RecordFailure's Unlock and its call of the alerter that would
\* make the count it has read wrong (watchdog.go:85-112).
LEMMA FailureStep ==
  ASSUME TypeOK, FailureAlertsAreCurrent, [Next]_vars
  PROVE  FailureAlertsAreCurrent'
<1> USE WatchdogAssumption
    DEF WatchdogAssumption, jobVars, checkVars, histVars, regVars, TypeOK,
        FailureAlertsAreCurrent, Severity
<1>1. CASE \E j \in Jobs : RecordSuccess(j)
  BY <1>1 DEF RecordSuccess, Free
<1>2. CASE \E j \in Jobs : RecordFailure(j)
  BY <1>2 DEF RecordFailure, Free
<1>3. CASE \E j \in Jobs : TellFailure(j)
  <2>1. PICK j \in Jobs : TellFailure(j)
    BY <1>3
  <2>2. failing[j] = consecutiveFails[j] /\ consecutiveFails[j] \in Nat \ {0}
    BY <2>1 DEF TellFailure
  <2>3. failing'[j] = 0 /\ told'[j] = Severity(consecutiveFails[j])
    BY <2>1, <2>2 DEF TellFailure
  <2>4. consecutiveFails' = consecutiveFails
    BY <2>1 DEF TellFailure
  <2>5. \A i \in Jobs \ {j} : failing'[i] = failing[i] /\ told'[i] = told[i]
    BY <2>1 DEF TellFailure
  <2>6. ASSUME NEW i \in Jobs
        PROVE  IF failing'[i] # 0
                 THEN failing'[i] = consecutiveFails'[i]
                 ELSE told'[i] = CASE consecutiveFails'[i] = 0 -> "none"
                                   [] consecutiveFails'[i] \in 1..2 -> "ALERT"
                                   [] consecutiveFails'[i] \in 3..5 -> "ERROR"
                                   [] OTHER -> "CRITICAL"
    <3>1. CASE i = j
      <4> DEFINE n == consecutiveFails'[i]
      <4>1. failing'[i] = 0 /\ told'[i] = Severity(n) /\ n \in Nat \ {0}
        BY <3>1, <2>2, <2>3, <2>4
      <4> HIDE DEF n, TypeOK, FailureAlertsAreCurrent
      <4>3. Severity(n) = CASE n = 0 -> "none"
                            [] n \in 1..2 -> "ALERT"
                            [] n \in 3..5 -> "ERROR"
                            [] OTHER -> "CRITICAL"
        <5>1. CASE n \in 1..2
          BY <5>1
        <5>2. CASE n \in 3..5
          BY <5>2
        <5>3. CASE n >= 6
          <6>1. n # 0 /\ n \notin 1..2 /\ n \notin 3..5
            BY <5>3
          <6>2. Severity(n) = "CRITICAL"
            BY <4>1, <5>3
          <6>. QED
            BY <6>1, <6>2
        <5>. QED
          BY <4>1, <5>1, <5>2, <5>3
      <4>. QED
        BY <4>1, <4>3 DEF n
    <3>2. CASE i # j
      BY <3>2, <2>4, <2>5
    <3>. QED
      BY <3>1, <3>2
  <2>. QED
    BY <2>6
<1>4. CASE UNCHANGED <<consecutiveFails, failing, told>>
  BY <1>4
<1>. QED
  BY <1>1, <1>2, <1>3, <1>4
     DEF Next, RunStep, CheckerStep, Ended, vars, Tick, CheckAll, TellStale, EndCheck, Stop,
         EndLoop

\* No step makes old what CheckAll has decided to tell: a success in between begins a
\* new epoch, and alerts of other jobs do not matter (watchdog.go:116-205).
LEMMA DecidedStep ==
  ASSUME TypeOK, DecidedInv, SentInv, [Next]_vars
  PROVE  DecidedInv'
<1> USE WatchdogAssumption
    DEF WatchdogAssumption, jobVars, checkVars, histVars, regVars, TypeOK, Levels, Alerts,
        DecidedInv, SentInv, IsNews
<1>1. CASE \E j \in Jobs : RecordSuccess(j)
  BY <1>1 DEF RecordSuccess, Free
<1>2. CASE CheckAll
  <2>1. \A a \in alerts' : \E j \in Jobs :
             a = [job |-> j, level |-> LevelAt(j, now), epoch |-> epoch[j]]
             /\ j \in Escalated /\ LevelAt(j, now) > lastAlertLevel[j]
    BY <1>2 DEF CheckAll, Escalated
  <2>2. epoch' = epoch /\ lastSent' = lastSent /\ checker' = "telling"
    BY <1>2 DEF CheckAll
  <2>3. \A j \in Escalated : lastAlertLevel'[j] = LevelAt(j, now)
    BY <1>2 DEF CheckAll, Escalated
  <2>4. \A a, b \in alerts' : a.job = b.job => a = b
    BY <2>1
  <2>5. ASSUME NEW a \in alerts'
        PROVE  /\ IsNews(a)'
               /\ a.epoch <= epoch'[a.job]
               /\ a.epoch = epoch'[a.job] => a.level <= lastAlertLevel'[a.job]
    <3>1. PICK j \in Jobs : /\ a = [job |-> j, level |-> LevelAt(j, now), epoch |-> epoch[j]]
                            /\ j \in Escalated /\ LevelAt(j, now) > lastAlertLevel[j]
      BY <2>1
    <3>2. LevelAt(j, now) \in 1..3 /\ epoch[j] \in Nat /\ lastAlertLevel[j] \in Nat
          /\ lastSent[j].epoch \in Nat /\ lastSent[j].level \in Nat
      BY Numbers, LevelType
    <3>. QED
      <4>3. /\ lastSent[j].epoch <= epoch[j]
            /\ lastSent[j].epoch = epoch[j] => lastSent[j].level <= lastAlertLevel[j]
        OBVIOUS
      <4> HIDE DEF TypeOK, DecidedInv, SentInv, Alerts
      <4>1. a.job = j /\ a.level = LevelAt(j, now) /\ a.epoch = epoch[j]
        BY <3>1
      <4>2. \/ a.epoch > lastSent[j].epoch
            \/ a.epoch = lastSent[j].epoch /\ a.level > lastSent[j].level
        BY <3>1, <3>2, <4>1, <4>3
      <4>. QED
        BY <2>2, <2>3, <3>1, <3>2, <4>1, <4>2
  <2>. QED
    BY <2>2, <2>4, <2>5
<1>3. CASE TellStale
  <2>1. PICK a \in alerts : /\ alerts' = alerts \ {a}
                            /\ lastSent' = [lastSent EXCEPT ![a.job] = [level |-> a.level,
                                                                        epoch |-> a.epoch]]
    BY <1>3 DEF TellStale
  <2>2. UNCHANGED <<epoch, lastAlertLevel, checker>>
    BY <1>3 DEF TellStale
  <2>3. \A b \in alerts' : b \in alerts /\ b.job \in Jobs /\ b.job # a.job
    BY <2>1
  <2>4. \A b \in alerts' : lastSent'[b.job] = lastSent[b.job]
    BY <2>1, <2>3
  <2>5. \A b \in alerts' : IsNews(b)'
    BY <2>3, <2>4
  <2>. QED
    BY <1>3, <2>2, <2>3, <2>5 DEF TellStale
<1>4. CASE EndCheck
  BY <1>4 DEF EndCheck
<1>5. CASE EndLoop
  BY <1>5 DEF EndLoop
<1>6. CASE UNCHANGED <<checker, alerts, epoch, lastSent, lastAlertLevel>>
  BY <1>6
<1>. QED
  BY <1>1, <1>2, <1>3, <1>4, <1>5, <1>6
     DEF Next, RunStep, CheckerStep, Ended, vars, Tick, RecordFailure, TellFailure, Stop

\* No step sets lastAlertLevel to what neither was told nor is going to be, or takes back
\* an alert that was (watchdog.go:166-205).
LEMMA SentStep ==
  ASSUME TypeOK, DecidedInv, SentInv, [Next]_vars
  PROVE  SentInv'
<1> USE WatchdogAssumption
    DEF WatchdogAssumption, jobVars, checkVars, histVars, regVars, TypeOK, Levels, Alerts,
        DecidedInv, SentInv, IsNews, Missing, LevelAt
<1>1. CASE \E j \in Jobs : RecordSuccess(j)
  BY <1>1 DEF RecordSuccess, Free
<1>2. CASE CheckAll
  <2>1. alerts = {} /\ UNCHANGED <<epoch, lastSent>>
    BY <1>2 DEF CheckAll
  <2>2. ASSUME NEW j \in Escalated
        PROVE  /\ j \in Jobs
               /\ lastAlertLevel'[j] > lastAlertLevel[j]
               /\ [job |-> j, level |-> lastAlertLevel'[j], epoch |-> epoch[j]] \in alerts'
    BY <1>2 DEF CheckAll, Escalated
  <2>3. \A j \in Jobs \ Escalated : lastAlertLevel'[j] = lastAlertLevel[j]
    BY <1>2 DEF CheckAll
  <2>4. \A j \in Jobs : /\ lastAlertLevel[j] \in Nat /\ lastSent[j].level \in Nat
                        /\ lastAlertLevel'[j] \in Nat
    <3>1. lastAlertLevel' \in [Jobs -> 0..3]
      BY TypeStep
    <3> HIDE DEF TypeOK
    <3>. QED
      BY <3>1, Numbers
  <2> HIDE DEF Missing, LevelAt
  <2>. QED
    BY <2>1, <2>2, <2>3, <2>4
<1>3. CASE TellStale
  <2>1. PICK a \in alerts : /\ alerts' = alerts \ {a}
                            /\ lastSent' = [lastSent EXCEPT ![a.job] = [level |-> a.level,
                                                                        epoch |-> a.epoch]]
    BY <1>3 DEF TellStale
  <2>2. UNCHANGED <<epoch, lastAlertLevel>>
    BY <1>3 DEF TellStale
  <2>3. ASSUME NEW j \in Jobs, j # a.job
        PROVE  /\ lastSent'[j] = lastSent[j]
               /\ \A b : b.job = j /\ b \in alerts => b \in alerts'
    BY <2>1, <2>3
  <2>4. ASSUME NEW j \in Jobs, j = a.job
        PROVE  /\ lastSent'[j] = [level |-> a.level, epoch |-> a.epoch]
               /\ a.epoch <= epoch[j]
               /\ a.epoch = epoch[j] => a.level <= lastAlertLevel[j]
               /\ lastAlertLevel[j] > 0 =>
                    a = [job |-> j, level |-> lastAlertLevel[j], epoch |-> epoch[j]]
    <3>1. /\ lastSent'[j] = [level |-> a.level, epoch |-> a.epoch]
          /\ a.epoch <= epoch[j]
          /\ a.epoch = epoch[j] => a.level <= lastAlertLevel[j]
      BY <2>1, <2>4
    <3>2. a.level \in Nat /\ a.epoch \in Nat /\ lastAlertLevel[j] \in Nat /\ epoch[j] \in Nat
      <4>1. j \in Jobs /\ a \in alerts
        BY <2>4
      <4> HIDE DEF TypeOK, SentInv, DecidedInv
      <4>. QED
        BY <4>1, Numbers, AlertParts
    <3>3. \/ a.epoch > lastSent[j].epoch
          \/ a.epoch = lastSent[j].epoch /\ a.level > lastSent[j].level
      BY <2>4
    <3>4. lastSent[j] # [level |-> lastAlertLevel[j], epoch |-> epoch[j]]
      BY <3>1, <3>2, <3>3
    <3>5. ASSUME lastAlertLevel[j] > 0
          PROVE  a = [job |-> j, level |-> lastAlertLevel[j], epoch |-> epoch[j]]
      BY <3>4, <3>5, <2>4
    <3>. QED
      BY <3>1, <3>5
  <2>. QED
    BY <2>1, <2>2, <2>3, <2>4
<1>4. CASE UNCHANGED <<alerts, epoch, lastSent, lastAlertLevel>>
  BY <1>4
<1>. QED
  BY <1>1, <1>2, <1>3, <1>4
     DEF Next, RunStep, CheckerStep, Ended, vars, Tick, RecordFailure, TellFailure, EndCheck,
         Stop, EndLoop

------------------------------------------------------------------------------
(* The check: no tick that is taken late loses anything. *)

\* The last multiple of the period is not in the future.
LEMMA LastTickIsPast ==
  ASSUME now \in Nat
  PROVE  LastTick \in Nat /\ LastTick <= now
<1>1. Period \in Nat \ {0}
  BY WatchdogAssumption DEF WatchdogAssumption
<1>2. PICK k \in Nat, s \in 0..(Period - 1) : now = Period * k + s /\ now % Period = s
  BY <1>1, ModDiv
<1>3. Period * k \in Nat
  BY <1>1
<1>4. now - s \in Nat /\ now - s <= now
  BY <1>1, <1>2, <1>3
<1>. QED
  BY <1>2, <1>4 DEF LastTick

\* Time that is not a multiple of the period leaves the last one as it was.
LEMMA LastTickStays ==
  ASSUME now \in Nat, now' = now + 1, now' % Period # 0
  PROVE  LastTick' = LastTick
<1>1. Period \in Nat \ {0}
  BY WatchdogAssumption DEF WatchdogAssumption
<1>2. PICK r \in Nat : r = now % Period
  BY <1>1, ModDiv
<1>3. now' % Period = r + 1
  BY <1>1, <1>2, ModNext
<1>4. now' - (r + 1) = now - r
  BY <1>2
<1>. QED
  BY <1>2, <1>3, <1>4 DEF LastTick

\* A tick that is taken late is as good as one taken in time: what was missing then is
\* still missing, and no less urgent (watchdog.go:120-219).
LEMMA CheckedStep ==
  ASSUME TypeOK, MissedInv, CheckedInv, [Next]_vars
  PROVE  CheckedInv'
<1> USE WatchdogAssumption
    DEF WatchdogAssumption, jobVars, checkVars, histVars, regVars, TypeOK, Levels, MissedInv,
        CheckedInv, Missing, LevelAt, LastTick
<1>1. CASE Tick
  <2>1. CASE due'
    BY <2>1
  <2>2. CASE ~due'
    <3>1. ~due /\ now' = now + 1 /\ now' % Period # 0
      <4> HIDE DEF TypeOK, CheckedInv, MissedInv
      <4>. QED
        BY <1>1, <2>2 DEF Tick
    <3>3. LastTick' = LastTick
      BY <3>1, Numbers, LastTickStays
    <3>4. UNCHANGED <<since, interval, lastAlertLevel>>
      BY <1>1 DEF Tick
    <3> HIDE DEF LastTick
    <3>. QED
      BY <3>1, <3>3, <3>4
  <2>. QED
    BY <2>1, <2>2
<1>2. CASE \E j \in Jobs : RecordSuccess(j)
  BY SMTT(30), <1>2 DEF RecordSuccess, Free
<1>3. CASE CheckAll
  <2>1. LastTick \in Nat /\ LastTick <= now /\ now \in Nat
    BY Numbers, LastTickIsPast
  <2>2. UNCHANGED <<now, since, interval>> /\ LastTick' = LastTick
    BY <1>3 DEF CheckAll
  <2>3. ASSUME NEW j \in Jobs, Missing(j, LastTick)
        PROVE  lastAlertLevel'[j] >= LevelAt(j, LastTick)
    <3> HIDE DEF Missing, LevelAt, LastTick
    <3>1. Missing(j, now) /\ LevelAt(j, LastTick) <= LevelAt(j, now)
      BY <2>1, <2>3, LevelRises
    <3>2. lastAlertLevel'[j] >= LevelAt(j, now)
      <4>1. lastAlertLevel[j] \in Nat /\ LevelAt(j, now) \in Nat
        BY <2>1, LevelType
      <4>. QED
        BY <1>3, <3>1, <4>1 DEF CheckAll, Escalated
    <3>3. lastAlertLevel'[j] \in Nat /\ LevelAt(j, now) \in Nat /\ LevelAt(j, LastTick) \in Nat
      <4>1. lastAlertLevel' \in [Jobs -> 0..3]
        BY TypeStep
      <4>. QED
        BY SMTT(30), <4>1, <2>1, LevelType
    <3>. QED
      BY <3>1, <3>2, <3>3
  <2>. QED
    BY <2>2, <2>3
<1>4. CASE UNCHANGED <<now, since, interval, lastAlertLevel, due>>
  BY <1>4
<1>. QED
  BY <1>1, <1>2, <1>3, <1>4
     DEF Next, RunStep, CheckerStep, Ended, vars, RecordFailure, TellFailure, TellStale,
         EndCheck, Stop, EndLoop

------------------------------------------------------------------------------
(* The runs that were due. *)

\* A job whose second run is due without a success since the first one has missed a run;
\* a success begins anew (watchdog.go:70-74).
LEMMA MissedStep ==
  ASSUME TypeOK, MissedInv, [Next]_vars
  PROVE  MissedInv'
<1> USE WatchdogAssumption
    DEF WatchdogAssumption, jobVars, checkVars, histVars, regVars, TypeOK, MissedInv,
        Scheduled, Overdue
<1>1. CASE Tick
  <2> HIDE DEF TypeOK, MissedInv, Scheduled, Overdue
  <2>1. /\ now \in Nat /\ now' = now + 1 /\ UNCHANGED <<started, since>>
        /\ missed' = missed \cup {j \in Jobs : Scheduled(j, now') /\ Overdue(j)}
    BY <1>1, Numbers DEF Tick
  <2>2. ASSUME NEW j \in Jobs
        PROVE  /\ since'[j] <= now'
               /\ j \in missed' \/ \A t, u \in 1..now' :
                    since'[j] < t /\ Scheduled(j, t)' /\ Scheduled(j, u)' => u <= t
    <3>1. since[j] <= now /\ since[j] \in Nat
      BY Numbers DEF MissedInv
    <3>2. ASSUME j \notin missed', NEW t \in 1..now', NEW u \in 1..now',
                 since[j] < t, Scheduled(j, t), Scheduled(j, u), t < u
          PROVE  FALSE
      <4>1. CASE u \in 1..now
        BY <2>1, <3>2, <4>1 DEF MissedInv
      <4>2. CASE u = now'
        <5> DEFINE past == {v \in 1..now : Scheduled(j, v)}
        <5>1. t \in past
          BY <2>1, <3>2, <4>2
        <5>2. t <= Max(past)
          BY <2>1, <5>1, MaxIsGreatest, past \subseteq 0..now
        <5>3. Max(past) \in Nat
          BY <2>1, <5>1, MaxIsGreatest, past \subseteq 0..now
        <5>4. Overdue(j)
          BY <5>1, <5>2, <5>3, <3>1, <3>2 DEF Overdue
        <5>. QED
          BY <2>1, <3>2, <4>2, <5>4
      <4>. QED
        BY <2>1, <4>1, <4>2
    <3>3. \A t \in Nat : Scheduled(j, t)' <=> Scheduled(j, t)
      BY <2>1 DEF Scheduled
    <3>. QED
      BY <2>1, <3>1, <3>2, <3>3
  <2>. QED
    BY <2>2 DEF MissedInv
<1>2. CASE \E j \in Jobs : RecordSuccess(j)
  <2> HIDE DEF TypeOK, Scheduled, Overdue
  <2>1. PICK k \in Jobs : RecordSuccess(k)
    BY <1>2
  <2>2. UNCHANGED <<now, started, missed>> /\ now \in Nat
    BY <2>1, Numbers DEF RecordSuccess
  <2>3. since' = [since EXCEPT ![k] = now] /\ since \in [Jobs -> Nat]
    BY <2>1, WatchdogAssumption DEF RecordSuccess, TypeOK
  <2>4. \A j \in Jobs, t \in Nat : Scheduled(j, t)' <=> Scheduled(j, t)
    BY <2>2 DEF Scheduled
  <2>. QED
    BY <2>2, <2>3, <2>4
<1>3. CASE UNCHANGED <<now, started, since, missed>>
  <2>1. \A j \in Jobs, t \in Nat : Scheduled(j, t)' <=> Scheduled(j, t)
    BY <1>3 DEF Scheduled
  <2> HIDE DEF Scheduled, TypeOK
  <2>. QED
    BY <1>3, <2>1, Numbers
<1>. QED
  BY <1>1, <1>2, <1>3 DEF Next, RunStep, CheckerStep, Ended, vars,
     RecordFailure, TellFailure, CheckAll, TellStale, EndCheck, Stop, EndLoop

------------------------------------------------------------------------------
(* The estimated interval. *)

\* A schedule: some of the times of a cycle.
IsSchedule(s) ==
  /\ s.cycle \in Nat \ {0}
  /\ s.at # {} /\ s.at \subseteq 0..(s.cycle - 1)

\* NextRun is cron's Next: the first time after t that is in the schedule
\* (scheduler.go:242-245).
LEMMA NextRunIsNext ==
  ASSUME NEW s, IsSchedule(s), NEW t \in Nat
  PROVE  /\ NextRun(s, t) \in (t + 1)..(t + s.cycle)
         /\ NextRun(s, t) % s.cycle \in s.at
         /\ \A u \in Nat : t < u /\ u % s.cycle \in s.at => NextRun(s, t) <= u
<1> DEFINE runs == {u \in (t + 1)..(t + s.cycle) : u % s.cycle \in s.at}
<1>1. s.cycle \in Nat \ {0} /\ s.at # {} /\ s.at \subseteq 0..(s.cycle - 1)
  BY DEF IsSchedule
<1>2. PICK r \in s.at : r \in 0..(s.cycle - 1)
  BY <1>1
<1>3. PICK u \in (t + 1)..(t + s.cycle) : u % s.cycle = r
  BY <1>1, <1>2, ModOccurs
<1>4. runs \subseteq Nat /\ runs # {}
  BY <1>1, <1>2, <1>3
<1>5. NextRun(s, t) = Min(runs)
  BY DEF NextRun
<1>6. NextRun(s, t) \in runs /\ \A v \in runs : NextRun(s, t) <= v
  BY <1>4, <1>5, MinIsLeast
<1>7. ASSUME NEW v \in Nat, t < v, v % s.cycle \in s.at
      PROVE  NextRun(s, t) <= v
  BY <1>1, <1>6, <1>7
<1>. QED
  BY <1>6, <1>7

\* The runs, those followed by a gap that is looked at, and the gaps, as EstimateInterval
\* has them.
Upcoming(s, t) == {u \in (t + 1)..(t + Samples * s.cycle) : u % s.cycle \in s.at}
Sampling(s, t) == {u \in Upcoming(s, t) :
                     Cardinality({v \in Upcoming(s, t) : v < u}) < Samples}
Gaps(s, t) == {NextRun(s, u) - u : u \in Sampling(s, t)}

\* The gaps that are looked at are no longer than a cycle, and there is one.
LEMMA GapsAreBounded ==
  ASSUME NEW s, IsSchedule(s), NEW t \in Nat
  PROVE  Gaps(s, t) \subseteq 0..s.cycle /\ Gaps(s, t) # {}
<1>1. s.cycle \in Nat \ {0}
  BY DEF IsSchedule
<1>2. ASSUME NEW u \in Sampling(s, t)
      PROVE  NextRun(s, u) - u \in 0..s.cycle
  <2>1. u \in Nat
    BY DEF Sampling, Upcoming
  <2>2. NextRun(s, u) \in (u + 1)..(u + s.cycle)
    BY <2>1, NextRunIsNext
  <2>. QED
    BY <1>1, <2>1, <2>2
<1>3. NextRun(s, t) \in Sampling(s, t)
  <2>1. NextRun(s, t) \in (t + 1)..(t + s.cycle) /\ NextRun(s, t) % s.cycle \in s.at
    BY NextRunIsNext
  <2>2. t + s.cycle <= t + Samples * s.cycle
    BY <1>1 DEF Samples
  <2>3. NextRun(s, t) \in Upcoming(s, t)
    BY <1>1, <2>1, <2>2 DEF Upcoming, Samples
  <2>4. \A v \in Upcoming(s, t) : v \in Nat /\ t < v /\ v % s.cycle \in s.at
    BY <1>1 DEF Upcoming
  <2>5. {v \in Upcoming(s, t) : v < NextRun(s, t)} = {}
    BY <2>1, <2>4, NextRunIsNext
  <2>6. Cardinality({v \in Upcoming(s, t) : v < NextRun(s, t)}) = 0
    BY <2>5, FS_EmptySet
  <2>. QED
    BY <2>3, <2>6 DEF Sampling, Samples
<1>. QED
  BY <1>2, <1>3 DEF Gaps

\* The estimate is within the bounds of an interval, and no gap that is looked at and is
\* within them is longer (scheduler.go:251-260).
LEMMA EstimateBounds ==
  ASSUME NEW s, IsSchedule(s), NEW t \in Nat
  PROVE  /\ EstimateInterval(s, t) \in Clamp.least..Clamp.most
         /\ \A g \in Gaps(s, t) : g <= Clamp.most => g <= EstimateInterval(s, t)
<1> USE WatchdogAssumption DEF WatchdogAssumption
<1> DEFINE longest == Max(Gaps(s, t))
           capped  == Min({Clamp.most, longest})
<1>1. s.cycle \in Nat
  BY DEF IsSchedule
<1>2. longest \in Gaps(s, t) /\ \A g \in Gaps(s, t) : g <= longest
  BY <1>1, GapsAreBounded, MaxIsGreatest
<1>3. longest \in Nat
  BY <1>1, <1>2, GapsAreBounded
<1> HIDE DEF longest
<1>4. capped \in {Clamp.most, longest} /\ capped <= Clamp.most /\ capped <= longest
  BY <1>3, MinIsLeast, {Clamp.most, longest} \subseteq Nat
<1>5. capped \in Nat
  BY <1>3, <1>4
<1> HIDE DEF capped
<1>6. {Clamp.least, capped} \subseteq 0..Clamp.most
  BY <1>4, <1>5
<1>7. /\ Max({Clamp.least, capped}) \in {Clamp.least, capped}
      /\ Clamp.least <= Max({Clamp.least, capped})
      /\ capped <= Max({Clamp.least, capped})
  BY <1>6, MaxIsGreatest
<1>8. EstimateInterval(s, t) = Max({Clamp.least, capped})
  BY DEF EstimateInterval, Gaps, Sampling, Upcoming, longest, capped
<1>9. ASSUME NEW g \in Gaps(s, t), g <= Clamp.most
      PROVE  g <= Max({Clamp.least, capped})
  <2>1. g \in Nat
    BY <1>1, GapsAreBounded
  <2>2. g <= longest
    BY <1>2
  <2>3. g <= capped
    BY <1>3, <1>4, <1>9, <2>1, <2>2
  <2>. QED
    BY <1>4, <1>5, <1>7, <2>1, <2>3
<1>10. Max({Clamp.least, capped}) \in Clamp.least..Clamp.most
  BY <1>4, <1>5, <1>7
<1>. QED
  BY <1>8, <1>9, <1>10

\* A schedule with no more runs in a cycle than gaps are looked at: every run of the first
\* cycle after t is followed by a gap that is looked at.  The runs before it in the cycle
\* have other remainders than it, hence are fewer than the runs of a cycle.
LEMMA FirstCycleIsSampled ==
  ASSUME NEW s, IsSchedule(s), Cardinality(s.at) <= Samples, NEW t \in Nat,
         NEW u \in (t + 1)..(t + s.cycle), u % s.cycle \in s.at
  PROVE  u \in Sampling(s, t)
<1> DEFINE earlier == {v \in Upcoming(s, t) : v < u}
           others  == s.at \ {u % s.cycle}
<1>1. s.cycle \in Nat \ {0} /\ s.at \subseteq 0..(s.cycle - 1) /\ u \in Nat
  BY DEF IsSchedule
<1>2. u \in Upcoming(s, t)
  <2>1. t + s.cycle <= t + Samples * s.cycle
    BY <1>1 DEF Samples
  <2>. QED
    BY <1>1, <2>1 DEF Upcoming, Samples
<1>3. \A v \in earlier : v \in (t + 1)..(u - 1) /\ v % s.cycle \in s.at
  BY <1>1 DEF Upcoming
<1>4. IsFiniteSet(earlier)
  <2>1. IsFiniteSet((t + 1)..(u - 1))
    BY <1>1, t + 1 \in Int, u - 1 \in Int, FS_Interval
  <2>2. earlier \in SUBSET ((t + 1)..(u - 1))
    BY <1>3
  <2>. QED
    BY <2>1, <2>2, FS_Subset
<1>5. IsFiniteSet(s.at)
  <2>1. IsFiniteSet(0..(s.cycle - 1))
    BY <1>1, 0 \in Int, s.cycle - 1 \in Int, FS_Interval
  <2>. QED
    BY <1>1, <2>1, FS_Subset
<1>6. IsFiniteSet(others) /\ Cardinality(others) = Cardinality(s.at) - 1
  BY <1>5, FS_RemoveElement
<1>7. ASSUME NEW v \in (t + 1)..u, NEW w \in (t + 1)..u, v < w
      PROVE  v % s.cycle # w % s.cycle
  <2>1. v \in Nat /\ w \in Nat /\ w < v + s.cycle
    BY <1>1
  <2>. QED
    BY <1>1, <1>7, <2>1, ModApart
<1> DEFINE f == [v \in earlier |-> v % s.cycle]
<1>8. f \in [earlier -> others]
  <2>1. \A v \in earlier : v \in (t + 1)..u /\ u \in (t + 1)..u /\ v < u
    BY <1>1, <1>3
  <2>2. \A v \in earlier : v % s.cycle # u % s.cycle
    BY <1>7, <2>1
  <2>. QED
    BY <1>3, <2>2
<1>9. ~ (Cardinality(others) < Cardinality(earlier))
  <2> SUFFICES ASSUME Cardinality(others) < Cardinality(earlier)
               PROVE  FALSE
    OBVIOUS
  <2>1. \A v \in earlier : f[v] = v % s.cycle
    OBVIOUS
  <2>2. \A v \in earlier : v \in (t + 1)..u
    BY <1>1, <1>3
  <2> HIDE DEF earlier, others, f
  <2>3. \E v, w \in earlier : v # w /\ f[v] = f[w]
    BY <1>4, <1>6, <1>8, FS_PigeonHole
  <2>4. PICK v \in earlier, w \in earlier : v # w /\ v % s.cycle = w % s.cycle
    BY <2>1, <2>3
  <2>5. v < w \/ w < v
    BY <2>2, <2>4
  <2>. QED
    BY <1>7, <2>2, <2>4, <2>5
<1>10. Cardinality(earlier) \in Nat /\ Cardinality(s.at) \in Nat
  BY <1>4, <1>5, FS_CardinalityType
<1>11. Cardinality(earlier) < Samples
  BY <1>6, <1>9, <1>10 DEF Samples
<1>. QED
  BY <1>2, <1>11 DEF Sampling

\* Gaps repeat with the cycle: the gap after p is no longer than the gap after any u at the
\* same point of the cycle.
LEMMA GapsRepeat ==
  ASSUME NEW s, IsSchedule(s), NEW p \in Nat, NEW u \in Nat, p % s.cycle = u % s.cycle
  PROVE  NextRun(s, p) - p <= NextRun(s, u) - u
<1> DEFINE d == NextRun(s, u) - u
<1>1. s.cycle \in Nat \ {0}
  BY DEF IsSchedule
<1>2. NextRun(s, u) \in Nat /\ u < NextRun(s, u) /\ NextRun(s, u) % s.cycle \in s.at
  <2>1. NextRun(s, u) \in (u + 1)..(u + s.cycle) /\ NextRun(s, u) % s.cycle \in s.at
    BY NextRunIsNext
  <2>. QED
    BY <1>1, <2>1
<1>3. d \in Nat \ {0} /\ NextRun(s, u) = u + d
  BY <1>2
<1>4. PICK k \in Nat, r \in 0..(s.cycle - 1) : p = s.cycle * k + r /\ p % s.cycle = r
  BY <1>1, ModDiv
<1>5. PICK l \in Nat, q \in 0..(s.cycle - 1) : u = s.cycle * l + q /\ u % s.cycle = q
  BY <1>1, ModDiv
<1>6. q = r
  BY <1>4, <1>5
<1> HIDE DEF d
<1>7. (p + d) % s.cycle = (r + d) % s.cycle
  <2>1. p + d = s.cycle * k + (r + d)
    BY <1>1, <1>3, <1>4
  <2>2. (s.cycle * k + (r + d)) % s.cycle = (r + d) % s.cycle
    BY <1>1, <1>3, r + d \in Nat, ModPlus
  <2>. QED
    BY <2>1, <2>2
<1>8. (u + d) % s.cycle = (r + d) % s.cycle
  <2>1. u + d = s.cycle * l + (r + d)
    BY <1>1, <1>3, <1>5, <1>6
  <2>2. (s.cycle * l + (r + d)) % s.cycle = (r + d) % s.cycle
    BY <1>1, <1>3, r + d \in Nat, ModPlus
  <2>. QED
    BY <2>1, <2>2
<1>9. (p + d) % s.cycle \in s.at
  BY <1>2, <1>3, <1>7, <1>8
<1>10. NextRun(s, p) <= p + d
  BY <1>3, <1>9, NextRunIsNext
<1>11. NextRun(s, p) \in Nat
  BY <1>1, NextRunIsNext
<1>. QED
  BY <1>2, <1>3, <1>10, <1>11

\* For such a schedule the estimate is right for ever: after every time x there is a run
\* within the interval, whenever the estimate was made (scheduler.go:239-260).
LEMMA SampledGapsCoverAll ==
  ASSUME NEW s, IsSchedule(s), Cardinality(s.at) <= Samples, s.cycle <= Clamp.most,
         NEW t \in Nat, NEW x \in Nat
  PROVE  NextRun(s, x) \in (x + 1)..(x + EstimateInterval(s, t))
<1> DEFINE y == s.cycle + x
           past == {v \in 0..y : v % s.cycle \in s.at}
<1>1. s.cycle \in Nat \ {0} /\ s.at # {} /\ s.at \subseteq 0..(s.cycle - 1)
  BY DEF IsSchedule
<1>2. x % s.cycle = y % s.cycle
  <2>1. (s.cycle * 1 + x) % s.cycle = x % s.cycle
    BY <1>1, ModPlus
  <2>. QED
    BY <1>1, <2>1
<1>3. y \in Nat
  BY <1>1
<1>4. NextRun(s, x) - x <= NextRun(s, y) - y
  BY <1>2, <1>3, GapsRepeat
<1>5. past # {}
  <2>1. PICK r \in s.at : r \in 0..(s.cycle - 1)
    BY <1>1
  <2>2. (s.cycle * 0 + r) % s.cycle = r
    BY <1>1, <2>1, ModUnique
  <2>3. r % s.cycle = r /\ r \in 0..y
    BY <1>1, <2>1, <2>2
  <2>. QED
    BY <2>1, <2>3
<1> HIDE DEF y
<1>6. PICK p \in past : \A v \in past : v <= p
  BY <1>3, <1>5, GreatestElement, past \subseteq 0..y
<1>7. p \in Nat /\ p <= y /\ p % s.cycle \in s.at
  BY <1>3, <1>6
<1>8. NextRun(s, p) \in Nat /\ p < NextRun(s, p) /\ NextRun(s, p) % s.cycle \in s.at
  <2>1. NextRun(s, p) \in (p + 1)..(p + s.cycle) /\ NextRun(s, p) % s.cycle \in s.at
    BY <1>7, NextRunIsNext
  <2>. QED
    BY <1>1, <1>7, <2>1
<1>9. y < NextRun(s, p)
  BY <1>3, <1>6, <1>7, <1>8
<1>10. NextRun(s, y) <= NextRun(s, p)
  BY <1>3, <1>8, <1>9, NextRunIsNext
<1>11. PICK u \in (t + 1)..(t + s.cycle) : u % s.cycle = p % s.cycle
  BY <1>1, <1>7, ModDiv, ModOccurs
<1>12. NextRun(s, p) - p <= NextRun(s, u) - u
  BY <1>1, <1>7, <1>11, GapsRepeat
<1>13. NextRun(s, u) - u \in Gaps(s, t)
  BY <1>7, <1>11, FirstCycleIsSampled DEF Gaps
<1>14. NextRun(s, u) - u \in 0..s.cycle
  BY <1>13, GapsAreBounded
<1>15. Clamp.most \in Nat /\ EstimateInterval(s, t) \in Nat
  BY EstimateBounds, WatchdogAssumption DEF WatchdogAssumption
<1>16. NextRun(s, u) - u <= EstimateInterval(s, t)
  BY <1>1, <1>13, <1>14, <1>15, EstimateBounds
<1>17. NextRun(s, x) \in Nat /\ x < NextRun(s, x) /\ NextRun(s, y) \in Nat
  BY <1>1, <1>3, NextRunIsNext
<1>. QED
  BY <1>3, <1>4, <1>7, <1>8, <1>10, <1>12, <1>14, <1>15, <1>16, <1>17

------------------------------------------------------------------------------
(* The inductive invariant. *)

\* The schedule of every job is one.
LEMMA EverySchedule == \A j \in Jobs : IsSchedule(Schedule[j])
BY WatchdogAssumption DEF WatchdogAssumption, IsSchedule

\* The watchdog starts with nothing missing and nothing to tell (watchdog.go:48-62).
LEMMA InvInit == Init => WatchdogInv
<1> SUFFICES ASSUME Init
             PROVE  WatchdogInv
  OBVIOUS
<1> USE WatchdogAssumption DEF WatchdogAssumption
<1>1. started \in Starts /\ started \in Nat /\ now = 0
  BY DEF Init
<1>2. interval \in [Jobs -> Clamp.least..Clamp.most]
  <2>1. \A j \in Jobs : EstimateInterval(Schedule[j], started) \in Clamp.least..Clamp.most
    BY <1>1, EverySchedule, EstimateBounds
  <2>. QED
    BY <2>1 DEF Init
<1>3. TypeOK
  <2>1. /\ since \in [Jobs -> 0..MaxTime]
        /\ consecutiveFails \in [Jobs -> Nat]
        /\ failing \in [Jobs -> Nat]
        /\ lastAlertLevel \in [Jobs -> Levels]
        /\ epoch \in [Jobs -> 0..MaxSuccesses]
    BY DEF Init, Levels
  <2>2. \A j \in Jobs : {consecutiveFails[j], failing[j]} \subseteq 0..MaxFails[j]
    BY DEF Init
  <2>3. lastSent \in [Jobs -> [level : Levels, epoch : 0..MaxSuccesses]]
    BY DEF Init, Levels
  <2>4. told \in [Jobs -> {"none", "ALERT", "ERROR", "CRITICAL"}]
    BY DEF Init
  <2>5. (due \in BOOLEAN) /\ (stopped \in BOOLEAN)
    BY DEF Init
  <2>6. alerts \subseteq Alerts /\ missed \subseteq Jobs /\ now \in 0..MaxTime
        /\ checker \in {"waiting", "telling", "ended"}
    BY DEF Init
  <2>. QED
    BY <1>1, <1>2, <2>1, <2>2, <2>3, <2>4, <2>5, <2>6 DEF TypeOK
<1>4. FailureAlertsAreCurrent /\ DecidedInv /\ SentInv
  BY DEF Init, FailureAlertsAreCurrent, DecidedInv, SentInv
<1>5. CheckedInv
  <2>1. LastTick = 0
    BY <1>1, LastTickIsPast
  <2>2. \A j \in Jobs : ~Missing(j, 0)
    BY <1>2 DEF Init, Missing
  <2>. QED
    BY <2>1, <2>2 DEF CheckedInv
<1>6. MissedInv
  BY DEF Init, MissedInv
<1>. QED
  BY <1>3, <1>4, <1>5, <1>6 DEF WatchdogInv, Init

\* Every step of the watchdog keeps its inductive invariant.
LEMMA InvStep == WatchdogInv /\ [Next]_vars => WatchdogInv'
<1> SUFFICES ASSUME WatchdogInv, [Next]_vars
             PROVE  WatchdogInv'
  OBVIOUS
<1>1. UNCHANGED <<started, interval>>
  BY DEF Next, RunStep, CheckerStep, Ended, vars, regVars, Tick, RecordSuccess, RecordFailure,
         TellFailure, CheckAll, TellStale, EndCheck, Stop, EndLoop
<1>2. (interval = [j \in Jobs |-> EstimateInterval(Schedule[j], started)])'
  BY <1>1 DEF WatchdogInv
<1>. QED
  BY <1>2, TypeStep, FailureStep, DecidedStep, SentStep, CheckedStep, MissedStep DEF WatchdogInv

\* The inductive invariant of the watchdog holds for every set of jobs and schedules, every
\* period of the ticker, every bound of the clock and of the counts, and whenever the daemon
\* is started.
THEOREM WatchdogInvariant == Spec => []WatchdogInv
BY InvInit, InvStep, PTL DEF Spec

------------------------------------------------------------------------------
(* The properties. *)

\* A failure alert always states the current count of failures in a row, and its severity is
\* that count's, although the count is told without the mutex (watchdog.go:81-112).
THEOREM ToldFailuresAreCurrent == Spec => []FailureAlertsAreCurrent
<1>1. WatchdogInv => FailureAlertsAreCurrent
  BY DEF WatchdogInv
<1>. QED
  BY <1>1, WatchdogInvariant, PTL

\* When the goroutine of the periodic check has taken the last tick and is back at its
\* select, every backup missing at the time of that tick was told about, as severely as it
\* deserved then (watchdog.go:120-219).
THEOREM StaleBackupsAreTold == Spec => []StaleIsTold
<1>1. ASSUME WatchdogInv
      PROVE  StaleIsTold
  <2> SUFFICES ASSUME checker = "waiting", ~due, NEW j \in Jobs, Missing(j, LastTick)
               PROVE  lastSent[j].epoch = epoch[j] /\ lastSent[j].level >= LevelAt(j, LastTick)
    BY DEF StaleIsTold
  <2>1. TypeOK /\ DecidedInv /\ SentInv /\ CheckedInv
    BY <1>1 DEF WatchdogInv
  <2>2. alerts = {}
    BY <2>1 DEF DecidedInv
  <2>3. lastAlertLevel[j] >= LevelAt(j, LastTick)
    BY <2>1 DEF CheckedInv
  <2>4. LevelAt(j, LastTick) \in 1..3 /\ lastAlertLevel[j] \in Nat
    BY <2>1, Numbers, LastTickIsPast, LevelType
  <2>5. lastSent[j] = [level |-> lastAlertLevel[j], epoch |-> epoch[j]]
    BY <2>1, <2>2, <2>3, <2>4 DEF SentInv
  <2>. QED
    BY <2>3, <2>5
<1>. QED
  BY <1>1, WatchdogInvariant, PTL

\* Whatever runs succeed between CheckAll's decision and its calls of the alerter, no stale
\* alert is repeated: it is of a new epoch or worse than the last (watchdog.go:116, 166-170).
THEOREM StaleAlertsEscalate == Spec => AlertsEscalate
<1>1. ASSUME WatchdogInv, [Next]_vars, NEW a \in alerts \ alerts'
      PROVE  IsNews(a)
  BY <1>1 DEF WatchdogInv, DecidedInv
<1>2. WatchdogInv /\ [Next]_vars => [\A a \in alerts \ alerts' : IsNews(a)]_vars
  BY <1>1
<1>. QED
  BY <1>2, WatchdogInvariant, PTL DEF Spec, AlertsEscalate

\* A job with a sampled schedule that is missing now has missed a run: two of its runs were
\* due within twice the interval, the second after the first had failed to succeed.
LEMMA MissingHasMissed ==
  ASSUME WatchdogInv, NEW j \in Jobs, Sampled(j), Missing(j, now)
  PROVE  j \in missed
<1> DEFINE s == Schedule[j]
           x == started + since[j]
<1>1. now \in Nat /\ since[j] \in Nat /\ started \in Nat
  BY Numbers, WatchdogAssumption DEF WatchdogInv, TypeOK, WatchdogAssumption
<1>2. IsSchedule(s) /\ Cardinality(s.at) <= Samples /\ s.cycle <= Clamp.most
  BY EverySchedule DEF Sampled
<1>3. interval[j] = EstimateInterval(s, started)
  BY DEF WatchdogInv
<1>4. interval[j] \in Nat /\ s.cycle \in Nat \ {0}
  BY <1>2, Numbers DEF WatchdogInv, IsSchedule
<1> HIDE DEF s, x
<1>5. x \in Nat
  BY <1>1 DEF x
<1>6. PICK n \in (x + 1)..(x + interval[j]) : n % s.cycle \in s.at
  BY <1>1, <1>2, <1>3, <1>5, SampledGapsCoverAll, NextRunIsNext
<1>7. n \in Nat
  BY <1>4, <1>5
<1>8. PICK m \in (n + 1)..(n + interval[j]) : m % s.cycle \in s.at
  BY <1>1, <1>2, <1>3, <1>7, SampledGapsCoverAll, NextRunIsNext
<1>9. now - since[j] > 2 * interval[j]
  BY DEF Missing
<1>10. /\ n - started \in 1..now /\ m - started \in 1..now
       /\ since[j] < n - started /\ n - started < m - started
  BY <1>1, <1>4, <1>5, <1>7, <1>9 DEF x
<1>11. Scheduled(j, n - started) /\ Scheduled(j, m - started)
  <2>1. started + (n - started) = n /\ started + (m - started) = m
    BY <1>1, <1>4, <1>7
  <2>. QED
    BY <1>6, <1>8, <2>1 DEF Scheduled, s
<1>. QED
  BY <1>1, <1>10, <1>11 DEF WatchdogInv, MissedInv

\* A backup is told to be stale only if it has missed a run, for every schedule whose cycle is
\* within the gaps the estimate looks at, however irregular it is (scheduler.go:225-261,
\* watchdog.go:130-150).
THEOREM SampledAlarmsAreTrue == Spec => NoFalseAlarmIfSampled
<1>1. ASSUME WatchdogInv, [Next]_vars, NEW a \in alerts' \ alerts, Sampled(a.job)
      PROVE  a.job \in missed
  <2>1. CASE CheckAll
    <3>1. PICK j \in Escalated :
                 a = [job |-> j, level |-> LevelAt(j, now), epoch |-> epoch[j]]
      BY <1>1, <2>1 DEF CheckAll
    <3>2. a.job = j /\ j \in Jobs /\ Missing(j, now)
      BY <3>1 DEF Escalated
    <3>. QED
      BY <1>1, <3>2, MissingHasMissed
  <2>2. CASE alerts' \subseteq alerts
    BY <1>1, <2>2
  <2>. QED
    BY <1>1, <2>1, <2>2 DEF Next, RunStep, CheckerStep, Ended, vars, checkVars, Tick,
       RecordSuccess, RecordFailure, TellFailure, TellStale, EndCheck, Stop, EndLoop
<1>2. WatchdogInv /\ [Next]_vars =>
        [\A a \in alerts' \ alerts : Sampled(a.job) => a.job \in missed]_vars
  BY <1>1
<1>. QED
  BY <1>2, WatchdogInvariant, PTL DEF Spec, NoFalseAlarmIfSampled

==============================================================================
