------------------------------ MODULE Scheduler ------------------------------
(***************************************************************************)
(* The daemon of pkg/scheduler/scheduler.go: Scheduler.Start, the function *)
(* scheduleBackup registers with cron (one goroutine per tick), the mutex  *)
(* per backup name, the semaphore channel, the WaitGroup the shutdown      *)
(* drains, and the counters of the watchdog and of the health server that  *)
(* a run updates.  Each action is one step of one goroutine between two    *)
(* points where another goroutine can get in.                              *)
(*                                                                         *)
(* What runBackup does between its start and its end (stages, retries,     *)
(* temporary files, hooks) is module BackupRun's subject; here it succeeds *)
(* or fails.                                                               *)
(***************************************************************************)
EXTENDS Integers, Sequences, FiniteSets

CONSTANTS
  Names,    \* the backup names of the configuration
  Runs,     \* the goroutines cron ever launches, one per tick (bounds a behaviour)
  NameOf,   \* the backup each of them runs
  Slots     \* capacity of the semaphore channel

ASSUME SchedulerAssumption ==
  /\ IsFiniteSet(Runs)
  /\ NameOf \in [Runs -> Names]
  /\ Slots \in Nat \ {0}

VARIABLES
  pc,        \* where each run goroutine is
  locked,    \* jobLocks: is the mutex of the name locked
  tokens,    \* how many elements the channel sem holds
  sendq,     \* goroutines blocked sending to sem, oldest first
  wg,        \* counter of the WaitGroup
  daemon,    \* where Start and main are
  cancelled, \* the daemon's context is done
  waiter,    \* the goroutine that calls wg.Wait during the drain
  verdict,   \* what the drain reported
  owed,      \* history: the runs in the WaitGroup when the drain began
  outcome,   \* how each run ended: skipped, or the result of runBackup
  wdFails,   \* watchdog: consecutiveFails of each name
  health     \* health server: RunCount, FailCount, ConsecutiveFailures

runVars     == <<pc, locked, tokens, sendq, wg, outcome>>
monitorVars == <<wdFails, health>>
daemonVars  == <<daemon, cancelled, waiter, verdict, owed>>
vars        == <<runVars, monitorVars, daemonVars>>

------------------------------------------------------------------------------
\* Program points of a run goroutine, in the order it passes them.
Waiting == {"claimed", "queued"}
InRunBackup == {"working", "recording", "wrapping"}
Occupying == InRunBackup \cup {"failing", "alerting", "notifying", "releasing"}
HoldingLock == Waiting \cup Occupying \cup {"unlocking"}
InGroup == HoldingLock \cup {"entered", "leaving"}
Points == InGroup \cup {"unborn", "launched", "waking", "done"}

At(points) == {r \in Runs : pc[r] \in points}

TypeOK ==
  /\ pc \in [Runs -> Points]
  /\ locked \in [Names -> BOOLEAN]
  /\ tokens \in 0..Slots
  /\ sendq \in Seq(Runs)
  /\ wg \in Nat
  /\ daemon \in {"starting", "running", "stopping", "draining", "returned",
                 "exited", "refused", "panicked"}
  /\ cancelled \in BOOLEAN
  /\ waiter \in {"none", "calling", "blocked", "woken", "passed", "closed"}
  /\ verdict \in {"none", "clean", "timeout"}
  /\ owed \subseteq Runs
  /\ outcome \in [Runs -> {"none", "skipped", "ok", "failed"}]
  /\ wdFails \in [Names -> Nat]
  /\ health \in [Names -> [runs : Nat, fails : Nat, consecutive : Nat]]

Init ==
  /\ pc = [r \in Runs |-> "unborn"]
  /\ locked = [n \in Names |-> FALSE]
  /\ tokens = 0
  /\ sendq = <<>>
  /\ wg = 0
  /\ daemon = "starting"
  /\ cancelled = FALSE
  /\ waiter = "none"
  /\ verdict = "none"
  /\ owed = {}
  /\ outcome = [r \in Runs |-> "none"]
  /\ wdFails = [n \in Names |-> 0]
  /\ health = [n \in Names |-> [runs |-> 0, fails |-> 0, consecutive |-> 0]]

\* Goroutines run until main returns, log.Fatalf ends the process or a panic does.
ProcessAlive == daemon \notin {"exited", "refused", "panicked"}

GoTo(r, point) == pc' = [pc EXCEPT ![r] = point]

\* Run r passes from one point to the next.
Step(r, from, to) ==
  /\ ProcessAlive
  /\ pc[r] = from
  /\ GoTo(r, to)

------------------------------------------------------------------------------
(* Faulty forms of the steps below, each a bug the code could have had.  No behaviour  *)
(* of Spec takes them: each is put in the place of the step it is named after to see   *)
(* that a property notices.                                                            *)

\* Without s.wg.Add(1).
EnterUncounted(r) ==
  /\ Step(r, "launched", "entered")
  /\ UNCHANGED <<locked, tokens, sendq, wg, outcome, monitorVars, daemonVars>>

\* getJobLock returns a new mutex on each call.
TryLockFresh(r) ==
  /\ Step(r, "entered", "claimed")
  /\ locked' = [locked EXCEPT ![NameOf[r]] = TRUE]
  /\ UNCHANGED <<tokens, sendq, wg, outcome, monitorVars, daemonVars>>

\* The slot is taken without regard to the channel's capacity.
AcquireSlotAlways(r) ==
  /\ Step(r, "claimed", "working")
  /\ tokens' = IF tokens < Slots THEN tokens + 1 ELSE tokens
  /\ UNCHANGED <<locked, sendq, wg, outcome, monitorVars, daemonVars>>

\* A success leaves the consecutive failures as they are.
RecordSuccessHealthNoReset(r) ==
  /\ Step(r, "recording", "wrapping")
  /\ health' = [health EXCEPT ![NameOf[r]].runs = @ + 1]
  /\ UNCHANGED <<locked, tokens, sendq, wg, outcome, wdFails, daemonVars>>

\* The receive is not deferred, and a failed run returns before it.
ReleaseSlotUnlessFailed(r) ==
  /\ Step(r, "releasing", "unlocking")
  /\ sendq = <<>>
  /\ tokens' = IF outcome[r] = "failed" THEN tokens ELSE tokens - 1
  /\ UNCHANGED <<locked, sendq, wg, outcome, monitorVars, daemonVars>>

\* The slot goes to the sender that has been blocked for the shortest time.
PassSlotToLast(r) ==
  /\ ProcessAlive
  /\ pc[r] = "releasing"
  /\ sendq # <<>>
  /\ pc' = [pc EXCEPT ![r] = "unlocking", ![sendq[Len(sendq)]] = "working"]
  /\ sendq' = SubSeq(sendq, 1, Len(sendq) - 1)
  /\ UNCHANGED <<locked, tokens, wg, outcome, monitorVars, daemonVars>>

\* The blocked sender is not told.
PassSlotUnnoticed(r) ==
  /\ Step(r, "releasing", "unlocking")
  /\ sendq # <<>>
  /\ sendq' = Tail(sendq)
  /\ UNCHANGED <<locked, tokens, wg, outcome, monitorVars, daemonVars>>

\* The mutex is never unlocked.
UnlockForgotten(r) ==
  /\ Step(r, "unlocking", "leaving")
  /\ UNCHANGED <<locked, tokens, sendq, wg, outcome, monitorVars, daemonVars>>

\* The waiter is woken one Done too early.
LeaveWakesEarly(r) ==
  /\ Step(r, "leaving", IF wg <= 2 /\ waiter = "blocked" THEN "waking" ELSE "done")
  /\ wg' = wg - 1
  /\ UNCHANGED <<locked, tokens, sendq, outcome, monitorVars, daemonVars>>

\* <-s.cron.Stop().Done(): shutdown waits for the runs before its timer starts.
StopCronAndWait ==
  /\ daemon = "running"
  /\ cancelled
  /\ At({"launched"} \cup InGroup) = {}
  /\ daemon' = "stopping"
  /\ UNCHANGED <<runVars, monitorVars, cancelled, waiter, verdict, owed>>

\* The WaitGroup counts a run only once it has its slot.
CallWaitForSlots ==
  /\ ProcessAlive
  /\ waiter = "calling"
  /\ waiter' = IF At(Occupying) = {} THEN "passed" ELSE "blocked"
  /\ UNCHANGED <<runVars, monitorVars, daemon, cancelled, verdict, owed>>

------------------------------------------------------------------------------
(* The run goroutine: the function given to cron.AddFunc. *)

\* cron's loop starts a goroutine for a due entry; it runs from cron.Start to cron.Stop.
Launch(r) ==
  /\ daemon = "running"
  /\ Step(r, "unborn", "launched")
  /\ UNCHANGED <<locked, tokens, sendq, wg, outcome, monitorVars, daemonVars>>

\* s.wg.Add(1), the first statement of the goroutine.  sync.WaitGroup panics when the
\* counter leaves 0 while a Wait is registered.
Enter(r) ==
  /\ Step(r, "launched", "entered")
  /\ wg' = wg + 1
  /\ IF wg = 0 /\ waiter = "blocked"
       THEN daemon' = "panicked" /\ UNCHANGED <<cancelled, waiter, verdict, owed>>
       ELSE UNCHANGED daemonVars
  /\ UNCHANGED <<locked, tokens, sendq, outcome, monitorVars>>

\* mu.TryLock() succeeds.
TryLock(r) ==
  /\ Step(r, "entered", "claimed")
  /\ ~locked[NameOf[r]]
  /\ locked' = [locked EXCEPT ![NameOf[r]] = TRUE]
  /\ UNCHANGED <<tokens, sendq, wg, outcome, monitorVars, daemonVars>>

\* mu.TryLock() fails: "backup already running, skipping".
Skip(r) ==
  /\ Step(r, "entered", "leaving")
  /\ locked[NameOf[r]]
  /\ outcome' = [outcome EXCEPT ![r] = "skipped"]
  /\ UNCHANGED <<locked, tokens, sendq, wg, monitorVars, daemonVars>>

\* s.sem <- struct{}{} finds room in the channel.
AcquireSlot(r) ==
  /\ Step(r, "claimed", "working")
  /\ tokens < Slots
  /\ tokens' = tokens + 1
  /\ UNCHANGED <<locked, sendq, wg, outcome, monitorVars, daemonVars>>

\* s.sem <- struct{}{} blocks; blocked senders are served first come, first served.
JoinQueue(r) ==
  /\ Step(r, "claimed", "queued")
  /\ tokens = Slots
  /\ sendq' = Append(sendq, r)
  /\ UNCHANGED <<locked, tokens, wg, outcome, monitorVars, daemonVars>>

\* The upload succeeded: watchdog.RecordSuccess, inside runBackup.
RecordSuccessWatchdog(r) ==
  /\ Step(r, "working", "recording")
  /\ wdFails' = [wdFails EXCEPT ![NameOf[r]] = 0]
  /\ UNCHANGED <<locked, tokens, sendq, wg, outcome, health, daemonVars>>

\* ... then health.RecordSuccess; each takes its own lock.
RecordSuccessHealth(r) ==
  /\ Step(r, "recording", "wrapping")
  /\ health' = [health EXCEPT ![NameOf[r]] =
                  [runs |-> @.runs + 1, fails |-> @.fails, consecutive |-> 0]]
  /\ UNCHANGED <<locked, tokens, sendq, wg, outcome, wdFails, daemonVars>>

\* Verification, size tracking, post-hook, notification and retention cannot fail the
\* run: runBackup returns nil.
ReturnNil(r) ==
  /\ Step(r, "wrapping", "releasing")
  /\ outcome' = [outcome EXCEPT ![r] = "ok"]
  /\ UNCHANGED <<locked, tokens, sendq, wg, monitorVars, daemonVars>>

\* A stage up to the upload failed: runBackup returns the error.
ReturnError(r) ==
  /\ Step(r, "working", "failing")
  /\ outcome' = [outcome EXCEPT ![r] = "failed"]
  /\ UNCHANGED <<locked, tokens, sendq, wg, monitorVars, daemonVars>>

\* watchdog.RecordFailure counts under its lock and sends the alert after unlocking.
RecordFailureWatchdog(r) ==
  /\ Step(r, "failing", "alerting")
  /\ wdFails' = [wdFails EXCEPT ![NameOf[r]] = @ + 1]
  /\ UNCHANGED <<locked, tokens, sendq, wg, outcome, health, daemonVars>>

\* Once the alert call is back: health.RecordFailure.
RecordFailureHealth(r) ==
  /\ Step(r, "alerting", "notifying")
  /\ health' = [health EXCEPT ![NameOf[r]] =
                  [runs |-> @.runs + 1, fails |-> @.fails + 1,
                   consecutive |-> @.consecutive + 1]]
  /\ UNCHANGED <<locked, tokens, sendq, wg, outcome, wdFails, daemonVars>>

\* notifyFailure returns, whether or not the notification went out.
NotifyFailure(r) ==
  /\ Step(r, "notifying", "releasing")
  /\ UNCHANGED <<locked, tokens, sendq, wg, outcome, monitorVars, daemonVars>>

\* defer <-s.sem: the receive takes a token out of the channel ...
ReleaseSlot(r) ==
  /\ Step(r, "releasing", "unlocking")
  /\ sendq = <<>>
  /\ tokens' = tokens - 1
  /\ UNCHANGED <<locked, sendq, wg, outcome, monitorVars, daemonVars>>

\* ... and when a sender is blocked puts that sender's element in its place.
PassSlot(r) ==
  /\ ProcessAlive
  /\ pc[r] = "releasing"
  /\ sendq # <<>>
  /\ pc' = [pc EXCEPT ![r] = "unlocking", ![Head(sendq)] = "working"]
  /\ sendq' = Tail(sendq)
  /\ UNCHANGED <<locked, tokens, wg, outcome, monitorVars, daemonVars>>

\* defer mu.Unlock()
Unlock(r) ==
  /\ Step(r, "unlocking", "leaving")
  /\ locked' = [locked EXCEPT ![NameOf[r]] = FALSE]
  /\ UNCHANGED <<tokens, sendq, wg, outcome, monitorVars, daemonVars>>

\* defer s.wg.Done(): whoever takes the counter to 0 under a registered Wait wakes it.
Leave(r) ==
  /\ Step(r, "leaving", IF wg = 1 /\ waiter = "blocked" THEN "waking" ELSE "done")
  /\ wg' = wg - 1
  /\ UNCHANGED <<locked, tokens, sendq, outcome, monitorVars, daemonVars>>

WakeWaiter(r) ==
  /\ Step(r, "waking", "done")
  /\ waiter' = "woken"
  /\ UNCHANGED <<locked, tokens, sendq, wg, outcome, monitorVars,
                 daemon, cancelled, verdict, owed>>

RunStep(r) ==
  \/ Launch(r) \/ Enter(r) \/ TryLock(r) \/ Skip(r)
  \/ AcquireSlot(r) \/ JoinQueue(r)
  \/ RecordSuccessWatchdog(r) \/ RecordSuccessHealth(r) \/ ReturnNil(r)
  \/ ReturnError(r) \/ RecordFailureWatchdog(r) \/ RecordFailureHealth(r)
  \/ NotifyFailure(r)
  \/ ReleaseSlot(r) \/ PassSlot(r) \/ Unlock(r) \/ Leave(r) \/ WakeWaiter(r)

------------------------------------------------------------------------------
(* The daemon: main and Scheduler.Start. *)

\* SIGINT or SIGTERM cancels the daemon's context, during start-up too.
Signal ==
  /\ ProcessAlive
  /\ ~cancelled
  /\ cancelled' = TRUE
  /\ UNCHANGED <<runVars, monitorVars, daemon, waiter, verdict, owed>>

\* Validation or the pre-flight check fails: Start returns the error and main exits.
Refuse ==
  /\ daemon = "starting"
  /\ daemon' = "refused"
  /\ UNCHANGED <<runVars, monitorVars, cancelled, waiter, verdict, owed>>

\* Every job is scheduled and registered with the watchdog, then cron.Start.
StartCron ==
  /\ daemon = "starting"
  /\ daemon' = "running"
  /\ wdFails' = [n \in Names |-> 0]
  /\ UNCHANGED <<runVars, health, cancelled, waiter, verdict, owed>>

\* <-ctx.Done(); s.cron.Stop(): no launch after it, and no waiting for launched goroutines.
StopCron ==
  /\ daemon = "running"
  /\ cancelled
  /\ daemon' = "stopping"
  /\ UNCHANGED <<runVars, monitorVars, cancelled, waiter, verdict, owed>>

\* watchdog.Stop and the goroutine that waits for the WaitGroup.
BeginDrain ==
  /\ daemon = "stopping"
  /\ daemon' = "draining"
  /\ waiter' = "calling"
  /\ owed' = At(InGroup)
  /\ UNCHANGED <<runVars, monitorVars, cancelled, verdict>>

\* s.wg.Wait() returns at once on a zero counter, and registers and blocks otherwise.
CallWait ==
  /\ ProcessAlive
  /\ waiter = "calling"
  /\ waiter' = IF wg = 0 THEN "passed" ELSE "blocked"
  /\ UNCHANGED <<runVars, monitorVars, daemon, cancelled, verdict, owed>>

\* A woken Wait panics when the WaitGroup was reused meanwhile.
ResumeWait ==
  /\ ProcessAlive
  /\ waiter = "woken"
  /\ IF wg = 0
       THEN waiter' = "passed" /\ UNCHANGED daemon
       ELSE daemon' = "panicked" /\ UNCHANGED waiter
  /\ UNCHANGED <<runVars, monitorVars, cancelled, verdict, owed>>

\* close(done)
CloseDone ==
  /\ ProcessAlive
  /\ waiter = "passed"
  /\ waiter' = "closed"
  /\ UNCHANGED <<runVars, monitorVars, daemon, cancelled, verdict, owed>>

\* case <-done: "all backups completed, shutdown clean"
ReturnClean ==
  /\ daemon = "draining"
  /\ waiter = "closed"
  /\ daemon' = "returned"
  /\ verdict' = "clean"
  /\ UNCHANGED <<runVars, monitorVars, cancelled, waiter, owed>>

\* case <-time.After(s.shutdownTimeout); the timer may expire at any point of the drain.
ReturnTimeout ==
  /\ daemon = "draining"
  /\ daemon' = "returned"
  /\ verdict' = "timeout"
  /\ UNCHANGED <<runVars, monitorVars, cancelled, waiter, owed>>

\* main stops the health server and returns, which ends every goroutine.
Exit ==
  /\ daemon = "returned"
  /\ daemon' = "exited"
  /\ UNCHANGED <<runVars, monitorVars, cancelled, waiter, verdict, owed>>

DaemonStep ==
  \/ Refuse \/ StartCron \/ StopCron \/ BeginDrain
  \/ ReturnClean \/ ReturnTimeout \/ Exit

WaiterStep == CallWait \/ ResumeWait \/ CloseDone

\* The process is gone.
Ended == ~ProcessAlive /\ UNCHANGED vars

Next ==
  \/ \E r \in Runs : RunStep(r)
  \/ Signal
  \/ DaemonStep
  \/ WaiterStep
  \/ Ended

Spec == Init /\ [][Next]_vars

\* The main goroutine keeps running, and the timer of the drain expires.
DaemonFairness == WF_vars(DaemonStep)

\* A launched goroutine keeps running, and the calls it makes to the database, the
\* upload target and the notifiers come back.  Ticks are not promised.
RunFairness ==
  \A r \in Runs : WF_vars(pc[r] # "unborn" /\ RunStep(r))

\* The daemon's own goroutines go on; the backups may hang.
FairSpec == Spec /\ DaemonFairness

------------------------------------------------------------------------------
(* Properties. *)

\* Two goroutines of one backup name are never both past TryLock and before Unlock
\* (scheduler.go:269-275): runs of a backup cannot overlap, however the ticks fall.
JobMutex ==
  \A r, s \in Runs :
    r # s /\ NameOf[r] = NameOf[s] => ~({r, s} \subseteq At(HoldingLock))

\* The channel holds one token for each backup that occupies a slot, and nobody is
\* blocked on it while it has room: no slot is lost or idle (scheduler.go:278-279).
SlotAccounting ==
  /\ tokens = Cardinality(At(Occupying))
  /\ sendq # <<>> => tokens = Slots

\* A run is skipped only because another run of the same name is under way: a mutex
\* left locked would silently skip every later backup of the name (scheduler.go:271-273).
SkipHasPeer ==
  [][\A r \in Runs : outcome'[r] = "skipped" /\ outcome[r] = "none" =>
       \E s \in Runs \ {r} : NameOf[s] = NameOf[r] /\ pc[s] \in HoldingLock]_vars

\* Run r is blocked on the semaphore, and s has asked for a slot after it.
Ahead(r, s) ==
  /\ pc[r] = "queued"
  /\ \/ pc[s] = "claimed"
     \/ \E i, j \in 1..Len(sendq) : i < j /\ sendq[i] = r /\ sendq[j] = s

\* A run blocked on the semaphore stays ahead of every run that asks for a slot after it,
\* blocked or not, until it gets its own: slots are given in the order in which they are
\* asked for, through any number of joins and hand-overs (scheduler.go:278-279).
NoOvertaking ==
  [][\A r, s \in Runs : Ahead(r, s) => Ahead(r, s)' \/ pc'[r] = "working"]_vars

\* When a backup has no run under way, the watchdog and the health server, each updated
\* under a lock of its own, agree on the failures since its last success, and the health
\* server has counted every run that was not skipped, once (scheduler.go:281-287, 468-473).
MonitorsAgree ==
  \A n \in Names : ~locked[n] =>
    LET ended(results) == {r \in Runs : NameOf[r] = n /\ outcome[r] \in results}
    IN  /\ wdFails[n] = health[n].consecutive
        /\ health[n].runs = Cardinality(ended({"ok", "failed"}))
        /\ health[n].fails = Cardinality(ended({"failed"}))

\* A drain that reports a clean shutdown has waited for every run that was in the
\* WaitGroup when it began (scheduler.go:208-217).
CleanDrainWaited ==
  verdict = "clean" => \A r \in owed : pc[r] = "done"

\* The WaitGroup panics only when a run enters it after the drain began
\* (scheduler.go:202, 210-213, 266).
PanicNeedsLateRun ==
  daemon = "panicked" => At(InGroup) \ owed # {}

\* "Track intent before blocking on semaphore so wg.Wait() during shutdown doesn't return
\* early while goroutines are queued" (scheduler.go:264-265): when the daemon logs "all
\* backups completed, shutdown clean" (scheduler.go:217) no launched run is unfinished.
\* The code does not keep this: Add is a statement of the goroutine, not of its launcher.
CleanShutdownIsIdle ==
  verdict = "clean" => At({"launched"} \cup InGroup) = {}

\* A cancelled daemon ends, even if a backup never comes back (scheduler.go:200-223).
ShutdownCompletes == cancelled ~> ~ProcessAlive

\* If no backup hangs, every launched goroutine ends, by skipping or by running, unless the
\* process ends first: nobody waits for a slot forever (scheduler.go:266-290).
EveryRunEnds ==
  RunFairness =>
    \A r \in Runs : pc[r] = "launched" ~> (pc[r] = "done" \/ ~ProcessAlive)

\* The names that wait for a slot and those that occupy one are the abstract scheduler's.
Abstract == INSTANCE BackupSlots WITH
  waiting <- {NameOf[r] : r \in At(Waiting)},
  active  <- {NameOf[r] : r \in At(Occupying)}

\* The goroutines, the mutexes and the channel implement the abstract scheduler: per name
\* at most one backup waits or runs, and at most Slots run (scheduler.go:262-293).
ImplementsBackupSlots == Abstract!SlotsSpec

------------------------------------------------------------------------------
(* The inductive invariant behind the properties; SchedulerProofs proves it. *)

\* The mutex of a name is locked exactly while one run of the name is between TryLock
\* and Unlock.
LockInv ==
  /\ JobMutex
  /\ \A n \in Names : locked[n] <=> \E r \in At(HoldingLock) : NameOf[r] = n

\* sendq lists the goroutines blocked on the channel, each once.
QueueInv ==
  /\ \A i \in 1..Len(sendq) : sendq[i] \in At({"queued"})
  /\ \A i, j \in 1..Len(sendq) : sendq[i] = sendq[j] => i = j
  /\ \A r \in At({"queued"}) : \E i \in 1..Len(sendq) : sendq[i] = r

\* The counter of the WaitGroup counts the runs between Add and Done.
GroupInv == wg = Cardinality(At(InGroup))

\* How far the drain is, and what that says of the runs it waits for.
DrainInv ==
  /\ daemon \in {"starting", "running", "stopping"} =>
       waiter = "none" /\ verdict = "none" /\ owed = {}
  /\ owed \subseteq At(InGroup \cup {"waking", "done"})
  /\ \A r \in At({"waking"}) : waiter = "blocked" /\ At({"waking"}) = {r}
  /\ At({"waking"}) # {} /\ ProcessAlive => At(InGroup) = {}
  /\ waiter \in {"woken", "passed", "closed"} => owed \subseteq At({"done"})
  /\ verdict = "clean" => waiter = "closed"
  /\ PanicNeedsLateRun

\* The watchdog counts a failure before the health server does, and resets before it.
CountersInv ==
  /\ daemon = "starting" => At({"unborn"}) = Runs /\ wdFails = [n \in Names |-> 0]
  /\ \A r \in At({"recording"}) : wdFails[NameOf[r]] = 0
  /\ \A r \in At({"alerting"}) : wdFails[NameOf[r]] = health[NameOf[r]].consecutive + 1
  /\ \A n \in Names :
       (\A r \in At({"recording", "alerting"}) : NameOf[r] # n) =>
         wdFails[n] = health[n].consecutive

\* The failed runs and the ended runs of a name that the health server has counted.
CountedFails(n) ==
  {r \in Runs : NameOf[r] = n /\ outcome[r] = "failed" /\ pc[r] \notin {"failing", "alerting"}}

CountedRuns(n) ==
  {r \in Runs : NameOf[r] = n /\ (pc[r] = "wrapping" \/ outcome[r] = "ok")} \cup CountedFails(n)

\* The health server counts each run once, before its result is known to the scheduler if
\* it succeeded and after that if it failed.
TallyInv ==
  /\ \A r \in At({"unborn", "launched", "entered"} \cup Waiting \cup InRunBackup) :
       outcome[r] = "none"
  /\ \A r \in At({"failing", "alerting"}) : outcome[r] = "failed"
  /\ \A n \in Names : /\ health[n].runs = Cardinality(CountedRuns(n))
                       /\ health[n].fails = Cardinality(CountedFails(n))

SchedulerInv ==
  /\ TypeOK
  /\ LockInv
  /\ SlotAccounting
  /\ QueueInv
  /\ GroupInv
  /\ DrainInv
  /\ CountersInv
  /\ TallyInv

==============================================================================
