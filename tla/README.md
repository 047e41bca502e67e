# dumptruckd in TLA+

dumptruckd is a backup daemon: on cron schedules it dumps databases, compresses,
encrypts and uploads the dumps, verifies what it uploaded, runs hooks, sends
notifications, prunes old backups and watches for backups that no longer succeed.
A `restore` command takes a stored backup back to the database, a `status` command
asks the daemon how its backups fare, and other modes check or run everything once.

This directory models the parts of it that are hard to test: goroutines that
share locks and a semaphore, a drain with a timer, stages that fail after others
have left files behind, alerts sent after a mutex was released, a directory that uploads,
retention and restores use at the same time, a lock that HTTP handlers hold while
they write, and a configuration put together from many files. TLC checks the models
on small instances; TLAPS proves the safety properties of every component for any
instance.

Paths below are relative to the repository, e.g. `pkg/scheduler/scheduler.go`.

## 1. The system: components, state, operations

| Component | Code | State it keeps | Operations | Talks to |
|---|---|---|---|---|
| scheduler | `pkg/scheduler/scheduler.go`, `cmd/dumptruckd/main.go` | cron entries, `jobLocks`, channel `sem`, WaitGroup `wg`, uploader cache | Start, scheduleBackup (one goroutine per tick), drain, RunBackup | everything below |
| backup pipeline | `runBackup` in `scheduler.go` | temporary files and the deferred removals, `fileToUpload`, `remotePath` | the stages, post-hook, notifications, retention | dumpers ... notifiers, watchdog, health |
| retry | `internal/retry/retry.go` | the loop counter | Do | wraps dump, upload, notify |
| dumpers | `pkg/dump` | dump file and password file in `$TMPDIR` | Dump | pg_dump, mysqldump |
| compressors, encryptors | `pkg/compress`, `pkg/encrypt` | their output file | Compress, Encrypt | gzip, age, gpg |
| uploaders | `pkg/upload` | the files or objects at the destination | Upload, Verify, Delete | file system, S3 |
| verifier | `pkg/verify`, `internal/fileops` | a temporary directory | Verify, Download | uploader's files |
| hooks | `pkg/hooks` | none | RunHook | `sh -c` |
| notifiers | `pkg/notify` | none | Notify | Slack, webhook |
| watchdog | `pkg/watchdog` | per backup: last success, failures in a row, alert level | Register, RecordSuccess, RecordFailure, CheckAll, Stop | alerter |
| health server | `pkg/health` | per backup: runs, failures, last run, sizes | RecordSuccess, RecordFailure, RecordSize, HTTP handlers | `status` command |
| retention | `pkg/retention` | none (works on the directory) | Cleanup | local destination |
| size tracker | `pkg/sizetrack` | last ten sizes per backup | Record | notifier through runSizeTrack |
| restore | `pkg/restore` | a temporary directory | List, selectBackup, Restore | local destination, psql, mysql |
| configuration | `pkg/config` | the configuration | Load, LoadFromEnv, Validate | files, environment |
| main program | `cmd/dumptruckd/main.go` | none beside what it creates | the modes: daemon, `--once`, `--run-now`, `--dry-run`, `--dump-config`, `-test`, `status`, `restore` | configuration, scheduler, health server |
| status command | `cmd/dumptruckd/status.go` | none | ask, show | health server, local destination |
| config tester, credentials, logger, path helpers | `pkg/test`, `internal` | none that outlives a call | | |

What is hard about each, and the property that makes it correct:

* **scheduler** - one goroutine per cron tick, a `TryLock` per backup name, a
  blocking send to the semaphore under that lock, three deferred releases, and a
  shutdown that waits for a WaitGroup the goroutines enter by themselves. Correct
  if runs of one backup exclude each other, no slot or lock is lost, nobody waits
  forever, and a drain called clean really is.
* **pipeline** - eleven error returns between which files, deferred calls, hooks and
  records accumulate; retries; a context that may be cancelled at any point.
  Correct if what is recorded and told is what happened, nothing but the chosen
  form of the backup leaves the host, and nothing is left in `$TMPDIR`.
* **watchdog** - decisions under a mutex, alerts after it, a ticker that drops ticks.
  Correct if every staleness is told once per level, and what is told is current.
* **destination directory** - uploads write to the final path, retention decides on an
  older view of the directory than the one it deletes from, restore is another
  process. Correct if the last good backup always survives and `--latest` brings back
  that one or a later one, never what a failed copy left behind.
* **configuration** - files that include, repeat, override and break one another, each
  kind of section with its own rule. Correct if each file counts once, in the documented
  order, and what cannot be read or resolved is refused.
* **main program** - eight modes, each with its own checks before the first backup.
  Correct if nothing unchecked runs, one failing backup does not stop the others, and
  the exit code tells the outcome.
* **health server, size tracker, status** - a read-write lock between runs that record and
  handlers that write to clients under it. Correct if no client can hold up the runs or
  the exit for good, and if a reply is one moment's truth.

`PROJECT.json` lists all hazards with the lines where they bite.

## 2. Modules and plan

| Module | Subject | Status |
|---|---|---|
| `BackupSlots` | abstract specification: what the scheduler promises about concurrency | done, implemented by `Scheduler` |
| `Scheduler`, `MCScheduler` | goroutines, mutexes, channel, WaitGroup, drain, counters of the monitors | done |
| `BackupRun` | one `runBackup` with everything it calls | done |
| `Watchdog`, `MCWatchdog` | records, periodic check, alerts, estimated intervals | done |
| `BackupStore`, `MCBackupStore` | local destination: uploads, retention, restore | done |
| `ConfigLoad` | merging of files, references, Validate | done |
| `Startup`, `MCStartup` | the process from its flags to its exit code; extends `ConfigLoad` | done |
| `Monitors`, `MCMonitors` | size tracker, health server, `status` | done |
| `SchedulerProofs` | the invariants of `Scheduler`, and that it implements `BackupSlots` | proved |
| `BackupRunProofs` | what is stored, recorded, told and left behind by a run | proved |
| `WatchdogProofs` | alerts are current, escalate and miss nothing; no false alarm within the sample | proved |
| `BackupStoreProofs` | the newest backup survives; retention is a union and complete; restores | proved |
| `MonitorsProofs` | replies are one moment's truth; anomalies are those of the window | proved |
| `StartupProofs` | what is loaded is what is documented; exit codes; nothing starts unchecked | proved |
| `IntegerLemmas` | least and greatest elements, remainders | used by the proofs |
| `SequenceLemmas` | sums over sequences in any order; `FlattenSeq` | used by the proofs |

The order in which they were written is that of the table; what is left is in section 5
("Model-checked only").

`Scheduler` treats a run as one call that succeeds or fails; `BackupRun` is that
call. Both have the failure handling of scheduleBackup (watchdog, health,
notification), which is where they meet. `Watchdog` is the component behind
`wdFails` in `Scheduler`. `BackupStore` takes from `Scheduler` that runs of one
backup do not overlap, and from `BackupRun` that retention follows a successful
upload; it looks at several runs where `BackupRun` looks at one. `Startup` has the daemon
between its start and its signal as one phase, which is `Scheduler`, and each run of
`--once` as one step. `Monitors` has of each run what it records; where in a run that
happens is in `BackupRun`, and the lock that keeps runs of one backup apart in `Scheduler`.

Each component module has *faulty forms* of some of its actions and operators. No
behaviour takes them; each is a plausible bug, and `PROJECT.json` ("mutants") says
which property fails when it replaces the definition it is named after.

## 3. How the models correspond to the code

`PROJECT.json` ("map") gives the lines of every definition. The conventions:

**Scheduler.** `pc[r]` is the program point of the goroutine of tick `r`;
`locked[n]` the mutex of `jobLocks[n]`; `tokens` and `sendq` the buffered channel
`sem` and the senders blocked on it (a receive on a full channel hands the slot to
the oldest of them, as the Go runtime does); `wg` the WaitGroup's counter, with the
panics Go's WaitGroup has when it is reused under a waiter; `waiter` the goroutine
that calls `wg.Wait`. `Launch` is cron starting the goroutine and `Enter` its first
statement, `wg.Add(1)`. Watchdog and health server are updated in separate steps
because each has a lock of its own. `owed`, `outcome` are history.
A process that ends (`Exit`, `Refuse`, a panic) takes all goroutines with it.

**BackupRun.** `stage` is the place in `runBackup`, `attempt` the counter in
`retry.Do`, whose backoff is a stage of its own because a cancelled context ends it.
Files are named by what they hold: `temp` is the run's share of `$TMPDIR`, `defers`
the stack of `defer os.Remove`, `copies` what is at the destination, with the date in
its path. An S3 put may have happened although it reports an error; a local upload
writes to its final path from the start, and what it has copied when it fails is removed
or stays, because the error of that `os.Remove` is ignored (`stuck` remembers where, as
history). In `$TMPDIR` a file whose path was never returned has a name of its own
("abandoned" by the MySQL dumper, "unreturned" by an encryptor); there the deferred
`os.Remove` calls are taken to succeed. A crash leaves what was being written.
All of cfg (512 combinations of engine, target, hooks, compression, encryption,
verification, notifier, retention) is explored.

**Watchdog.** Time in units in which intervals and the ticker's period are whole.
`failing` is a count between `RecordFailure`'s unlock and its alert, `alerts` what
`CheckAll` has decided and not told. `due` is the one tick the ticker's channel keeps.
A schedule is the set of times of a cycle at which cron starts a run; the interval a
backup is registered with is computed from it as `estimateCronInterval` does. `epoch`,
`lastSent`, `told` and `missed` are history.

**BackupStore.** A file is the backup's name, the number of the run, the date in its
directory, the timestamp in its name, its modification time, and whether it is whole.
A copy that fails is removed or stays (the error of that `os.Remove` is ignored), and the
next attempt writes over it if the date is still the same. `Collect` is Cleanup up to the
decisions, then each `os.Remove` is a step; what the walk could not look at, be it a file,
a directory or the base path, is `failed` from the start. The age limit is that of
`AddDate`: so many calendar days of local time, where an hour that came twice may be taken
as either (`Cutoffs`). The restore command lists and selects (one directory walk), opens,
reads and applies; a file opened while an upload writes it may be read whole or not. Local
time may be set back once. Assumed: one dumptruckd writes to the directory; cron starts
runs at full seconds and a retry waits for more than a second, so what is opened is newer
than what earlier runs and attempts of that backup wrote; a file that is not complete has
the modification time at which it was opened; the hooks, verification and notifications between a run's upload and its retention take
less than a day (else `retention.days = 1` alone may remove the fresh backup). Names are
those `resolveReferences` has sanitised, each used by one entry.

**ConfigLoad.** Files are numbers in alphabetical order. `disk` is what each one is:
absent, broken or a text with includes, component definitions, backups, a logging and a
health section. Two further items stop the loading when their turn comes: `Malformed`, which
an include that `filepath.Glob` refuses stands for, and `ConfigDir`, a config.d that is
there and cannot be listed. A glob into such a directory finds nothing and is no error. The five maps of components are merged and resolved by the same code five
times and stand as one. `todo` is the rest of the loops over includes and config.d, fixed
when they begin, because Go evaluates a `range` once; `loaded` is the map of that name.
What a component or inline section says is one of `Adapters`: some Validate accepts, some
their factory can make, and neither implies the other.

**Startup.** `phase` is the place in `main` or in a subcommand, `mode` the flag, in the
order `main` looks at them; `ran` is the outcome of each run. Everything a mode connects to
may fail, so a passing `-test` or `--dry-run` is possible only under its checks and never
certain. `-test` tries a notifier only if a backup refers to it; as the five maps stand as
one, which of the unused components it tries is open.

**Monitors.** `writer` is the run that holds or awaits the write lock and `handler` where
each request stands: "blocked" behind a waiting writer, or "reading" with the read lock
(Go's RWMutex lets no new reader pass a waiting writer, and lets the blocked ones in before
the next writer). `Copy` is one iteration over the map of records, `Answer` and
`WriteTimeout` the two ways out of the write to the client; `GiveUp` is the three seconds
of the status command, after which the handler goes on alone. `/metrics` uses the lock in
the same way and is not told apart. `log`, `sizes` and `seen` are history: what has been
recorded, and the moments between a request and its reply.

## 4. What the runs check

| Run | Instance | What it shows |
|---|---|---|
| `scheduler_safety` | 2 names, 3 ticks (2 of one name), 1 slot; 121 thousand states | mutual exclusion per name (`JobMutex`), no slot lost or idle (`SlotAccounting`), the two monitors agree between runs (`MonitorsAgree`), a clean drain waited (`CleanDrainWaited`), a WaitGroup panic needs a late run (`PanicNeedsLateRun`), a skip has a peer (`SkipHasPeer`), and the inductive invariant `SchedulerInv` |
| `scheduler_progress` | 3 names, one tick each, 1 slot, fair | slots are given in the order in which they are asked for (`NoOvertaking`), refinement of `BackupSlots`, shutdown always completes, and every launched run ends if no backup hangs |
| `scheduler_clean_shutdown` | 2 names, 3 ticks | **violated**: "shutdown clean" while a launched goroutine has not reached `wg.Add` |
| `backup_run` | 1 retry, 1 notification retry, 1 midnight; 1.8 million states | the inductive invariant `BackupRunInv`; files, copies, records, hooks, notifications and retention agree with the result in every way a run can go, and it ends |
| `backup_run_hooks` | no midnight | **violated**: the post-hook is not started under a cancelled context |
| `watchdog` | 2 backups, one due at every unit, one at two units of four, period 2, time to 10, up to 6 failures | the inductive invariant `WatchdogInv`; staleness is told, never of a backup whose runs succeed, alerts only escalate, failure alerts are current, Stop ends the goroutine |
| `watchdog_gaps` | `0 9-17 * * *`, in hours, period 1 | **violated**: a backup each of whose runs succeeded is called stale |
| `backup_store` | 1 backup under four policies, 3 runs, days of 2 ticks, time to 3; 4.6 million states | the inductive invariant `BackupStoreInv`; the last good backup survives (`NewestSurvives`), retention removes only what neither limit keeps (`UnionPolicy`) and all of it that it could look at and remove (`CleanupCoversAll`), `--latest` brings back whole the last backup reported, or a later one (`LatestRestoresReported`), a vanished file was replaced (`VanishedWasReplaced`), "latest" is the newest while time goes forward (`LatestIsNewestByClock`) |
| `backup_store_latest` | 1 backup, 2 runs | **violated**: after local time was set back `--latest` takes the older backup |
| `startup` | 8 modes, 4 files and config.d in 1,100 combinations, 4 environments; 444 thousand states | the inductive invariant `StartupInv`; each file is merged once in the documented order (`MergedAsDocumented`), the exit code of `--once` and `--run-now` tells the outcome (`ExitTellsOutcome`), nothing runs or serves unchecked (`StartedIsChecked`) |
| `startup_health` | the same | **violated**: a serving daemon without the health server its file enables |
| `monitors` | 2 backups with 4 and 1 runs, window 2, 1 client, fair; 497 thousand states | the inductive invariant `MonitorsInv`; anomalies are those of the sizes tracked (`AnomaliesAreTrue`), a reply is one moment's truth (`RepliesAreTrue`), no client holds up a run or the exit for good (`MonitoringNeverHangs`) |

*Bounds and why they are enough.* Three ticks on one slot have a run in each role: with
two names one is in the slot, one queued and one skipped; with three names one is in the
slot, one queued and one asking. More of them repeat these roles (four ticks of three
names were checked once, 2.7 million states), and the proofs cover any number. One retry
has a first, a repeated and a last attempt; one midnight separates the dates of two attempts. Six failures pass
both severity limits, and time 10 passes four intervals of the one backup and twice that
of the other, so every alert level occurs. Three runs are a victim of retention, its
protected neighbour and the run that prunes, or a crashed run between two good ones; two ticks to a day and time 3 let a
file pass the age limit and a retry fall on another day. The disks of `startup` are three families: a main file whose
includes name itself, a file twice, files in and out of order, a glob, and one that is no
pattern, beside files that are absent, broken, include one another or define the same
component, in a config.d that can be listed or not; one file with
every combination of entries, logging and health that a check or a mode tells apart; and
no file at all. In `monitors` four runs of one backup fill a window of two and trim it, and
fail three times and more; the other backup makes a reply more than one copy. One client
reads while a run waits, waits behind a run, gives up and asks again, which is every
meeting of a reader with a writer. Bounds are in the constants (`Runs`, `MaxRetries`,
`LastDay`, `MaxTime`, `MaxFails`, `MaxSuccesses`, `MaxRuns`). The two ticks of one name are
interchangeable, so `scheduler_safety` uses symmetry; the runs with liveness do not.

*Fairness.* `Scheduler.FairSpec` has weak fairness of the main goroutine only: Go's
scheduler runs it and the drain's timer expires. That backups end (`RunFairness`: a
launched goroutine goes on and its calls come back) is not assumed but is the hypothesis
of `EveryRunEnds`; a signal and cron's ticks are never promised. `BackupRun` assumes
that calls to tools and targets return. `Watchdog` assumes that the goroutine goes on
and alert calls return (the HTTP client has a timeout), and strong fairness of the
select's stop case: Go picks among ready cases at random. `Monitors` assumes that a run
goes on from the end of its pipeline (what it does there is bookkeeping), that a handler
ends with its reply or its `WriteTimeout`, and that `Shutdown` returns when no handler is
left; nothing makes a client ask, a client read, or a signal arrive. `Startup` states none.

Each passing safety run checks the inductive invariant of its component, of which the type
invariant `TypeOK` is the first conjunct: a lemma that is not inductive is cheapest to
find there.  Deadlock is checked in every run; a process that has ended stutters explicitly.

## 5. What is proved

Each safety property that a run checks, invariant or action property, is a theorem, for
every value of the constants its module's assumption admits. The theorems, by module:

| Module | Theorems | Properties | For every |
|---|---|---|---|
| `SchedulerProofs` | `SchedulerInvariant`, `TypeCorrect`, `RunsExcludeEachOther`, `SlotsAreAccounted`, `MonitorsStayInAgreement`, `CleanDrainWaits`, `PanicsComeFromLateRuns`, `SkipsHaveAPeer`, `BlockedRunsAreNotOvertaken`, `SchedulerImplementsBackupSlots` | `SchedulerInv`, `TypeOK`, `JobMutex`, `SlotAccounting`, `MonitorsAgree`, `CleanDrainWaited`, `PanicNeedsLateRun`, `SkipHasPeer`, `NoOvertaking`, `ImplementsBackupSlots` | finite set of runs, their names, capacity |
| `BackupRunProofs` | `BackupRunInvariant`, `NothingElseLeaves`, `RecordedRunsAreStored`, `ReturnedRunsCleanUp`, `LocalUploadsAreWhole`, `PostHookCalledOnce`, `NoticesTellTheEnd` | `BackupRunInv`, `OnlyChosenFormLeaves`, `RecordedIsStored`, `TempFilesRemoved`, `LocalUploadAllOrNothing`, `PostHookOnce`, `NoticesAreTrue` | number of retries and of midnights |
| `WatchdogProofs` | `WatchdogInvariant`, `ToldFailuresAreCurrent`, `StaleBackupsAreTold`, `StaleAlertsEscalate`, `SampledAlarmsAreTrue` | `WatchdogInv`, `FailureAlertsAreCurrent`, `StaleIsTold`, `AlertsEscalate`, `NoFalseAlarmIfSampled` | finite set of backups, periodic schedules, start, period of the check, bounds of the estimate |
| `BackupStoreProofs` | `BackupStoreInvariant`, `TheNewestSurvives`, `RetentionIsAUnion`, `RetentionCoversAll`, `LatestRestoresTheReported`, `ReplacedBeforeVanishing`, `LatestIsNewestUntilSetBack` | `BackupStoreInv`, `NewestSurvives`, `UnionPolicy`, `CleanupCoversAll`, `LatestRestoresReported`, `VanishedWasReplaced`, `LatestIsNewestByClock` | set of names, retention policies, length of the day, shift of local time |
| `StartupProofs` | `StartupInvariant`, `MergeIsDocumented`, `ExitCodesTell`, `NothingStartsUnchecked` | `StartupInv`, `MergedAsDocumented`, `ExitTellsOutcome`, `StartedIsChecked` | finite set of files, whatever they include, define and repeat; environment; components |
| `MonitorsProofs` | `MonitorsInvariant`, `RepliesTrue`, `AnomaliesTrue` | `MonitorsInv`, `RepliesAreTrue`, `AnomaliesAreTrue` | finite sets of backups and clients, window, thresholds, sizes, numbers of runs |

The bounds on time and on counters (`MaxTime`, `MaxRuns`, `MaxFails`, `MaxSuccesses`) are
constants of which only their type is assumed, so a theorem holds for any of them.
The assumptions are `SchedulerAssumption`, `BackupRunAssumption`, `WatchdogAssumption`,
`BackupStoreAssumption`, `MonitorsAssumption`, `ConfigAssumption` and `StartupAssumption`:
types, finiteness and, where the code has it, a bound away from zero (a semaphore has a
slot, a period is positive). TLC evaluates each of them.

*The arguments.* No property is inductive alone. Each component has one inductive
invariant, in its own module so that TLC checks it too, and its proofs have one lemma per
conjunct with one step per action.

* **Scheduler.** `JobMutex` needs that a mutex is locked exactly while one run of its name
  is past `TryLock` (`LockInv`). `SlotAccounting` counts program points, and handing a slot
  to a blocked sender moves two goroutines at once, so the queue must hold exactly the runs
  at "queued", each once (`QueueInv`); by the same a run of the queue keeps its place before
  whoever asks later (`NoOvertaking`). The drain's claims need that the WaitGroup counts
  the runs between Add and Done (`GroupInv`) and that a run about to wake the waiter is
  alone (`DrainInv`). That the monitors agree needs to know which run is between their two
  updates (`CountersInv`), and which runs the health server has counted: a success before
  the scheduler has its result, a failure after (`TallyInv`). In the refinement a step
  on program points becomes a step on sets of names, which is where `JobMutex` gives that a
  name leaves the set together with its only run.
* **BackupRun.** What is on disk, at the destination, recorded, hooked and told is a
  function of the stage and the result, which `FileInv`, `LocalInv`, `CountInv`, `TempInv`,
  `HookInv` and `NoticeInv` state. `LocalUploadAllOrNothing` needs that besides an open local
  file there are only partial copies that `os.Remove` has left, also when the date in the
  path has changed between attempts; a later attempt at the same path overwrites them.
  `TempFilesRemoved` needs that what lies in `$TMPDIR` is on the stack of deferred removals
  or is one of the two files whose path was never returned.
* **Watchdog.** Alerts are sent after the mutex is released, so what is told may be
  older than what is known. `AlertsEscalate` needs that a decided alert agrees with
  `lastAlertLevel` unless a run has succeeded since (`DecidedInv`), and that a level is sent
  or still in the list (`SentInv`). `StaleIsTold` needs that the last tick taken has raised
  every job to the level it had at the tick or worse (`CheckedInv`). `NoFalseAlarmIfSampled`
  is about the schedule and not the steps: the gaps after a cycle repeat (remainders,
  `IntegerLemmas`), so if the cycle is within the sample the largest gap is in it, and a job
  that has not succeeded for longer has missed a run (`MissedInv`).
* **BackupStore.** A later run's file is newer (`FilesInv`), which is where it matters that
  uploads of one backup do not overlap. `PruneInv` then says of what `Collect` has doomed, at
  the later moment when it is removed, that keep_last newer files are still there; the run's
  own file is the newest and therefore never among the doomed. `CleanupCoversAll` counts: of
  the files beyond the limit all but keep_last are doomed or have failed. Paths are in order
  as long as local time was not set back (`ClockInv`): a partial copy that a failed attempt
  left has the stamp of its run and a day not after that of the whole one, which is why
  `--latest` finds the whole one (`ChoiceInv`). Between choice and download that file may
  be removed but not written over, because its run is over (`TargetInv`).
* **Startup.** `LoadInv`: what has been taken off the list is what is merged, each file
  once. The list may name a file many times and the code keeps a map of the files read;
  what is promised is told by first occurrences. That one more file leaves the first
  occurrences alone or appends one (`FirstsNext`) needs the order of a finite set of
  indices (`InOrderPlaces`: each has its own place and each place is taken, by
  cardinalities), and that one more file appends its backups and overrides definitions
  needs `FlattenNext` and `DefinedNext`. `SourceInv` carries the result to the modes, and
  `ModeInv` says which of them have checked it.
* **Monitors.** A reader's copy is what the records still are, because nobody writes while
  it reads (`ReadersInv`), so its reply is the moment it unlocks. The tracker's window
  holds the last sizes of the whole history and has judged the last one by those before it
  (`TrackerInv`); that its average is the one the property speaks of needs that two sums
  that take the numbers in different orders agree. What a fold computes cannot be proved by
  induction over data here: both sums are instead the cardinality of one set that has as many elements as the
  numbers have units (`SequenceLemmas`). For `FlattenSeq` the function it recurs by is
  shown to exist and to be the only one by the least index where it would not.

`TypeOK` is the first conjunct of each inductive invariant. `LevelAt` and `Severity` in
`Watchdog` are nested conditionals and not CASE: the guards of the code's switch overlap,
the first that holds wins, and a CASE of TLA+ whose guards overlap may take any.
`InOrder` in `ConfigLoad` sorts by counting for the provers' sake; the library's sort
recurs in a way they cannot expand.

*Model-checked only.* Liveness under fairness and anything with ENABLED is out of the
prover's reach: `ShutdownCompletes`, `EveryRunEnds`, `RunEnds`, `StopEndsChecks`,
`MonitoringNeverHangs`. So are the library's induction theorems, which take an operator, and
what a RECURSIVE operator computes; no module here has one.

## 6. What the models found

| Finding | Where |
|---|---|
| A goroutine launched just before cron stops is not in the WaitGroup yet; the drain can report a clean shutdown while its backup starts | `scheduler.go:264-266` |
| Post-hooks do not run once a shutdown has cancelled the context, contrary to the documentation | `scheduler.go:510`, `docs/CONFIGURATION.md:357` |
| `restore --latest` relies on local timestamps in file names and is wrong after local time was set back | `restorer.go:137-142` |
| The watchdog's interval comes from eight gaps: a schedule with more runs before its longest gap is called stale although every run succeeds | `scheduler.go:226-260` |
| The `[health]` section of a configuration file is parsed and dropped, so the health server runs only when the environment configures everything | `config.go:250-315`, `docs/CONFIGURATION.md:212-218` |

Every other property that is checked holds. Met while modelling, visible in the models, and
without a run of their own:

* The MySQL dumper leaves its dump file when it cannot create the password file
  (`mysql.go:77-80`), and an encryptor that cannot remove its input leaves its output
  (`age.go:46-49`). `TempFilesRemoved` names these two files and no other.
* A local upload that fails half-way ignores the error of `os.Remove` (`local.go:75`): then
  the partial copy stays at the destination, where restore and retention take it for a
  backup.
* The WARN level of stale alerts is never used: detection starts where ERROR does
  (`watchdog.go:117, 132, 156-163`).
* Includes of included files are not followed, and a logging section without a level is
  dropped (`config.go:174, 306-309`). Files in `include` are read in the order of the list,
  as `docs/CONFIGURATION.md:197-201` says and `MergedAsDocumented` states; the comment at
  `config/dumptruckd.toml.example:31` speaks of alphabetical order, which the list below it
  does not have either. The includes of `startup` have a list in another order than the
  alphabetical one.
* Two names that become equal when sanitised share lock, records and directory
  (`config.go:366-368`).
* A glob into a config.d that cannot be listed finds nothing without a word; only the
  reading of config.d itself refuses it (`config.go:181-214`).
* `-test` does not call Validate and reads no environment, so "Your configuration is ready
  to use" (`cmd/dumptruckd/test.go:75`) may be said of one the daemon refuses.
* The pre-flight check makes no encryptor (`scheduler.go:157-166`).
* `status` shows NOT RUNNING also for a refused token or a slow answer
  (`status.go:104-112`).
* The drain waits for runs whose context it has cancelled, so retries and tools end early.

## 7. Not modelled, and why

* Contents: SQL, archives, keys; wording of messages and logs; options of the tools.
* Cron's own scheduling: in `Scheduler` ticks are arbitrary, in `Watchdog` a schedule
  repeats after a cycle.
* The uploader cache: one lock around a map.
* Formatting: the tables and JSON of `status`, the metrics format, and the scan of the local
  directory for them. `SetNextRun` has no caller.
* `buildAlerter`'s choice of notifiers; the watchdog model stops at the call of the alerter.
* The probes of the config tester and of `--dry-run` (a test dump, a bucket, a test
  message): each is one verdict that may fail.
* The five kinds of components one by one, and the individual checks of Validate: they
  differ in field names and wording.
* Whether `age`, `gpg` and gzip notice a file that is not whole: `Apply` may restore one.
* Local time set forward, and set back more than once.
* Several processes writing one directory (`--once` beside a daemon): the code has no lock
  between processes; listed as a hazard.
* S3 retention and lifecycle rules: the code leaves them to the bucket.
