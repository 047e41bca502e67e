----------------------------- MODULE BackupStore -----------------------------
(***************************************************************************)
(* The local destination directory and those who share it: the uploads of  *)
(* the backup runs (pkg/upload/local.go), the retention each run ends with *)
(* (pkg/retention/retention.go, runRetention) and the restore command, a   *)
(* process of its own (pkg/restore, pkg/verify/local_downloader.go).       *)
(*                                                                         *)
(* A file is known by the backup it belongs to, the run that wrote it, the *)
(* date directory and the timestamp in its name (local time, as the code   *)
(* formats them) and its modification time.  One daemon writes to the      *)
(* directory, and runs of one name do not overlap (module Scheduler).      *)
(***************************************************************************)
EXTENDS Integers, FiniteSets

CONSTANTS
  Names,    \* the backups' names as the configuration sanitises them, one entry each
  Entries,  \* what the configuration may say of a backup's retention: days and keepLast
  DayLen,   \* ticks of the clock in a day
  Shift,    \* by how many ticks local time is set back, when it is
  MaxTime,  \* when the clock stops (bounds a behaviour)
  MaxRuns   \* how many runs each backup has (bounds a behaviour)

ASSUME BackupStoreAssumption ==
  /\ Entries \subseteq [days : Nat, keepLast : Nat]
  /\ DayLen \in Nat \ {0} /\ Shift \in Nat \ {0}
  /\ MaxTime \in Nat /\ MaxRuns \in [Names -> Nat]

VARIABLES
  cfg,     \* the configuration
  clock,   \* time, in ticks
  back,    \* how far local time has been set back
  backAt,  \* when it was
  files,   \* what is in the directory
  stage,   \* where the current run of each backup is
  current, \* its number, the timestamp in the name of its dump, the day of its last upload
  doomed,  \* what its retention has still to remove
  failed,  \* what its retention could not look at or remove
  runs,    \* how many runs of each backup there have been
  done,    \* history: the last run of each backup whose upload succeeded, or 0
  restore  \* the restore command

timeVars == <<clock, back, backAt>>
runVars  == <<stage, current, doomed, failed, runs, done>>
vars     == <<cfg, timeVars, files, runVars, restore>>

LocalTime == clock + Shift - back
Day(time) == time \div DayLen

File == [name : Names, run : Nat \ {0}, day : Nat, stamp : Nat, mtime : Nat,
         whole : BOOLEAN]
NoRun == [run |-> 0, stamp |-> 0, day |-> 0]

\* What the directory of n, base path and name, holds.
Scope(n) == {f \in files : f.name = n}

\* The file the upload of n is writing, or wrote last.
Own(n) == {f \in files : f.name = n /\ f.run = current[n].run /\ f.day = current[n].day}

SamePath(f, g) == f.name = g.name /\ f.run = g.run /\ f.day = g.day

\* What the restore command knows at each of its stages; as history, whether a file of a
\* later run was listed, and the last run reported as a success at the time.
Restores ==
  [stage : {"none"}] \cup
  [stage : {"selected", "vanished", "opened"}, name : Names, target : File,
   latest : BOOLEAN, overtaken : BOOLEAN, reported : Nat] \cup
  [stage : {"restored"}, run : Nat, whole : BOOLEAN, latest : BOOLEAN, reported : Nat]

TypeOK ==
  /\ cfg \in [Names -> Entries]
  /\ clock \in 0..MaxTime
  /\ back \in {0, Shift}
  /\ backAt \in 0..MaxTime
  /\ files \subseteq File
  /\ stage \in [Names -> {"idle", "dumped", "copying", "stored", "pruning"}]
  /\ current \in [Names -> [run : Nat, stamp : Nat, day : Nat]]
  /\ doomed \in [Names -> SUBSET File]
  /\ failed \in [Names -> SUBSET File]
  /\ runs \in [Names -> Nat]
  /\ done \in [Names -> Nat]
  /\ restore \in Restores

Init ==
  /\ cfg \in [Names -> Entries]
  /\ clock = 0
  /\ back = 0
  /\ backAt = 0
  /\ files = {}
  /\ stage = [n \in Names |-> "idle"]
  /\ current = [n \in Names |-> NoRun]
  /\ doomed = [n \in Names |-> {}]
  /\ failed = [n \in Names |-> {}]
  /\ runs = [n \in Names |-> 0]
  /\ done = [n \in Names |-> 0]
  /\ restore = [stage |-> "none"]

------------------------------------------------------------------------------
(* Time. *)

\* Verification, hooks and notifications of a run, between its upload and its retention,
\* are taken to end within a day.
Tick ==
  /\ clock < MaxTime
  /\ \A n \in Names : stage[n] = "stored" => \A f \in Own(n) : clock - f.mtime < DayLen
  /\ clock' = clock + 1
  /\ UNCHANGED <<cfg, back, backAt, files, runVars, restore>>

\* Local time is set back once, as at the end of daylight saving time.
SetBack ==
  /\ back = 0
  /\ back' = Shift
  /\ backAt' = clock
  /\ UNCHANGED <<cfg, clock, files, runVars, restore>>

------------------------------------------------------------------------------
(* A backup run, as far as the directory sees it. *)

\* The dump gets its name, with the local time in it.  Cron starts runs at the full
\* second: a run starts after the second in which an earlier one wrote its file.
StartRun(n) ==
  /\ stage[n] = "idle"
  /\ runs[n] < MaxRuns[n]
  /\ \A f \in files : f.name = n => f.mtime < clock
  /\ runs' = [runs EXCEPT ![n] = @ + 1]
  /\ current' = [current EXCEPT ![n] = [run |-> runs[n] + 1, stamp |-> LocalTime, day |-> 0]]
  /\ stage' = [stage EXCEPT ![n] = "dumped"]
  /\ UNCHANGED <<cfg, timeVars, files, doomed, failed, done, restore>>

\* The upload opens its file at the final path, in the directory of the day; what an earlier
\* attempt left there is written over.  A retry comes seconds after the attempt before it.
OpenDest(n) ==
  /\ stage[n] = "dumped"
  /\ \A f \in Scope(n) : f.mtime < clock
  /\ LET dest == [name |-> n, run |-> current[n].run, day |-> Day(LocalTime),
                  stamp |-> current[n].stamp, mtime |-> clock, whole |-> FALSE]
     IN  files' = {f \in files : ~SamePath(f, dest)} \cup {dest}
  /\ current' = [current EXCEPT ![n].day = Day(LocalTime)]
  /\ stage' = [stage EXCEPT ![n] = "copying"]
  /\ UNCHANGED <<cfg, timeVars, doomed, failed, runs, done, restore>>

\* The copy is complete; the run is reported as a success.
CopyDone(n) ==
  /\ stage[n] = "copying"
  /\ files' = (files \ Own(n)) \cup
       {[f EXCEPT !.mtime = clock, !.whole = TRUE] : f \in Own(n)}
  /\ done' = [done EXCEPT ![n] = current[n].run]
  /\ stage' = [stage EXCEPT ![n] = "stored"]
  /\ UNCHANGED <<cfg, timeVars, current, doomed, failed, runs, restore>>

\* The copy fails: what it has written is removed, if it can be (local.go:75 drops the error
\* of os.Remove).
CopyFails(n) ==
  /\ stage[n] = "copying"
  /\ files' \in {files, files \ Own(n)}
  /\ stage' = [stage EXCEPT ![n] = "dumped"]
  /\ UNCHANGED <<cfg, timeVars, current, doomed, failed, runs, done, restore>>

\* Opening the destination, or the last attempt, failed: the run is over.
GiveUp(n) ==
  /\ stage[n] = "dumped"
  /\ stage' = [stage EXCEPT ![n] = "idle"]
  /\ current' = [current EXCEPT ![n] = NoRun]
  /\ UNCHANGED <<cfg, timeVars, files, doomed, failed, runs, done, restore>>

\* Faulty: the files are sorted oldest first.
NewestOldestFirst(found, count) ==
  {keep \in SUBSET found :
     /\ Cardinality(keep) = (IF count < Cardinality(found) THEN count ELSE Cardinality(found))
     /\ \A f \in keep, g \in found \ keep : f.mtime <= g.mtime}

\* Faulty: the cutoff lies in the future.
YoungNever(n, found, cutoff) ==
  {f \in found : cfg[n].days > 0 /\ f.mtime >= clock + cfg[n].days * DayLen}

\* The files a count of keep last protects: the newest ones, sort.Slice being free to
\* order files of the same time either way.
Newest(found, count) ==
  {keep \in SUBSET found :
     /\ Cardinality(keep) = (IF count < Cardinality(found) THEN count ELSE Cardinality(found))
     /\ \A f \in keep, g \in found \ keep : g.mtime <= f.mtime}

\* The time at which local clocks showed, some days ago, what they show now.  Of an hour
\* that came twice Go takes the one or the other.
Cutoffs(n) ==
  LET ago == clock - cfg[n].days * DayLen
  IN  {t \in {ago} : back = 0 \/ t >= backAt} \cup
      {t \in {ago - Shift} : back # 0 /\ t <= backAt}

\* Those the age limit protects.
Young(n, found, cutoff) == {f \in found : cfg[n].days > 0 /\ f.mtime >= cutoff}

\* Faulty: a file is kept if it satisfies both conditions.
CollectIntersection(n) ==
  /\ stage[n] = "stored"
  /\ cfg[n].days > 0 \/ cfg[n].keepLast > 0
  /\ \E found \in SUBSET Scope(n), cutoff \in Cutoffs(n) :
       /\ \E keep \in Newest(found, cfg[n].keepLast) :
            doomed' = [doomed EXCEPT ![n] = found \ (keep \cap Young(n, found, cutoff))]
       /\ failed' = [failed EXCEPT ![n] = Scope(n) \ found]
  /\ stage' = [stage EXCEPT ![n] = "pruning"]
  /\ UNCHANGED <<cfg, timeVars, files, current, runs, done, restore>>

\* Cleanup walks the directory and decides, newest file first, which files go.  It may not
\* get to look at some of the files, or at the directory at all: these errors are kept.
Collect(n) ==
  /\ stage[n] = "stored"
  /\ cfg[n].days > 0 \/ cfg[n].keepLast > 0
  /\ \E found \in SUBSET Scope(n), cutoff \in Cutoffs(n) :
       /\ \E keep \in Newest(found, cfg[n].keepLast) :
            doomed' = [doomed EXCEPT ![n] = found \ (keep \cup Young(n, found, cutoff))]
       /\ failed' = [failed EXCEPT ![n] = Scope(n) \ found]
  /\ stage' = [stage EXCEPT ![n] = "pruning"]
  /\ UNCHANGED <<cfg, timeVars, files, current, runs, done, restore>>

\* Without a policy there is no cleanup.
NoPolicy(n) ==
  /\ stage[n] = "stored"
  /\ cfg[n].days = 0 /\ cfg[n].keepLast = 0
  /\ stage' = [stage EXCEPT ![n] = "idle"]
  /\ current' = [current EXCEPT ![n] = NoRun]
  /\ UNCHANGED <<cfg, timeVars, files, doomed, failed, runs, done, restore>>

NextDoomed(n) == {f \in doomed[n] : \A g \in doomed[n] : g.mtime <= f.mtime}

\* os.Remove goes by the path: a file rewritten since the walk goes too.
RemoveFile(n) ==
  /\ stage[n] = "pruning"
  /\ \E f \in NextDoomed(n) :
       /\ \E g \in files : SamePath(f, g)
       /\ files' = {g \in files : ~SamePath(f, g)}
       /\ doomed' = [doomed EXCEPT ![n] = @ \ {f}]
  /\ UNCHANGED <<cfg, timeVars, stage, current, failed, runs, done, restore>>

\* Faulty: the first error ends the cleanup.
RemoveFailsStops(n) ==
  /\ stage[n] = "pruning"
  /\ \E f \in NextDoomed(n) :
       /\ doomed' = [doomed EXCEPT ![n] = {}]
       /\ failed' = [failed EXCEPT ![n] = @ \cup {f}]
  /\ UNCHANGED <<cfg, timeVars, files, stage, current, runs, done, restore>>

\* A file cannot be removed, or is gone: the error is kept, and the next file's turn comes.
RemoveFails(n) ==
  /\ stage[n] = "pruning"
  /\ \E f \in NextDoomed(n) :
       /\ doomed' = [doomed EXCEPT ![n] = @ \ {f}]
       /\ failed' = [failed EXCEPT ![n] = @ \cup {f}]
  /\ UNCHANGED <<cfg, timeVars, files, stage, current, runs, done, restore>>

EndCleanup(n) ==
  /\ stage[n] = "pruning"
  /\ doomed[n] = {}
  /\ stage' = [stage EXCEPT ![n] = "idle"]
  /\ failed' = [failed EXCEPT ![n] = {}]
  /\ current' = [current EXCEPT ![n] = NoRun]
  /\ UNCHANGED <<cfg, timeVars, files, doomed, runs, done, restore>>

\* Faulty: the new daemon goes on with runs it knows nothing of.
CrashResumes ==
  /\ current' = [n \in Names |-> NoRun]
  /\ UNCHANGED <<cfg, timeVars, files, stage, doomed, failed, runs, done, restore>>

\* The daemon dies, between runs or during some, and is started again.
Crash ==
  /\ stage' = [n \in Names |-> "idle"]
  /\ doomed' = [n \in Names |-> {}]
  /\ failed' = [n \in Names |-> {}]
  /\ current' = [n \in Names |-> NoRun]
  /\ UNCHANGED <<cfg, timeVars, files, runs, done, restore>>

------------------------------------------------------------------------------
(* The restore command. *)

\* Faulty: only the names of the files are compared.
BeforeByName(f, g) == f.stamp < g.stamp

\* Lexicographic order of the paths below a directory.
Before(f, g) == f.day < g.day \/ (f.day = g.day /\ f.stamp < g.stamp)

\* List walks the directory of n; every backup file has one of the extensions it takes.
Listed(n) == Scope(n)

NoRestore == [stage |-> "none"]

Select(n, target, latest) ==
  restore' = [stage |-> "selected", name |-> n, target |-> target, latest |-> latest,
              overtaken |-> \E f \in Listed(n) : f.run > target.run, reported |-> done[n]]

\* Faulty: the first path of the sorted list.
SelectLatestFirst(n) ==
  /\ restore = NoRestore
  /\ \E f \in Listed(n) :
       /\ \A g \in Listed(n) : ~Before(g, f)
       /\ Select(n, f, TRUE)
  /\ UNCHANGED <<cfg, timeVars, files, runVars>>

\* List and selectBackup with --latest: the last path in lexicographic order.
SelectLatest(n) ==
  /\ restore = NoRestore
  /\ \E f \in Listed(n) :
       /\ \A g \in Listed(n) : ~Before(f, g)
       /\ Select(n, f, TRUE)
  /\ UNCHANGED <<cfg, timeVars, files, runVars>>

\* ... with --timestamp: the first path whose base name contains it.
SelectTimestamp(n) ==
  /\ restore = NoRestore
  /\ \E f \in Listed(n) :
       /\ \A g \in Listed(n) : g.stamp = f.stamp => ~Before(g, f)
       /\ Select(n, f, FALSE)
  /\ UNCHANGED <<cfg, timeVars, files, runVars>>

\* The file at the path of the target, now.
AtTarget == {f \in files : SamePath(f, restore.target)}

\* Download opens the file.
OpenSource ==
  /\ restore.stage = "selected"
  /\ \E f \in AtTarget :
       restore' = [restore EXCEPT !.stage = "opened", !.target = f, !.overtaken = FALSE]
  /\ UNCHANGED <<cfg, timeVars, files, runVars>>

\* The file is gone.
SourceMissing ==
  /\ restore.stage = "selected"
  /\ AtTarget = {}
  /\ restore' = [restore EXCEPT !.stage = "vanished", !.overtaken = FALSE]
  /\ UNCHANGED <<cfg, timeVars, files, runVars>>

\* Whether what the download reads may be whole: a file opened stays readable when it is
\* removed, and an upload may complete it meanwhile, ahead of the download or behind it.
ReadWhole == restore.target.whole \/ \E f \in AtTarget : f.whole

\* The contents, decrypted and decompressed, go to psql or mysql.  Nothing the code does tells
\* a file that is not whole; the tools it calls may, and then the restore fails.
Apply ==
  /\ restore.stage = "opened"
  /\ \E whole \in {restore.target.whole, ReadWhole} :
       restore' = [stage |-> "restored", run |-> restore.target.run, whole |-> whole,
                   latest |-> restore.latest, reported |-> restore.reported]
  /\ UNCHANGED <<cfg, timeVars, files, runVars>>

\* The download, a decoder, the password look-up or the database tool fails.
RestoreFails ==
  /\ restore.stage = "opened"
  /\ restore' = NoRestore
  /\ UNCHANGED <<cfg, timeVars, files, runVars>>

\* The command ends and may be given again.
EndRestore ==
  /\ restore.stage \in {"vanished", "restored"}
  /\ restore' = NoRestore
  /\ UNCHANGED <<cfg, timeVars, files, runVars>>

------------------------------------------------------------------------------
RunStep(n) ==
  \/ StartRun(n) \/ OpenDest(n) \/ CopyDone(n) \/ CopyFails(n) \/ GiveUp(n)
  \/ Collect(n) \/ NoPolicy(n) \/ RemoveFile(n) \/ RemoveFails(n) \/ EndCleanup(n)

RestoreStep ==
  \/ \E n \in Names : SelectLatest(n) \/ SelectTimestamp(n)
  \/ OpenSource \/ SourceMissing \/ Apply \/ RestoreFails \/ EndRestore

Next ==
  \/ Tick \/ SetBack \/ Crash
  \/ \E n \in Names : RunStep(n)
  \/ RestoreStep

Spec == Init /\ [][Next]_vars

------------------------------------------------------------------------------
(* Properties. *)

\* The backup of the last run whose upload succeeded is at the destination and whole,
\* whatever retention, later runs, failures and crashes do (retention.go:85-113,
\* local.go:68-77): there is always something to restore.
NewestSurvives ==
  \A n \in Names : done[n] # 0 =>
    \E f \in files : f.name = n /\ f.run = done[n] /\ f.whole

\* "A file is kept if it satisfies either condition" (retention.go:24-28): what retention
\* removes is beyond the age limit and has keep_last files of later or equal time besides
\* it, at the moment it goes and not only when the directory was walked.
UnionPolicy ==
  [][\A n \in Names, f \in files \ files' :
       stage[n] = "pruning" /\ f \in doomed[n] \ doomed'[n] =>
         /\ cfg[n].days > 0 => f.mtime < clock - cfg[n].days * DayLen
         /\ Cardinality({g \in Scope(n) \ {f} : g.mtime >= f.mtime}) >= cfg[n].keepLast
         /\ cfg[n].days > 0 \/ cfg[n].keepLast > 0]_vars

\* "Collects all errors and continues rather than stopping on the first failure"
\* (retention.go:44): when retention ends, no more than keep_last of the files beyond the
\* age limit are left, but for those it could not look at (retention.go:54-76) or remove.
\* The limit is longer by the hour that local time was set back.
CleanupCoversAll ==
  \A n \in Names : stage[n] = "pruning" /\ doomed[n] = {} =>
    LET expired == {f \in Scope(n) \ failed[n] : \A own \in Own(n) :
                      cfg[n].days = 0 \/ f.mtime < own.mtime - cfg[n].days * DayLen - back}
    IN  Cardinality(expired) <= cfg[n].keepLast

\* A restore with --latest brings back, whole, the last backup that had been reported when
\* the command was given, or the file, finished or not, of a later run: never an older
\* backup, and never what a failed attempt of the reported run left at another day's path,
\* as long as time goes forward (restorer.go:69-97, 137-142, local.go:68-77).
LatestRestoresReported ==
  restore.stage = "restored" /\ restore.latest /\ back = 0 =>
    \/ restore.run = restore.reported /\ restore.whole
    \/ restore.run > restore.reported

\* If the backup chosen is gone when it is opened, a later run has replaced it, or it was
\* an unfinished upload (restorer.go:80-97).
VanishedWasReplaced ==
  restore.stage = "vanished" =>
    \/ done[restore.name] > restore.target.run
    \/ ~restore.target.whole

\* "Lexicographic order matches chronological order" (restorer.go:137-138): no listed file
\* is from a later run than the one --latest chose.
LatestIsNewest ==
  restore.stage = "selected" /\ restore.latest => ~restore.overtaken

\* It does as long as local time has not been set back, over midnight too.
LatestIsNewestByClock == back = 0 => LatestIsNewest

(* The inductive invariant: why retention never takes the newest backup. *)

\* One file at each path, one whole file of each run; files of later runs are newer, and so
\* is the whole one of a run.  A whole one was reported.
FilesInv ==
  /\ IsFiniteSet(files)
  /\ \A f \in files :
       /\ f.run <= runs[f.name] /\ f.mtime <= clock
       /\ f.whole => f.run <= done[f.name]
  /\ \A f, g \in files : f.name = g.name =>
       /\ SamePath(f, g) => f = g
       /\ f.run = g.run /\ g.whole => f = g \/ f.mtime < g.mtime
       /\ f.run < g.run => f.mtime < g.mtime

\* The current run is the last, and where it is tells what it has written.
RunInv(n) ==
  /\ done[n] <= runs[n]
  /\ stage[n] # "idle" => runs[n] # 0 /\ current[n].run = runs[n]
  /\ stage[n] \in {"dumped", "copying"} => done[n] < runs[n]
  /\ stage[n] = "copying" => Own(n) # {} /\ \A f \in Scope(n) \ Own(n) : f.mtime < clock
  /\ stage[n] \in {"stored", "pruning"} => done[n] = runs[n] /\ \E own \in Own(n) : own.whole
  /\ stage[n] = "stored" => \A own \in Own(n) : clock - own.mtime <= DayLen
  /\ stage[n] # "pruning" => doomed[n] = {} /\ failed[n] = {}

\* What is doomed is beyond both conditions and is not the newest; what is not doomed,
\* and could be looked at and removed, is within one of them.
PruneInv(n) ==
  stage[n] = "pruning" =>
    /\ cfg[n].days > 0 \/ cfg[n].keepLast > 0
    /\ doomed[n] \subseteq Scope(n) \ Own(n)
    /\ \A f \in doomed[n] : cfg[n].days > 0 => f.mtime < clock - cfg[n].days * DayLen
    /\ \E keep \in SUBSET (Scope(n) \ doomed[n]) :
         /\ Cardinality(keep) <= cfg[n].keepLast
         /\ \A f \in doomed[n] :
              Cardinality(keep) = cfg[n].keepLast /\ \A g \in keep : f.mtime <= g.mtime
         /\ \A f \in Scope(n) \ (keep \cup doomed[n] \cup failed[n]), own \in Own(n) :
              cfg[n].days > 0 /\ f.mtime >= own.mtime - cfg[n].days * DayLen - back

\* Until local time is set back, a later run has the later path, and so has the whole file
\* of a run.
ClockInv ==
  back = 0 =>
    /\ \A f \in files : f.stamp <= f.mtime + Shift /\ f.day <= Day(clock + Shift)
    /\ \A f, g \in files : f.name = g.name =>
         /\ f.run < g.run => f.day <= g.day /\ f.stamp < g.stamp
         /\ f.run = g.run => f.stamp = g.stamp /\ (g.whole => f.day <= g.day)
    /\ \A n \in Names : stage[n] \in {"dumped", "copying"} =>
         /\ current[n].stamp <= clock + Shift
         /\ \A f \in Scope(n) : IF f.run = current[n].run THEN f.stamp = current[n].stamp
                                                       ELSE f.stamp < current[n].stamp
         /\ stage[n] = "copying" => \A f \in Scope(n) : f.day <= current[n].day

\* The file chosen is there, or was not whole, or has been replaced.
TargetInv ==
  restore.stage \in {"selected", "vanished"} =>
    /\ restore.target.name = restore.name
    /\ restore.target.whole =>
         /\ restore.target.run <= done[restore.name]
         /\ \A f \in AtTarget : f = restore.target
         /\ \/ done[restore.name] > restore.target.run
            \/ restore.stage = "selected" /\ restore.target \in files

\* --latest has chosen the whole file of the last run reported, or one of a later run.
ChoiceInv ==
  restore.stage \in {"selected", "opened"} /\ restore.latest /\ back = 0 =>
    \/ restore.target.run = restore.reported /\ restore.target.whole
    \/ restore.target.run > restore.reported

RestoreInv ==
  /\ TargetInv
  /\ ChoiceInv
  /\ LatestIsNewestByClock
  /\ LatestRestoresReported

BackupStoreInv ==
  /\ TypeOK
  /\ FilesInv
  /\ \A n \in Names : RunInv(n) /\ PruneInv(n)
  /\ NewestSurvives
  /\ ClockInv
  /\ RestoreInv

==============================================================================
