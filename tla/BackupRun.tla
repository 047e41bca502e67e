------------------------------ MODULE BackupRun ------------------------------
(***************************************************************************)
(* One call of Scheduler.runBackup (pkg/scheduler/scheduler.go) and of the *)
(* failure handling around it in scheduleBackup, with the dumpers, the     *)
(* compressors, the encryptors, the uploaders, the verifier, the hooks and *)
(* the notifiers it drives: what is in the temporary directory, what is at *)
(* the destination and what has been reported, while the daemon's context  *)
(* may be cancelled and the process may die at any point.                  *)
(*                                                                         *)
(* A file is the name of what it holds; Scheduler has the goroutines and   *)
(* locks around a run.                                                     *)
(***************************************************************************)
EXTENDS Naturals, Sequences, FiniteSets

CONSTANTS
  MaxRetries,     \* retryCfg.MaxRetries: extra attempts of the dump and of the upload
  NotifyRetries,  \* extra attempts of a notification
  LastDay         \* how many midnights a run sees at most (bounds a behaviour)

ASSUME BackupRunAssumption ==
  MaxRetries \in Nat /\ NotifyRetries \in Nat \ {0} /\ LastDay \in Nat

\* What one [[backup]] entry chooses.
Configs ==
  [engine : {"postgres", "mysql"}, target : {"local", "s3"},
   pre : BOOLEAN, post : BOOLEAN, gzip : BOOLEAN, encrypt : BOOLEAN,
   verify : BOOLEAN, notify : BOOLEAN, retention : BOOLEAN]

VARIABLES
  cfg,        \* the entry this run is for
  stage,      \* where runBackup is
  attempt,    \* loop counter of retry.Do
  temp,       \* files of this run in the temporary directory
  defers,     \* deferred os.Remove calls, the last to run first
  upFile,     \* fileToUpload
  kind,       \* the notification being sent
  today,      \* the date, which is a part of the remote path
  dest,       \* the date in the path of the copy being uploaded
  copies,     \* this run's copies at the destination
  remotePath, \* the date in the path Upload returned, or NoPath
  older,      \* an expired copy of an earlier run is still at the destination
  stuck,      \* history: the dates of the paths from which os.Remove took no partial copy
  result,     \* what runBackup returned, decided but for the deferred calls
  hook,       \* the post-hook: how often runPostHook ran it, with what, did sh start
  recorded,   \* successes and failures told to the watchdog and the health server
  sent,       \* notifications that arrived, per kind
  cancelled,  \* the context is done
  alive       \* the process is

fileVars   == <<temp, defers, upFile>>
remoteVars == <<dest, copies, remotePath, older, stuck>>
reportVars == <<hook, recorded, sent>>
envVars    == <<today, cancelled, alive>>
vars == <<cfg, stage, attempt, kind, result, fileVars, remoteVars, reportVars, envVars>>

------------------------------------------------------------------------------
Days == 0..LastDay
NoPath == LastDay + 1
Kinds == {"verification", "size", "success", "failure"}

\* "check" is the verifier's directory, "password" the file a dump tool reads the password
\* from, "abandoned" a dump file whose name the dumper did not return, "unreturned" an
\* encrypted file whose name the encryptor did not return.
Files == {"dump", "gzip", "encrypted", "check", "password", "abandoned", "unreturned"}

Retried == {"dump", "upload", "notify"}
Backoff == [dump |-> "dumpBackoff", upload |-> "uploadBackoff", notify |-> "notifyBackoff"]
Stages ==
  {"prehook", "dump", "compress", "encrypt", "upload", "copying", "record", "verify",
   "size", "posthook", "hooking", "notify", "retention", "deferring", "done"}
    \cup {Backoff[s] : s \in Retried}

\* The file the configuration asks to store.
Chosen == CASE cfg.encrypt -> "encrypted"
            [] ~cfg.encrypt /\ cfg.gzip -> "gzip"
            [] OTHER -> "dump"

Copy(day, whole) == [day |-> day, what |-> upFile, whole |-> whole]
StoredAs(day) == day \in Days /\ Copy(day, TRUE) \in copies

ControlTypes ==
  /\ cfg \in Configs /\ stage \in Stages /\ attempt \in Nat
  /\ kind \in {"none"} \cup Kinds
  /\ result \in {"none", "ok", "failed"}
  /\ today \in Days /\ cancelled \in BOOLEAN /\ alive \in BOOLEAN

FileTypes ==
  /\ temp \subseteq Files
  /\ defers \in Seq(Files)
  /\ upFile \in {"none"} \cup Files

RemoteTypes ==
  /\ dest \in Days
  /\ copies \subseteq [day : Days, what : Files, whole : BOOLEAN]
  /\ remotePath \in Days \cup {NoPath}
  /\ older \in BOOLEAN
  /\ stuck \subseteq Days

ReportTypes ==
  /\ hook \in [calls : Nat, status : {"pending", "failure", "success"},
               path : Days \cup {NoPath}, started : BOOLEAN]
  /\ recorded \in [ok : Nat, failed : Nat]
  /\ sent \in [Kinds -> Nat]

TypeOK == ControlTypes /\ FileTypes /\ RemoteTypes /\ ReportTypes

Init ==
  /\ cfg \in Configs
  /\ stage = IF cfg.pre THEN "prehook" ELSE "dump"
  /\ attempt = 0
  /\ temp = {}
  /\ defers = <<>>
  /\ upFile = "none"
  /\ kind = "none"
  /\ today = 0
  /\ dest = 0
  /\ copies = {}
  /\ remotePath = NoPath
  /\ older = TRUE
  /\ stuck = {}
  /\ result = "none"
  /\ hook = [calls |-> 0, status |-> "pending", path |-> NoPath, started |-> FALSE]
  /\ recorded = [ok |-> 0, failed |-> 0]
  /\ sent = [k \in Kinds |-> 0]
  /\ cancelled = FALSE
  /\ alive = TRUE

At(s) == alive /\ stage = s

\* The run goes on with s.
Proceed(s) == stage' = s /\ attempt' = 0 /\ UNCHANGED <<kind, result>>

\* An error return of runBackup, which runs the post-hook first.
Fail == stage' = "posthook" /\ attempt' = 0 /\ result' = "failed" /\ UNCHANGED kind

\* A notification of kind k is next, if the entry has a notifier, and then s.
AfterNotice == [verification |-> "size", size |-> "posthook",
                success |-> "retention", failure |-> "done"]
Notify(k) ==
  /\ stage' = IF cfg.notify THEN "notify" ELSE AfterNotice[k]
  /\ kind' = k
  /\ attempt' = 0
  /\ UNCHANGED result

\* retry.Do after a failed attempt: back off while attempts are left.
Retry(s, retries, giveUp) ==
  IF attempt < retries
    THEN stage' = Backoff[s] /\ UNCHANGED <<attempt, kind, result>>
    ELSE giveUp

------------------------------------------------------------------------------
(* Faulty forms of steps below, each a bug the code could have had: put in the place of *)
(* the step it is named after, each makes a property fail.                              *)

\* A failed pre-hook returns without the post-hook.
PreHookNoPost ==
  /\ At("prehook")
  /\ \/ ~cancelled /\ Proceed("dump")
     \/ stage' = "deferring" /\ result' = "failed" /\ UNCHANGED <<attempt, kind>>
  /\ UNCHANGED <<cfg, fileVars, remoteVars, reportVars, envVars>>

\* The deferred os.Remove evaluates its argument before it is assigned.
CompressDefersUnset ==
  /\ At("compress")
  /\ cfg.gzip => ~cancelled
  /\ Proceed(IF cfg.encrypt THEN "encrypt" ELSE "upload")
  /\ upFile' = IF cfg.gzip THEN "gzip" ELSE "dump"
  /\ temp' = temp \cup {upFile'}
  /\ defers' = IF cfg.gzip THEN Append(defers, upFile) ELSE defers
  /\ UNCHANGED <<cfg, remoteVars, reportVars, envVars>>

\* The removal of the encrypted file is not deferred.
EncryptNotDeferred ==
  /\ At("encrypt")
  /\ ~cancelled
  /\ Proceed("upload")
  /\ temp' = (temp \ {upFile}) \cup {"encrypted"}
  /\ upFile' = "encrypted"
  /\ UNCHANGED <<cfg, defers, remoteVars, reportVars, envVars>>

\* fileToUpload stays the compressed file, which the encryptor leaves in place.
EncryptUnused ==
  /\ At("encrypt")
  /\ ~cancelled
  /\ Proceed("upload")
  /\ temp' = temp \cup {"encrypted"}
  /\ defers' = Append(defers, "encrypted")
  /\ UNCHANGED <<cfg, upFile, remoteVars, reportVars, envVars>>

\* The error of the last attempt is dropped.
UploadFailsUnseen ==
  /\ alive
  /\ stage \in {"upload", "copying"}
  /\ Retry("upload", MaxRetries, Proceed("record"))
  /\ copies' = copies \ {Copy(dest, FALSE)}
  /\ UNCHANGED <<cfg, fileVars, dest, remotePath, older, stuck, reportVars, envVars>>

\* The partial copy is left alone.
UploadFailsKeepsPart ==
  /\ alive
  /\ stage \in {"upload", "copying"}
  /\ Retry("upload", MaxRetries, Fail)
  /\ UNCHANGED <<cfg, fileVars, remoteVars, reportVars, envVars>>

\* The loop counter is not advanced.
NextAttemptUncounted ==
  /\ alive
  /\ \E s \in Retried : stage = Backoff[s] /\ stage' = s
  /\ UNCHANGED <<cfg, attempt, kind, result, fileVars, remoteVars, reportVars, envVars>>

\* One attempt too many.
NotifyFailsOnceMore ==
  /\ At("notify")
  /\ Retry("notify", NotifyRetries + 1, Proceed(AfterNotice[kind]))
  /\ \/ UNCHANGED sent
     \/ ~cancelled /\ sent' = [sent EXCEPT ![kind] = @ + 1]
  /\ UNCHANGED <<cfg, fileVars, remoteVars, hook, recorded, envVars>>

------------------------------------------------------------------------------
(* Before the upload. *)

\* hooks.RunHook for the pre-hook; a cancelled context kills the command.
PreHook ==
  /\ At("prehook")
  /\ \/ ~cancelled /\ Proceed("dump")
     \/ Fail
  /\ UNCHANGED <<cfg, fileVars, remoteVars, reportVars, envVars>>

\* The factory of the dumper, the compressor, the encryptor or the uploader fails.
CannotCreate ==
  /\ alive
  /\ stage \in {"dump", "compress", "encrypt", "upload"}
  /\ stage = "encrypt" => cfg.encrypt
  /\ attempt = 0
  /\ Fail
  /\ UNCHANGED <<cfg, fileVars, remoteVars, reportVars, envVars>>

\* pg_dump or mysqldump succeeds: the dump file stays, the password file does not.
Dump ==
  /\ At("dump")
  /\ ~cancelled
  /\ Proceed("compress")
  /\ temp' = temp \cup {"dump"}
  /\ defers' = Append(defers, "dump")
  /\ UNCHANGED <<cfg, upFile, remoteVars, reportVars, envVars>>

\* The tool fails, or one of the files it needs cannot be created.  Both dumpers remove
\* the dump file, but for one path of the MySQL dumper: no file for the password.
DumpFails ==
  /\ At("dump")
  /\ Retry("dump", MaxRetries, Fail)
  /\ \/ UNCHANGED temp
     \/ cfg.engine = "mysql" /\ temp' = temp \cup {"abandoned"}
  /\ UNCHANGED <<cfg, defers, upFile, remoteVars, reportVars, envVars>>

\* compressor.Compress: gzip reads through the context, the passthrough returns its input.
Compress ==
  /\ At("compress")
  /\ cfg.gzip => ~cancelled
  /\ Proceed(IF cfg.encrypt THEN "encrypt" ELSE "upload")
  /\ upFile' = IF cfg.gzip THEN "gzip" ELSE "dump"
  /\ temp' = temp \cup {upFile'}
  /\ defers' = IF cfg.gzip THEN Append(defers, "gzip") ELSE defers
  /\ UNCHANGED <<cfg, remoteVars, reportVars, envVars>>

\* Compression fails and removes its output.
CompressFails ==
  /\ At("compress")
  /\ cfg.gzip
  /\ Fail
  /\ UNCHANGED <<cfg, fileVars, remoteVars, reportVars, envVars>>

\* encryptor.Encrypt removes the file it has encrypted.
Encrypt ==
  /\ At("encrypt")
  /\ ~cancelled
  /\ Proceed("upload")
  /\ temp' = (temp \ {upFile}) \cup {"encrypted"}
  /\ defers' = Append(defers, "encrypted")
  /\ upFile' = "encrypted"
  /\ UNCHANGED <<cfg, remoteVars, reportVars, envVars>>

\* The tool fails, and its output is removed; or the input cannot be removed, and the
\* output stays although no path to it is returned.
EncryptFails ==
  /\ At("encrypt")
  /\ Fail
  /\ \/ UNCHANGED temp
     \/ ~cancelled /\ temp' = temp \cup {"unreturned"}
  /\ UNCHANGED <<cfg, defers, upFile, remoteVars, reportVars, envVars>>

------------------------------------------------------------------------------
(* The upload. *)

\* uploader.Upload settles the path, which has the date in it, and opens the destination:
\* the local uploader writes to the final path from the start.
BeginUpload ==
  /\ At("upload")
  /\ stage' = "copying"
  /\ dest' = today
  /\ copies' = IF cfg.target = "local" THEN copies \cup {Copy(today, FALSE)} ELSE copies
  /\ UNCHANGED <<cfg, attempt, kind, result, fileVars, remotePath, older, stuck,
                 reportVars, envVars>>

\* Only the S3 client looks at the context.
Upload ==
  /\ At("copying")
  /\ cfg.target = "s3" => ~cancelled
  /\ Proceed("record")
  /\ copies' = (copies \ {Copy(dest, FALSE)}) \cup {Copy(dest, TRUE)}
  /\ remotePath' = dest
  /\ UNCHANGED <<cfg, fileVars, dest, older, stuck, reportVars, envVars>>

\* Before the destination is open nothing is there to be undone.  After that the local
\* uploader removes what it has copied and does not look whether os.Remove did; an object
\* put to S3 may be there although the answer is an error.
UploadFails ==
  /\ alive
  /\ stage \in {"upload", "copying"}
  /\ Retry("upload", MaxRetries, Fail)
  /\ \/ stage = "upload" /\ UNCHANGED <<copies, stuck>>
     \/ /\ stage = "copying" /\ cfg.target = "s3"
        /\ copies' \in {copies, copies \cup {Copy(dest, TRUE)}}
        /\ UNCHANGED stuck
     \/ /\ stage = "copying" /\ cfg.target = "local"
        /\ \/ copies' = copies \ {Copy(dest, FALSE)} /\ UNCHANGED stuck
           \/ stuck' = stuck \cup {dest} /\ UNCHANGED copies
  /\ UNCHANGED <<cfg, fileVars, dest, remotePath, older, reportVars, envVars>>

\* retry.Do's select: the timer of the backoff ...
NextAttempt ==
  /\ alive
  /\ \E s \in Retried : stage = Backoff[s] /\ stage' = s
  /\ attempt' = attempt + 1
  /\ UNCHANGED <<cfg, kind, result, fileVars, remoteVars, reportVars, envVars>>

\* ... or the context.
CancelledInBackoff ==
  /\ alive
  /\ cancelled
  /\ \/ stage \in {Backoff["dump"], Backoff["upload"]} /\ Fail
     \/ stage = Backoff["notify"] /\ Proceed(AfterNotice[kind])
  /\ UNCHANGED <<cfg, fileVars, remoteVars, reportVars, envVars>>

------------------------------------------------------------------------------
(* After the upload. *)

\* watchdog.RecordSuccess and health.RecordSuccess; only a local copy can be verified.
RecordSuccess ==
  /\ At("record")
  /\ Proceed(IF cfg.verify /\ cfg.target = "local" THEN "verify" ELSE "size")
  /\ recorded' = [recorded EXCEPT !.ok = @ + 1]
  /\ UNCHANGED <<cfg, fileVars, remoteVars, hook, sent, envVars>>

\* The verifier copies the backup through the context, undoes encryption and compression,
\* looks at the dump and removes its directory; a failure is only notified.
Verify ==
  /\ At("verify")
  /\ \/ ~cancelled /\ StoredAs(remotePath) /\ Proceed("size")
     \/ Notify("verification")
  /\ UNCHANGED <<cfg, fileVars, remoteVars, reportVars, envVars>>

\* runSizeTrack compares the uploaded file's size with earlier ones.
TrackSize ==
  /\ At("size")
  /\ \/ Proceed("posthook")
     \/ upFile \in temp /\ Notify("size")
  /\ UNCHANGED <<cfg, fileVars, remoteVars, reportVars, envVars>>

\* What follows the post-hook.
AfterHook == IF result = "failed" THEN Proceed("deferring") ELSE Notify("success")

\* runPostHook; a command is not started under a cancelled context.
PostHook ==
  /\ At("posthook")
  /\ IF cfg.post
       THEN /\ hook' = [calls |-> hook.calls + 1,
                        status |-> IF result = "failed" THEN "failure" ELSE "success",
                        path |-> IF result = "failed" THEN NoPath ELSE remotePath,
                        started |-> ~cancelled]
            /\ IF cancelled THEN AfterHook ELSE Proceed("hooking")
       ELSE hook' = hook /\ AfterHook
  /\ UNCHANGED <<cfg, fileVars, remoteVars, recorded, sent, envVars>>

\* The command ends, fails, is killed or runs out of its 60 s: a warning at most.
PostHookEnds ==
  /\ At("hooking")
  /\ AfterHook
  /\ UNCHANGED <<cfg, fileVars, remoteVars, reportVars, envVars>>

\* notifier.Notify succeeds.
Notified ==
  /\ At("notify")
  /\ ~cancelled
  /\ Proceed(AfterNotice[kind])
  /\ sent' = [sent EXCEPT ![kind] = @ + 1]
  /\ UNCHANGED <<cfg, fileVars, remoteVars, hook, recorded, envVars>>

\* notifier.Notify fails, which does not mean that nothing arrived.
NotifyFails ==
  /\ At("notify")
  /\ Retry("notify", NotifyRetries, Proceed(AfterNotice[kind]))
  /\ \/ UNCHANGED sent
     \/ ~cancelled /\ sent' = [sent EXCEPT ![kind] = @ + 1]
  /\ UNCHANGED <<cfg, fileVars, remoteVars, hook, recorded, envVars>>

\* The notifier cannot be created: the notification is dropped.
NoNotifier ==
  /\ At("notify")
  /\ attempt = 0
  /\ Proceed(AfterNotice[kind])
  /\ UNCHANGED <<cfg, fileVars, remoteVars, reportVars, envVars>>

\* runRetention removes expired local copies or logs why it cannot; runBackup returns nil.
Retention ==
  /\ At("retention")
  /\ stage' = "deferring"
  /\ result' = "ok"
  /\ older' \in IF cfg.retention /\ cfg.target = "local" THEN {older, FALSE} ELSE {older}
  /\ UNCHANGED <<cfg, attempt, kind, fileVars, dest, copies, remotePath, stuck,
                 reportVars, envVars>>

\* runBackup returns: its deferred os.Remove calls, last in first out.
RunDeferred ==
  /\ At("deferring")
  /\ defers # <<>>
  /\ temp' = temp \ {defers[Len(defers)]}
  /\ defers' = SubSeq(defers, 1, Len(defers) - 1)
  /\ UNCHANGED <<cfg, stage, attempt, kind, result, upFile, remoteVars, reportVars, envVars>>

\* scheduleBackup records a failure with the watchdog and the health server and notifies.
Return ==
  /\ At("deferring")
  /\ defers = <<>>
  /\ IF result = "failed"
       THEN Notify("failure") /\ recorded' = [recorded EXCEPT !.failed = @ + 1]
       ELSE Proceed("done") /\ UNCHANGED recorded
  /\ UNCHANGED <<cfg, fileVars, remoteVars, hook, sent, envVars>>

------------------------------------------------------------------------------
(* Around the run. *)

\* SIGTERM, seen by a run through its context.
Cancel ==
  /\ alive
  /\ stage # "done"
  /\ ~cancelled
  /\ cancelled' = TRUE
  /\ UNCHANGED <<cfg, stage, attempt, kind, result, fileVars, remoteVars, reportVars, today, alive>>

Midnight ==
  /\ alive
  /\ stage # "done"
  /\ today < LastDay
  /\ today' = today + 1
  /\ UNCHANGED <<cfg, stage, attempt, kind, result, fileVars, remoteVars, reportVars, cancelled, alive>>

\* Files being written or used by the current call.
InProgress ==
  CASE stage = "dump" -> {"dump", "password"}
    [] stage = "compress" /\ cfg.gzip -> {"gzip"}
    [] stage = "encrypt" -> {"encrypted"}
    [] stage = "verify" -> {"check"}
    [] OTHER -> {}

\* The process ends: the drain of the shutdown timed out, or it was killed.
Crash ==
  /\ alive
  /\ stage # "done"
  /\ alive' = FALSE
  /\ temp' \in {temp, temp \cup InProgress}
  /\ UNCHANGED <<cfg, stage, attempt, kind, result, defers, upFile, remoteVars, reportVars,
                 today, cancelled>>

RunStep ==
  \/ PreHook \/ CannotCreate \/ Dump \/ DumpFails \/ Compress \/ CompressFails
  \/ Encrypt \/ EncryptFails \/ BeginUpload \/ Upload \/ UploadFails
  \/ NextAttempt \/ CancelledInBackoff
  \/ RecordSuccess \/ Verify \/ TrackSize \/ PostHook \/ PostHookEnds
  \/ Notified \/ NotifyFails \/ NoNotifier \/ Retention \/ RunDeferred \/ Return

\* The run is over or the process is.
Over == stage = "done" \/ ~alive
Ended == Over /\ UNCHANGED vars

Next == RunStep \/ Cancel \/ Midnight \/ Crash \/ Ended

Spec == Init /\ [][Next]_vars

\* The calls to tools, targets and notifiers come back, and the timers of retry.Do expire.
FairSpec == Spec /\ WF_vars(RunStep)

------------------------------------------------------------------------------
(* Properties. *)

\* Nothing but the chosen form of the backup gets to the destination, not even in part:
\* with encryption on, no readable dump leaves the host (scheduler.go:418-439, 454).
OnlyChosenFormLeaves == \A c \in copies : c.what = Chosen

\* The watchdog and the health server hear of a success only when the whole backup is at
\* the path that is reported, and of one end of a run only (scheduler.go:455-473, 281-288);
\* an earlier backup is removed on the strength of such a copy only (492-495).
RecordedIsStored ==
  /\ recorded.ok + recorded.failed <= 1
  /\ recorded.ok = 1 => StoredAs(remotePath) /\ result # "failed"
  /\ ~older => StoredAs(remotePath)
  /\ recorded.failed = 1 => result = "failed" /\ remotePath = NoPath

\* A run that returns has removed every file it put into the temporary directory,
\* whichever stage failed.  Two files may stay, because no path to them was returned: the
\* dump file of a MySQL dumper that could make no password file, and what an encryptor
\* wrote that could not remove its input (scheduler.go:371-382, 405, 435, age.go:46-49).
TempFilesRemoved ==
  alive /\ stage = "done" =>
    \A f \in temp : \/ f = "abandoned" /\ cfg.engine = "mysql"
                    \/ f = "unreturned" /\ cfg.encrypt /\ result = "failed"

\* Between its attempts and after it, a local upload has left the one whole copy it
\* reports and nothing else, although it writes to the final path and a retry may get
\* another path; a partial copy stays only where os.Remove failed, and not at the path
\* reported (local.go:68-77, path.go:46).
LocalUploadAllOrNothing ==
  cfg.target = "local" /\ stage # "copying" =>
    /\ remotePath # NoPath => Copy(remotePath, TRUE) \in copies
    /\ \A c \in copies : IF c.whole THEN c.day = remotePath
                                     ELSE c.day \in stuck \ {remotePath}

\* Each way out of runBackup calls the post-hook once, with the status and the path of
\* the result (scheduler.go:351-461, 486).
PostHookOnce ==
  alive /\ stage = "done" /\ cfg.post =>
    /\ hook.calls = 1
    /\ hook.status = "success" <=> result = "ok"
    /\ hook.path = remotePath

\* What the user is told is how the run ended, at most once per attempt
\* (scheduler.go:289, 489, 581-586, retry.go:34).
NoticesAreTrue ==
  /\ \A k \in Kinds : sent[k] <= NotifyRetries + 1
  /\ sent["success"] > 0 => result # "failed" /\ StoredAs(remotePath)
  /\ sent["failure"] > 0 => result = "failed"

(* The inductive invariant: what holds at each stage, so that the properties above hold. *)

BeforeUpload == {"prehook", "dump", Backoff["dump"], "compress", "encrypt",
                 "upload", "copying", Backoff["upload"]}
Notifying == {"notify", Backoff["notify"]}

\* What runBackup has decided so far, and the kind of what is being told.
ResultInv ==
  /\ stage \in BeforeUpload \cup {"record", "verify", "size", "retention"} => result = "none"
  /\ stage \in {"posthook", "hooking"} => result \in {"none", "failed"}
  /\ stage \in Notifying =>
       kind \in Kinds /\ result = IF kind = "failure" THEN "failed" ELSE "none"
  /\ stage \in {"deferring", "done"} => result \in {"ok", "failed"}

\* Upload has returned a path exactly from there on, and the whole copy is at it.
PathInv ==
  /\ (remotePath # NoPath) <=> (stage \notin BeforeUpload /\ result # "failed")
  /\ remotePath # NoPath => StoredAs(remotePath)
  /\ ~older => result = "ok"

\* fileToUpload has its final form when the upload begins, and nothing is copied before.
FileInv ==
  /\ stage \in {"prehook", "dump", Backoff["dump"], "compress"} => upFile = "none" /\ copies = {}
  /\ stage = "encrypt" =>
       cfg.encrypt /\ upFile = (IF cfg.gzip THEN "gzip" ELSE "dump") /\ copies = {}
  /\ stage \in {"upload", "copying", Backoff["upload"]} => upFile = Chosen
  /\ copies # {} => upFile = Chosen
  /\ OnlyChosenFormLeaves

\* A local upload has the final path open, or has left there what it may.
LocalInv ==
  /\ LocalUploadAllOrNothing
  /\ cfg.target = "local" /\ stage = "copying" =>
       /\ Copy(dest, FALSE) \in copies
       /\ \A c \in copies : ~c.whole /\ c.day \in stuck \cup {dest}

\* Each end of a run is recorded when it is reached.
CountInv ==
  /\ recorded.ok =
       IF stage \notin BeforeUpload \cup {"record"} /\ result # "failed" THEN 1 ELSE 0
  /\ recorded.failed =
       IF result = "failed" /\ stage \in Notifying \cup {"done"} THEN 1 ELSE 0

\* A temporary file whose path was returned is removed by a deferred call that is still
\* to come; the passthrough compressor returns the dump file.
Deferred == {defers[i] : i \in 1..Len(defers)}
TempInv ==
  alive =>
    /\ temp \subseteq Deferred \cup {"abandoned", "unreturned"}
    /\ "abandoned" \in temp => cfg.engine = "mysql"
    /\ "unreturned" \in temp => cfg.encrypt /\ result = "failed"
    /\ stage = "compress" => "dump" \in Deferred
    /\ stage = "done" \/ (stage \in Notifying /\ kind = "failure") => defers = <<>>

\* The post-hook is still to come, or was called with what runBackup returns.
BeforeHook ==
  \/ stage \in BeforeUpload \cup {"record", "verify", "size", "posthook"}
  \/ stage \in Notifying /\ kind \in {"verification", "size"}
HookInv ==
  cfg.post =>
    IF BeforeHook
      THEN hook.calls = 0
      ELSE /\ hook.calls = 1
           /\ hook.status = IF result = "failed" THEN "failure" ELSE "success"
           /\ hook.path = remotePath

\* The stages in which a notification of kind k is still to come, or never will.
BeforeNotice(k) ==
  LET telling(kinds) == stage \in Notifying /\ kind \in kinds
      early == BeforeUpload \cup {"record", "verify"}
  IN CASE k = "verification" -> stage \in early
       [] k = "size"    -> stage \in early \cup {"size"} \/ telling({"verification"})
       [] k = "success" -> \/ stage \in early \cup {"size", "posthook", "hooking"}
                           \/ telling({"verification", "size"})
                           \/ result = "failed"
       [] k = "failure" -> stage \in {"posthook", "hooking", "deferring"} \/ result # "failed"

\* A notification arrives at most once per attempt, and in its turn.
NoticeInv ==
  /\ \A k \in Kinds : sent[k] <= NotifyRetries + 1
  /\ \A k \in Kinds : BeforeNotice(k) => sent[k] = 0
  /\ stage = "notify" => sent[kind] <= attempt /\ attempt <= NotifyRetries
  /\ stage = Backoff["notify"] => sent[kind] <= attempt + 1 /\ attempt < NotifyRetries

BackupRunInv ==
  /\ TypeOK
  /\ ResultInv
  /\ PathInv
  /\ FileInv
  /\ LocalInv
  /\ CountInv
  /\ TempInv
  /\ HookInv
  /\ NoticeInv

\* A run comes to an end, whatever fails (retry.go:34-63).
RunEnds == <>Over

\* "Post-hooks run regardless of whether the backup succeeded or failed"
\* (docs/CONFIGURATION.md:357).  Not under a cancelled context (hooks.go:32-35).
PostHooksRun == alive /\ stage = "done" /\ cfg.post => hook.started

==============================================================================
