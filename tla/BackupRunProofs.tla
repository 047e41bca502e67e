--------------------------- MODULE BackupRunProofs ---------------------------
(***************************************************************************)
(* Proofs about BackupRun for every number of retries, every number of     *)
(* midnights during the run and every configuration of the entry.          *)
(***************************************************************************)
EXTENDS BackupRun, TLAPS

------------------------------------------------------------------------------
(* The stages, and what follows them. *)

\* The records of BackupRun, field by field (retry.go:34-63, scheduler.go:473-503).
LEMMA Lookups ==
  /\ Backoff["dump"] = "dumpBackoff"
  /\ Backoff["upload"] = "uploadBackoff"
  /\ Backoff["notify"] = "notifyBackoff"
  /\ AfterNotice["verification"] = "size"
  /\ AfterNotice["size"] = "posthook"
  /\ AfterNotice["success"] = "retention"
  /\ AfterNotice["failure"] = "done"
BY DEF Backoff, AfterNotice

\* The stages, spelled out.
LEMMA AllStages ==
  Stages = {"prehook", "dump", "compress", "encrypt", "upload", "copying", "record", "verify",
            "size", "posthook", "hooking", "notify", "retention", "deferring", "done",
            "dumpBackoff", "uploadBackoff", "notifyBackoff"}
<1>1. {Backoff[s] : s \in Retried} = {"dumpBackoff", "uploadBackoff", "notifyBackoff"}
  BY Lookups DEF Retried
<1>. QED
  BY <1>1 DEF Stages

\* After a backoff comes the next attempt of what failed (retry.go:52-63).
LEMMA NextAttemptMoves ==
  ASSUME NextAttempt
  PROVE  /\ alive
         /\ \/ stage = "dumpBackoff" /\ stage' = "dump"
            \/ stage = "uploadBackoff" /\ stage' = "upload"
            \/ stage = "notifyBackoff" /\ stage' = "notify"
         /\ attempt' = attempt + 1
         /\ UNCHANGED <<cfg, kind, result, fileVars, remoteVars, reportVars, envVars>>
<1>1. PICK s \in Retried : stage = Backoff[s] /\ stage' = s
  BY DEF NextAttempt
<1>2. s = "dump" \/ s = "upload" \/ s = "notify"
  BY DEF Retried
<1>3. \/ stage = "dumpBackoff" /\ stage' = "dump"
      \/ stage = "uploadBackoff" /\ stage' = "upload"
      \/ stage = "notifyBackoff" /\ stage' = "notify"
  BY <1>1, <1>2, Lookups
<1>. QED
  BY <1>3 DEF NextAttempt

\* What each step of a run leaves alone (scheduler.go:321-505).
LEMMA Frames ==
  ASSUME RunStep
  PROVE  /\ \/ UNCHANGED fileVars
            \/ Dump \/ DumpFails \/ Compress \/ Encrypt \/ EncryptFails \/ RunDeferred
         /\ UNCHANGED remoteVars \/ BeginUpload \/ Upload \/ UploadFails \/ Retention
         /\ UNCHANGED reportVars \/ RecordSuccess \/ PostHook \/ Notified \/ NotifyFails \/ Return
         /\ cfg' = cfg
         /\ UNCHANGED envVars
<1>1. UNCHANGED fileVars \/ Dump \/ DumpFails \/ Compress \/ Encrypt \/ EncryptFails \/ RunDeferred
  BY DEF RunStep, PreHook, CannotCreate, CompressFails, BeginUpload, Upload, UploadFails,
         NextAttempt, CancelledInBackoff, RecordSuccess, Verify, TrackSize, PostHook, PostHookEnds,
         Notified, NotifyFails, NoNotifier, Retention, Return
<1>2. UNCHANGED remoteVars \/ BeginUpload \/ Upload \/ UploadFails \/ Retention
  BY DEF RunStep, remoteVars, PreHook, CannotCreate, Dump, DumpFails, Compress,
         CompressFails, Encrypt, EncryptFails, NextAttempt, CancelledInBackoff, RecordSuccess,
         Verify, TrackSize, PostHook, PostHookEnds, Notified, NotifyFails, NoNotifier, RunDeferred,
         Return
<1>3. UNCHANGED reportVars \/ RecordSuccess \/ PostHook \/ Notified \/ NotifyFails \/ Return
  BY DEF RunStep, reportVars, PreHook, CannotCreate, Dump, DumpFails, Compress,
         CompressFails, Encrypt, EncryptFails, BeginUpload, Upload, UploadFails, NextAttempt,
         CancelledInBackoff, Verify, TrackSize, PostHookEnds, NoNotifier, Retention, RunDeferred
<1>4. cfg' = cfg
  BY DEF RunStep, PreHook, CannotCreate, Dump, DumpFails, Compress, CompressFails, Encrypt,
         EncryptFails, BeginUpload, Upload, UploadFails, NextAttempt, CancelledInBackoff,
         RecordSuccess, Verify, TrackSize, PostHook, PostHookEnds, Notified, NotifyFails,
         NoNotifier, Retention, RunDeferred, Return
<1>5. UNCHANGED envVars
  BY DEF RunStep, envVars, PreHook, CannotCreate, Dump, DumpFails, Compress, CompressFails,
         Encrypt, EncryptFails, BeginUpload, Upload, UploadFails, NextAttempt, CancelledInBackoff,
         RecordSuccess, Verify, TrackSize, PostHook, PostHookEnds, Notified, NotifyFails,
         NoNotifier, Retention, RunDeferred, Return
<1>. QED
  BY <1>1, <1>2, <1>3, <1>4, <1>5

------------------------------------------------------------------------------
(* Every variable keeps its type. *)

\* A step of the run keeps the types.
LEMMA TypeRunStep ==
  ASSUME TypeOK, ResultInv, FileInv, RunStep
  PROVE  TypeOK'
<1> USE SMTT(20), ZenonT(40), BackupRunAssumption, Lookups, AllStages
    DEF BackupRunAssumption, Days, NoPath
<1>1. cfg' = cfg /\ UNCHANGED envVars
  BY Frames
<1>2. ControlTypes'
  <2> USE <1>1
     DEF ResultInv, Notifying, TypeOK, ControlTypes, Kinds, envVars, At, Proceed, Fail,
         Notify, Retry
  <2>1. CASE PreHook
    BY <2>1 DEF PreHook
  <2>2. CASE CannotCreate
    BY <2>2 DEF CannotCreate
  <2>3. CASE Dump
    BY <2>3 DEF Dump
  <2>4. CASE DumpFails
    BY <2>4 DEF DumpFails
  <2>5. CASE Compress
    BY <2>5 DEF Compress
  <2>6. CASE CompressFails
    BY <2>6 DEF CompressFails
  <2>7. CASE Encrypt
    BY <2>7 DEF Encrypt
  <2>8. CASE EncryptFails
    BY <2>8 DEF EncryptFails
  <2>9. CASE BeginUpload
    BY <2>9 DEF BeginUpload
  <2>10. CASE Upload
    BY <2>10 DEF Upload
  <2>11. CASE UploadFails
    BY <2>11 DEF UploadFails
  <2>12. CASE NextAttempt
    BY <2>12, NextAttemptMoves
  <2>13. CASE CancelledInBackoff
    BY <2>13 DEF CancelledInBackoff
  <2>14. CASE RecordSuccess
    BY <2>14 DEF RecordSuccess
  <2>15. CASE Verify
    BY <2>15 DEF Verify
  <2>16. CASE TrackSize
    BY <2>16 DEF TrackSize
  <2>17. CASE PostHook
    BY <2>17 DEF PostHook, AfterHook
  <2>18. CASE PostHookEnds
    BY <2>18 DEF PostHookEnds, AfterHook
  <2>19. CASE Notified
    BY <2>19 DEF Notified
  <2>20. CASE NotifyFails
    BY <2>20 DEF NotifyFails
  <2>21. CASE NoNotifier
    BY <2>21 DEF NoNotifier
  <2>22. CASE Retention
    BY <2>22 DEF Retention
  <2>23. CASE RunDeferred
    BY <2>23 DEF RunDeferred
  <2>24. CASE Return
    BY <2>24 DEF Return
  <2>. QED
    BY <2>1, <2>2, <2>3, <2>4, <2>5, <2>6, <2>7, <2>8, <2>9, <2>10, <2>11,
       <2>12, <2>13, <2>14, <2>15, <2>16, <2>17, <2>18, <2>19, <2>20, <2>21,
       <2>22, <2>23, <2>24
       DEF RunStep
<1>3. FileTypes'
  <2> USE DEF TypeOK, ControlTypes, FileTypes, Files
  <2>1. CASE UNCHANGED fileVars
    BY <2>1 DEF fileVars
  <2>2. CASE Dump
    BY <2>2 DEF Dump
  <2>3. CASE DumpFails
    BY <2>3 DEF DumpFails
  <2>4. CASE Compress
    BY <2>4 DEF Compress
  <2>5. CASE Encrypt
    BY <2>5 DEF Encrypt
  <2>6. CASE EncryptFails
    BY <2>6 DEF EncryptFails
  <2>7. CASE RunDeferred
    <3>1. SubSeq(defers, 1, Len(defers) - 1) \in Seq(Files)
      BY <2>7 DEF RunDeferred
    <3>. QED
      BY <2>7, <3>1 DEF RunDeferred
  <2>. QED
    BY <2>1, <2>2, <2>3, <2>4, <2>5, <2>6, <2>7, Frames
<1>4. RemoteTypes'
  <2> USE DEF TypeOK, ControlTypes, RemoteTypes, Files
  <2>1. CASE UNCHANGED remoteVars
    BY <2>1 DEF remoteVars
  <2>2. CASE BeginUpload
    <3>1. upFile \in Files
      BY <2>2 DEF BeginUpload, At, FileInv, Chosen
    <3>2. Copy(today, FALSE) \in [day : Days, what : Files, whole : BOOLEAN]
      BY <3>1 DEF Copy
    <3>3. (copies \subseteq [day : Days, what : Files, whole : BOOLEAN])'
      BY <2>2, <3>2 DEF BeginUpload
    <3>. QED
      BY <2>2, <3>3 DEF BeginUpload
  <2>3. CASE Upload
    <3>1. upFile \in Files
      BY <2>3 DEF Upload, At, FileInv, Chosen
    <3>2. Copy(dest, TRUE) \in [day : Days, what : Files, whole : BOOLEAN]
      BY <3>1 DEF Copy
    <3>3. (copies \subseteq [day : Days, what : Files, whole : BOOLEAN])'
      BY <2>3, <3>2 DEF Upload
    <3>. QED
      BY <2>3, <3>3 DEF Upload
  <2>4. CASE UploadFails
    <3>1. upFile \in Files
      BY <2>4 DEF UploadFails, FileInv, Chosen
    <3>2. Copy(dest, TRUE) \in [day : Days, what : Files, whole : BOOLEAN]
      BY <3>1 DEF Copy
    <3>3. (copies \subseteq [day : Days, what : Files, whole : BOOLEAN])'
      BY <2>4, <3>2 DEF UploadFails
    <3>. QED
      BY <2>4, <3>3 DEF UploadFails
  <2>5. CASE Retention
    BY <2>5 DEF Retention
  <2>. QED
    BY <2>1, <2>2, <2>3, <2>4, <2>5, Frames
<1>5. ReportTypes'
  <2> USE DEF TypeOK, ControlTypes, RemoteTypes, ReportTypes, Kinds
  <2>1. CASE UNCHANGED reportVars
    BY <2>1 DEF reportVars
  <2>2. CASE RecordSuccess
    <3>1. recorded.ok \in Nat /\ recorded.failed \in Nat
      OBVIOUS
    <3>2. recorded' = [ok |-> recorded.ok + 1, failed |-> recorded.failed]
      BY <2>2 DEF RecordSuccess
    <3>3. (recorded \in [ok : Nat, failed : Nat])'
      BY <3>1, <3>2
    <3>. QED
      BY <2>2, <3>3 DEF RecordSuccess
  <2>3. CASE PostHook
    <3>1. hook.calls + 1 \in Nat
      OBVIOUS
    <3>2. /\ (IF result = "failed" THEN "failure" ELSE "success")
               \in {"pending", "failure", "success"}
          /\ (IF result = "failed" THEN NoPath ELSE remotePath) \in Days \cup {NoPath}
      OBVIOUS
    <3>4. (~cancelled) \in BOOLEAN
      OBVIOUS
    <3>5. \/ hook' = hook
          \/ hook' = [calls |-> hook.calls + 1,
                      status |-> IF result = "failed" THEN "failure" ELSE "success",
                      path |-> IF result = "failed" THEN NoPath ELSE remotePath,
                      started |-> ~cancelled]
      BY <2>3 DEF PostHook
    <3>6. (hook \in [calls : Nat, status : {"pending", "failure", "success"},
                    path : Days \cup {NoPath}, started : BOOLEAN])'
      <4>1. CASE hook' = hook
        BY <4>1
      <4>2. CASE hook' = [calls |-> hook.calls + 1,
                      status |-> IF result = "failed" THEN "failure" ELSE "success",
                      path |-> IF result = "failed" THEN NoPath ELSE remotePath,
                      started |-> ~cancelled]
        BY <4>2, <3>1, <3>2, <3>4
      <4>. QED
        BY <3>5, <4>1, <4>2
    <3>. QED
      BY <2>3, <3>6 DEF PostHook
  <2>4. CASE Notified
    <3>1. kind \in Kinds
      BY <2>4 DEF Notified, At, ResultInv, Notifying
    <3>2. (sent \in [Kinds -> Nat])'
      BY <2>4, <3>1 DEF Notified
    <3>. QED
      BY <2>4, <3>2 DEF Notified
  <2>5. CASE NotifyFails
    BY <2>5 DEF NotifyFails
  <2>6. CASE Return
    <3>1. recorded.ok \in Nat /\ recorded.failed \in Nat
      OBVIOUS
    <3>2. recorded' \in {recorded, [ok |-> recorded.ok, failed |-> recorded.failed + 1]}
      BY <2>6 DEF Return
    <3>3. (recorded \in [ok : Nat, failed : Nat])'
      BY <3>1, <3>2
    <3>. QED
      BY <2>6, <3>3 DEF Return
  <2>. QED
    BY <2>1, <2>2, <2>3, <2>4, <2>5, <2>6, Frames
<1>. QED
  BY <1>2, <1>3, <1>4, <1>5 DEF TypeOK

------------------------------------------------------------------------------
(* The parts of the inductive invariant, one by one. *)

\* What runBackup has decided fits the stage: an error return goes to the post-hook with a
\* failure, and only Retention decides a success (scheduler.go:351-503).
LEMMA ResultRunStep ==
  ASSUME TypeOK, ResultInv, RunStep
  PROVE  ResultInv'
<1> USE SMTT(20), ZenonT(40), BackupRunAssumption, Lookups, AllStages
    DEF BackupRunAssumption, TypeOK, ControlTypes, FileTypes, RemoteTypes, ReportTypes,
        Days, NoPath, Files, Kinds, BeforeUpload, Notifying,
        At, Proceed, Fail, Notify, Retry, fileVars, remoteVars, reportVars, envVars,
        ResultInv
<1>1. CASE PreHook
  BY <1>1 DEF PreHook
<1>2. CASE CannotCreate
  BY <1>2 DEF CannotCreate
<1>3. CASE Dump
  BY <1>3 DEF Dump
<1>4. CASE DumpFails
  BY <1>4 DEF DumpFails
<1>5. CASE Compress
  BY <1>5 DEF Compress
<1>6. CASE CompressFails
  BY <1>6 DEF CompressFails
<1>7. CASE Encrypt
  BY <1>7 DEF Encrypt
<1>8. CASE EncryptFails
  BY <1>8 DEF EncryptFails
<1>9. CASE BeginUpload
  BY <1>9 DEF BeginUpload
<1>10. CASE Upload
  BY <1>10 DEF Upload
<1>11. CASE UploadFails
  BY <1>11 DEF UploadFails
<1>12. CASE NextAttempt
  BY <1>12, NextAttemptMoves
<1>13. CASE CancelledInBackoff
  BY <1>13 DEF CancelledInBackoff
<1>14. CASE RecordSuccess
  BY <1>14 DEF RecordSuccess
<1>15. CASE Verify
  BY <1>15 DEF Verify
<1>16. CASE TrackSize
  BY <1>16 DEF TrackSize
<1>17. CASE PostHook
  BY <1>17 DEF PostHook, AfterHook
<1>18. CASE PostHookEnds
  BY <1>18 DEF PostHookEnds, AfterHook
<1>19. CASE Notified
  BY <1>19 DEF Notified
<1>20. CASE NotifyFails
  BY <1>20 DEF NotifyFails
<1>21. CASE NoNotifier
  BY <1>21 DEF NoNotifier
<1>22. CASE Retention
  BY <1>22 DEF Retention
<1>23. CASE RunDeferred
  BY <1>23 DEF RunDeferred
<1>24. CASE Return
  BY <1>24 DEF Return
<1>. QED
  BY <1>1, <1>2, <1>3, <1>4, <1>5, <1>6, <1>7, <1>8, <1>9, <1>10, <1>11, <1>12, <1>13,
     <1>14, <1>15, <1>16, <1>17, <1>18, <1>19, <1>20, <1>21, <1>22, <1>23, <1>24 DEF RunStep

\* A path is kept exactly when Upload has returned it, and the whole copy is there
\* (scheduler.go:448-455, local.go:50-93, s3.go:57-96).
LEMMA PathRunStep ==
  ASSUME TypeOK, ResultInv, PathInv, RunStep
  PROVE  PathInv'
<1> USE SMTT(20), ZenonT(40), BackupRunAssumption, Lookups, AllStages
    DEF BackupRunAssumption, TypeOK, ControlTypes, FileTypes, RemoteTypes, ReportTypes,
        Days, NoPath, Files, Kinds, BeforeUpload, Notifying,
        At, Proceed, Fail, Notify, Retry, fileVars, remoteVars, reportVars, envVars,
        ResultInv, PathInv, StoredAs, Copy
<1>1. CASE PreHook
  BY <1>1 DEF PreHook
<1>2. CASE CannotCreate
  BY <1>2 DEF CannotCreate
<1>3. CASE Dump
  BY <1>3 DEF Dump
<1>4. CASE DumpFails
  BY <1>4 DEF DumpFails
<1>5. CASE Compress
  BY <1>5 DEF Compress
<1>6. CASE CompressFails
  BY <1>6 DEF CompressFails
<1>7. CASE Encrypt
  BY <1>7 DEF Encrypt
<1>8. CASE EncryptFails
  BY <1>8 DEF EncryptFails
<1>9. CASE BeginUpload
  BY <1>9 DEF BeginUpload
<1>10. CASE Upload
  BY <1>10 DEF Upload
<1>11. CASE UploadFails
  BY <1>11 DEF UploadFails
<1>12. CASE NextAttempt
  BY <1>12, NextAttemptMoves
<1>13. CASE CancelledInBackoff
  BY <1>13 DEF CancelledInBackoff
<1>14. CASE RecordSuccess
  BY <1>14 DEF RecordSuccess
<1>15. CASE Verify
  BY <1>15 DEF Verify
<1>16. CASE TrackSize
  BY <1>16 DEF TrackSize
<1>17. CASE PostHook
  BY <1>17 DEF PostHook, AfterHook
<1>18. CASE PostHookEnds
  BY <1>18 DEF PostHookEnds, AfterHook
<1>19. CASE Notified
  BY <1>19 DEF Notified
<1>20. CASE NotifyFails
  BY <1>20 DEF NotifyFails
<1>21. CASE NoNotifier
  BY <1>21 DEF NoNotifier
<1>22. CASE Retention
  BY <1>22 DEF Retention
<1>23. CASE RunDeferred
  BY <1>23 DEF RunDeferred
<1>24. CASE Return
  BY <1>24 DEF Return
<1>. QED
  BY <1>1, <1>2, <1>3, <1>4, <1>5, <1>6, <1>7, <1>8, <1>9, <1>10, <1>11, <1>12, <1>13,
     <1>14, <1>15, <1>16, <1>17, <1>18, <1>19, <1>20, <1>21, <1>22, <1>23, <1>24 DEF RunStep

\* fileToUpload goes from none over the compressed to the encrypted file before anything
\* is copied (scheduler.go:393-439).
LEMMA FileRunStep ==
  ASSUME TypeOK, ResultInv, FileInv, RunStep
  PROVE  FileInv'
<1> USE SMTT(20), ZenonT(40), BackupRunAssumption, Lookups, AllStages
    DEF BackupRunAssumption, TypeOK, ControlTypes, FileTypes, RemoteTypes, ReportTypes,
        Days, NoPath, Files, Kinds, BeforeUpload, Notifying,
        At, Proceed, Fail, Notify, Retry, fileVars, remoteVars, reportVars, envVars,
        ResultInv, FileInv, Copy, OnlyChosenFormLeaves, Chosen
<1>1. CASE PreHook
  BY <1>1 DEF PreHook
<1>2. CASE CannotCreate
  BY <1>2 DEF CannotCreate
<1>3. CASE Dump
  BY <1>3 DEF Dump
<1>4. CASE DumpFails
  BY <1>4 DEF DumpFails
<1>5. CASE Compress
  BY <1>5 DEF Compress
<1>6. CASE CompressFails
  BY <1>6 DEF CompressFails
<1>7. CASE Encrypt
  BY <1>7 DEF Encrypt
<1>8. CASE EncryptFails
  BY <1>8 DEF EncryptFails
<1>9. CASE BeginUpload
  BY <1>9 DEF BeginUpload
<1>10. CASE Upload
  BY <1>10 DEF Upload
<1>11. CASE UploadFails
  BY <1>11 DEF UploadFails
<1>12. CASE NextAttempt
  BY <1>12, NextAttemptMoves
<1>13. CASE CancelledInBackoff
  BY <1>13 DEF CancelledInBackoff
<1>14. CASE RecordSuccess
  BY <1>14 DEF RecordSuccess
<1>15. CASE Verify
  BY <1>15 DEF Verify
<1>16. CASE TrackSize
  BY <1>16 DEF TrackSize
<1>17. CASE PostHook
  BY <1>17 DEF PostHook, AfterHook
<1>18. CASE PostHookEnds
  BY <1>18 DEF PostHookEnds, AfterHook
<1>19. CASE Notified
  BY <1>19 DEF Notified
<1>20. CASE NotifyFails
  BY <1>20 DEF NotifyFails
<1>21. CASE NoNotifier
  BY <1>21 DEF NoNotifier
<1>22. CASE Retention
  BY <1>22 DEF Retention
<1>23. CASE RunDeferred
  BY <1>23 DEF RunDeferred
<1>24. CASE Return
  BY <1>24 DEF Return
<1>. QED
  BY <1>1, <1>2, <1>3, <1>4, <1>5, <1>6, <1>7, <1>8, <1>9, <1>10, <1>11, <1>12, <1>13,
     <1>14, <1>15, <1>16, <1>17, <1>18, <1>19, <1>20, <1>21, <1>22, <1>23, <1>24 DEF RunStep

\* A partial copy is known by its date.
LEMMA OneCopy ==
  ASSUME TypeOK, FileInv, upFile = Chosen, NEW c \in copies, ~c.whole, NEW d, c.day = d
  PROVE  c = Copy(d, FALSE)
<1>1. c \in [day : Days, what : Files, whole : BOOLEAN] /\ c.what = upFile
  BY DEF TypeOK, RemoteTypes, FileInv, OnlyChosenFormLeaves
<1>2. c.whole = FALSE
  BY <1>1
<1>3. c = [day |-> c.day, what |-> c.what, whole |-> c.whole]
  BY <1>1
<1>. QED
  BY <1>1, <1>2, <1>3 DEF Copy

\* The local uploader leaves the whole copy, or nothing but what os.Remove left of an
\* attempt (local.go:62-90).
LEMMA LocalRunStep ==
  ASSUME TypeOK, ResultInv, PathInv, FileInv, LocalInv, RunStep
  PROVE  LocalInv'
<1> USE SMTT(20), ZenonT(40), BackupRunAssumption, Lookups, AllStages
    DEF BackupRunAssumption, TypeOK, ControlTypes, FileTypes, RemoteTypes, ReportTypes,
        Days, NoPath, Files, Kinds, BeforeUpload, Notifying,
        At, Proceed, Fail, Notify, Retry, fileVars, remoteVars, reportVars, envVars,
        ResultInv, PathInv, FileInv, LocalInv, Copy, LocalUploadAllOrNothing
<1>1. CASE PreHook
  BY <1>1 DEF PreHook
<1>2. CASE CannotCreate
  BY <1>2 DEF CannotCreate
<1>3. CASE Dump
  BY <1>3 DEF Dump
<1>4. CASE DumpFails
  BY <1>4 DEF DumpFails
<1>5. CASE Compress
  BY <1>5 DEF Compress
<1>6. CASE CompressFails
  BY <1>6 DEF CompressFails
<1>7. CASE Encrypt
  BY <1>7 DEF Encrypt
<1>8. CASE EncryptFails
  BY <1>8 DEF EncryptFails
<1>9. CASE BeginUpload
  BY <1>9 DEF BeginUpload
<1>10. CASE Upload
  <2>1. /\ stage = "copying" /\ upFile = Chosen /\ stage' = "record"
        /\ upFile' = upFile /\ stuck' = stuck /\ cfg' = cfg /\ remotePath' = dest
        /\ copies' = (copies \ {Copy(dest, FALSE)}) \cup {Copy(dest, TRUE)}
    BY <1>10 DEF Upload
  <2>2. ASSUME cfg.target = "local", NEW c \in copies', c # Copy(dest, TRUE)
        PROVE  ~c.whole /\ c.day \in stuck \ {dest}
    <3>1. c \in copies /\ c # Copy(dest, FALSE) /\ ~c.whole /\ c.day \in stuck \cup {dest}
      BY <2>1, <2>2
    <3>. QED
      BY <2>1, <3>1, OneCopy
  <2>3. Copy(dest, TRUE).whole = TRUE /\ Copy(dest, TRUE).day = dest
    BY DEF Copy
  <2>4. Copy(remotePath, TRUE)' = Copy(dest, TRUE)
    BY <2>1 DEF Copy
  <2>. QED
    BY <2>1, <2>2, <2>3, <2>4
<1>11. CASE UploadFails
  <2>1. /\ upFile = Chosen /\ stage' # "copying" /\ remotePath = NoPath
        /\ upFile' = upFile /\ cfg' = cfg /\ remotePath' = remotePath
    BY <1>11 DEF UploadFails
  <2>2. CASE cfg.target # "local"
    BY <2>1, <2>2
  <2>3. CASE cfg.target = "local" /\ stage = "upload"
    BY <1>11, <2>1, <2>3 DEF UploadFails
  <2>4. CASE cfg.target = "local" /\ stage = "copying"
    <3>1. \A c \in copies : ~c.whole /\ c.day \in stuck \cup {dest} /\ c.day \in Days
      BY <2>4
    <3>2. \A c \in copies : c.day = dest => c = Copy(dest, FALSE)
      BY <2>1, <3>1, OneCopy
    <3>3. \A c \in copies' : ~c.whole /\ c.day \in stuck' /\ c.day # NoPath
      BY <1>11, <2>4, <3>1, <3>2 DEF UploadFails
    <3>. QED
      BY <2>1, <3>3
  <2>. QED
    BY <1>11, <2>2, <2>3, <2>4 DEF UploadFails
<1>12. CASE NextAttempt
  BY <1>12, NextAttemptMoves
<1>13. CASE CancelledInBackoff
  BY <1>13 DEF CancelledInBackoff
<1>14. CASE RecordSuccess
  BY <1>14 DEF RecordSuccess
<1>15. CASE Verify
  BY <1>15 DEF Verify
<1>16. CASE TrackSize
  BY <1>16 DEF TrackSize
<1>17. CASE PostHook
  BY <1>17 DEF PostHook, AfterHook
<1>18. CASE PostHookEnds
  BY <1>18 DEF PostHookEnds, AfterHook
<1>19. CASE Notified
  BY <1>19 DEF Notified
<1>20. CASE NotifyFails
  BY <1>20 DEF NotifyFails
<1>21. CASE NoNotifier
  BY <1>21 DEF NoNotifier
<1>22. CASE Retention
  BY <1>22 DEF Retention
<1>23. CASE RunDeferred
  BY <1>23 DEF RunDeferred
<1>24. CASE Return
  BY <1>24 DEF Return
<1>. QED
  BY <1>1, <1>2, <1>3, <1>4, <1>5, <1>6, <1>7, <1>8, <1>9, <1>10, <1>11, <1>12, <1>13,
     <1>14, <1>15, <1>16, <1>17, <1>18, <1>19, <1>20, <1>21, <1>22, <1>23, <1>24 DEF RunStep

\* A success is recorded after the upload, a failure after the return
\* (scheduler.go:455-473, 281-288).
LEMMA CountRunStep ==
  ASSUME TypeOK, ResultInv, CountInv, RunStep
  PROVE  CountInv'
<1> USE SMTT(20), ZenonT(40), BackupRunAssumption, Lookups, AllStages
    DEF BackupRunAssumption, TypeOK, ControlTypes, FileTypes, RemoteTypes, ReportTypes,
        Days, NoPath, Files, Kinds, BeforeUpload, Notifying,
        At, Proceed, Fail, Notify, Retry, fileVars, remoteVars, reportVars, envVars,
        ResultInv, CountInv
<1>1. CASE PreHook
  BY <1>1 DEF PreHook
<1>2. CASE CannotCreate
  BY <1>2 DEF CannotCreate
<1>3. CASE Dump
  BY <1>3 DEF Dump
<1>4. CASE DumpFails
  BY <1>4 DEF DumpFails
<1>5. CASE Compress
  BY <1>5 DEF Compress
<1>6. CASE CompressFails
  BY <1>6 DEF CompressFails
<1>7. CASE Encrypt
  BY <1>7 DEF Encrypt
<1>8. CASE EncryptFails
  BY <1>8 DEF EncryptFails
<1>9. CASE BeginUpload
  BY <1>9 DEF BeginUpload
<1>10. CASE Upload
  BY <1>10 DEF Upload
<1>11. CASE UploadFails
  BY <1>11 DEF UploadFails
<1>12. CASE NextAttempt
  BY <1>12, NextAttemptMoves
<1>13. CASE CancelledInBackoff
  BY <1>13 DEF CancelledInBackoff
<1>14. CASE RecordSuccess
  BY <1>14 DEF RecordSuccess
<1>15. CASE Verify
  BY <1>15 DEF Verify
<1>16. CASE TrackSize
  BY <1>16 DEF TrackSize
<1>17. CASE PostHook
  BY <1>17 DEF PostHook, AfterHook
<1>18. CASE PostHookEnds
  BY <1>18 DEF PostHookEnds, AfterHook
<1>19. CASE Notified
  BY <1>19 DEF Notified
<1>20. CASE NotifyFails
  BY <1>20 DEF NotifyFails
<1>21. CASE NoNotifier
  BY <1>21 DEF NoNotifier
<1>22. CASE Retention
  BY <1>22 DEF Retention
<1>23. CASE RunDeferred
  BY <1>23 DEF RunDeferred
<1>24. CASE Return
  BY <1>24 DEF Return
<1>. QED
  BY <1>1, <1>2, <1>3, <1>4, <1>5, <1>6, <1>7, <1>8, <1>9, <1>10, <1>11, <1>12, <1>13,
     <1>14, <1>15, <1>16, <1>17, <1>18, <1>19, <1>20, <1>21, <1>22, <1>23, <1>24 DEF RunStep

\* A deferred call is added to those still to come.
LEMMA DeferredAppend ==
  ASSUME defers \in Seq(Files), NEW f \in Files, defers' = Append(defers, f)
  PROVE  Deferred' = Deferred \cup {f}
BY DEF Deferred

\* The last one registered is made first.
LEMMA DeferredPop ==
  ASSUME defers \in Seq(Files), defers # <<>>,
         defers' = SubSeq(defers, 1, Len(defers) - 1)
  PROVE  Deferred \subseteq Deferred' \cup {defers[Len(defers)]}
BY DEF Deferred

\* What is in the temporary directory has a deferred os.Remove still to come, or its
\* path was never returned (scheduler.go:371-382, 405, 435).
LEMMA TempRunStep ==
  ASSUME TypeOK, ResultInv, FileInv, TempInv, RunStep
  PROVE  TempInv'
<1> USE SMTT(20), ZenonT(40), BackupRunAssumption, Lookups, AllStages
    DEF BackupRunAssumption, TypeOK, ControlTypes, FileTypes, RemoteTypes, ReportTypes,
        Days, NoPath, Files, Kinds, BeforeUpload, Notifying,
        At, Proceed, Fail, Notify, Retry, fileVars, remoteVars, reportVars, envVars,
        ResultInv, FileInv, TempInv
<1>0. defers' = defers => Deferred' = Deferred
  BY DEF Deferred
<1>1. CASE PreHook
  BY <1>0, <1>1 DEF PreHook
<1>2. CASE CannotCreate
  BY <1>0, <1>2 DEF CannotCreate
<1>3. CASE Dump
  BY <1>3, DeferredAppend DEF Dump
<1>4. CASE DumpFails
  BY <1>0, <1>4 DEF DumpFails
<1>5. CASE Compress
  BY <1>5, DeferredAppend DEF Compress, Deferred
<1>6. CASE CompressFails
  BY <1>0, <1>6 DEF CompressFails
<1>7. CASE Encrypt
  BY <1>7, DeferredAppend DEF Encrypt
<1>8. CASE EncryptFails
  BY <1>0, <1>8 DEF EncryptFails
<1>9. CASE BeginUpload
  BY <1>0, <1>9 DEF BeginUpload
<1>10. CASE Upload
  BY <1>0, <1>10 DEF Upload
<1>11. CASE UploadFails
  BY <1>0, <1>11 DEF UploadFails
<1>12. CASE NextAttempt
  BY <1>0, <1>12, NextAttemptMoves
<1>13. CASE CancelledInBackoff
  BY <1>0, <1>13 DEF CancelledInBackoff
<1>14. CASE RecordSuccess
  BY <1>0, <1>14 DEF RecordSuccess
<1>15. CASE Verify
  BY <1>0, <1>15 DEF Verify
<1>16. CASE TrackSize
  BY <1>0, <1>16 DEF TrackSize
<1>17. CASE PostHook
  BY <1>0, <1>17 DEF PostHook, AfterHook
<1>18. CASE PostHookEnds
  BY <1>0, <1>18 DEF PostHookEnds, AfterHook
<1>19. CASE Notified
  BY <1>0, <1>19 DEF Notified
<1>20. CASE NotifyFails
  BY <1>0, <1>20 DEF NotifyFails
<1>21. CASE NoNotifier
  BY <1>0, <1>21 DEF NoNotifier
<1>22. CASE Retention
  BY <1>0, <1>22 DEF Retention
<1>23. CASE RunDeferred
  BY <1>23, DeferredPop DEF RunDeferred
<1>24. CASE Return
  BY <1>0, <1>24 DEF Return
<1>. QED
  BY <1>1, <1>2, <1>3, <1>4, <1>5, <1>6, <1>7, <1>8, <1>9, <1>10, <1>11, <1>12, <1>13,
     <1>14, <1>15, <1>16, <1>17, <1>18, <1>19, <1>20, <1>21, <1>22, <1>23, <1>24 DEF RunStep

\* The post-hook is called once, between the decision and its report
\* (scheduler.go:351-461, 486).
LEMMA HookRunStep ==
  ASSUME TypeOK, ResultInv, PathInv, HookInv, RunStep
  PROVE  HookInv'
<1> USE SMTT(20), ZenonT(40), BackupRunAssumption, Lookups, AllStages
    DEF BackupRunAssumption, TypeOK, ControlTypes, FileTypes, RemoteTypes, ReportTypes,
        Days, NoPath, Files, Kinds, BeforeUpload, Notifying,
        At, Proceed, Fail, Notify, Retry, fileVars, remoteVars, reportVars, envVars,
        ResultInv, PathInv, HookInv, BeforeHook
<1>1. CASE PreHook
  BY <1>1 DEF PreHook
<1>2. CASE CannotCreate
  BY <1>2 DEF CannotCreate
<1>3. CASE Dump
  BY <1>3 DEF Dump
<1>4. CASE DumpFails
  BY <1>4 DEF DumpFails
<1>5. CASE Compress
  BY <1>5 DEF Compress
<1>6. CASE CompressFails
  BY <1>6 DEF CompressFails
<1>7. CASE Encrypt
  BY <1>7 DEF Encrypt
<1>8. CASE EncryptFails
  BY <1>8 DEF EncryptFails
<1>9. CASE BeginUpload
  BY <1>9 DEF BeginUpload
<1>10. CASE Upload
  BY <1>10 DEF Upload
<1>11. CASE UploadFails
  BY <1>11 DEF UploadFails
<1>12. CASE NextAttempt
  BY <1>12, NextAttemptMoves
<1>13. CASE CancelledInBackoff
  BY <1>13 DEF CancelledInBackoff
<1>14. CASE RecordSuccess
  BY <1>14 DEF RecordSuccess
<1>15. CASE Verify
  BY <1>15 DEF Verify
<1>16. CASE TrackSize
  BY <1>16 DEF TrackSize
<1>17. CASE PostHook
  BY <1>17 DEF PostHook, AfterHook
<1>18. CASE PostHookEnds
  BY <1>18 DEF PostHookEnds, AfterHook
<1>19. CASE Notified
  BY <1>19 DEF Notified
<1>20. CASE NotifyFails
  BY <1>20 DEF NotifyFails
<1>21. CASE NoNotifier
  BY <1>21 DEF NoNotifier
<1>22. CASE Retention
  BY <1>22 DEF Retention
<1>23. CASE RunDeferred
  BY <1>23 DEF RunDeferred
<1>24. CASE Return
  BY <1>24 DEF Return
<1>. QED
  BY <1>1, <1>2, <1>3, <1>4, <1>5, <1>6, <1>7, <1>8, <1>9, <1>10, <1>11, <1>12, <1>13,
     <1>14, <1>15, <1>16, <1>17, <1>18, <1>19, <1>20, <1>21, <1>22, <1>23, <1>24 DEF RunStep

\* Each attempt of retry.Do sends at most one notification, and each kind has its turn
\* (scheduler.go:289, 489, 566-610, retry.go:34-63).
LEMMA NoticeRunStep ==
  ASSUME TypeOK, ResultInv, NoticeInv, RunStep
  PROVE  NoticeInv'
<1> USE SMTT(20), ZenonT(40), BackupRunAssumption, Lookups, AllStages
    DEF BackupRunAssumption, TypeOK, ControlTypes, FileTypes, RemoteTypes, ReportTypes,
        Days, NoPath, Files, Kinds, BeforeUpload, Notifying,
        At, Proceed, Fail, Notify, Retry, fileVars, remoteVars, reportVars, envVars,
        ResultInv, NoticeInv, BeforeNotice
<1>1. CASE PreHook
  BY <1>1 DEF PreHook
<1>2. CASE CannotCreate
  BY <1>2 DEF CannotCreate
<1>3. CASE Dump
  BY <1>3 DEF Dump
<1>4. CASE DumpFails
  BY <1>4 DEF DumpFails
<1>5. CASE Compress
  BY <1>5 DEF Compress
<1>6. CASE CompressFails
  BY <1>6 DEF CompressFails
<1>7. CASE Encrypt
  BY <1>7 DEF Encrypt
<1>8. CASE EncryptFails
  BY <1>8 DEF EncryptFails
<1>9. CASE BeginUpload
  BY <1>9 DEF BeginUpload
<1>10. CASE Upload
  BY <1>10 DEF Upload
<1>11. CASE UploadFails
  BY <1>11 DEF UploadFails
<1>12. CASE NextAttempt
  <2>1. \A k \in Kinds : sent'[k] <= NotifyRetries + 1
    BY <1>12, NextAttemptMoves
  <2>2. ASSUME NEW k \in Kinds, BeforeNotice(k)'
        PROVE  sent'[k] = 0
    BY <2>2, <1>12, NextAttemptMoves
  <2>3. stage' = "notify" => sent'[kind'] <= attempt' /\ attempt' <= NotifyRetries
    BY <1>12, NextAttemptMoves
  <2>4. stage' = "notifyBackoff" => sent'[kind'] <= attempt' + 1 /\ attempt' < NotifyRetries
    BY <1>12, NextAttemptMoves
  <2>. QED
    BY <2>1, <2>2, <2>3, <2>4
<1>13. CASE CancelledInBackoff
  BY <1>13 DEF CancelledInBackoff
<1>14. CASE RecordSuccess
  BY <1>14 DEF RecordSuccess
<1>15. CASE Verify
  BY <1>15 DEF Verify
<1>16. CASE TrackSize
  BY <1>16 DEF TrackSize
<1>17. CASE PostHook
  <2>1. \A k \in Kinds : sent'[k] <= NotifyRetries + 1
    BY <1>17 DEF PostHook, AfterHook
  <2>2. ASSUME NEW k \in Kinds, BeforeNotice(k)'
        PROVE  sent'[k] = 0
    BY <2>2, <1>17 DEF PostHook, AfterHook
  <2>3. stage' = "notify" => sent'[kind'] <= attempt' /\ attempt' <= NotifyRetries
    BY <1>17 DEF PostHook, AfterHook
  <2>4. stage' = "notifyBackoff" => sent'[kind'] <= attempt' + 1 /\ attempt' < NotifyRetries
    BY <1>17 DEF PostHook, AfterHook
  <2>. QED
    BY <2>1, <2>2, <2>3, <2>4
<1>18. CASE PostHookEnds
  BY <1>18 DEF PostHookEnds, AfterHook
<1>19. CASE Notified
  <2>1. \A k \in Kinds : sent'[k] <= NotifyRetries + 1
    BY <1>19 DEF Notified
  <2>2. ASSUME NEW k \in Kinds, BeforeNotice(k)'
        PROVE  sent'[k] = 0
    BY <2>2, <1>19 DEF Notified
  <2>3. stage' = "notify" => sent'[kind'] <= attempt' /\ attempt' <= NotifyRetries
    BY <1>19 DEF Notified
  <2>4. stage' = "notifyBackoff" => sent'[kind'] <= attempt' + 1 /\ attempt' < NotifyRetries
    BY <1>19 DEF Notified
  <2>. QED
    BY <2>1, <2>2, <2>3, <2>4
<1>20. CASE NotifyFails
  <2>1. \A k \in Kinds : sent'[k] <= NotifyRetries + 1
    <3>1. kind \in Kinds /\ sent[kind] + 1 <= NotifyRetries + 1
      BY <1>20 DEF NotifyFails
    <3>2. \/ sent' = sent
          \/ sent' = [sent EXCEPT ![kind] = @ + 1]
      BY <1>20 DEF NotifyFails
    <3>. QED
      BY <3>1, <3>2
  <2>2. ASSUME NEW k \in Kinds, BeforeNotice(k)'
        PROVE  sent'[k] = 0
    BY <2>2, <1>20 DEF NotifyFails
  <2>3. stage' = "notify" => sent'[kind'] <= attempt' /\ attempt' <= NotifyRetries
    BY <1>20 DEF NotifyFails
  <2>4. stage' = "notifyBackoff" => sent'[kind'] <= attempt' + 1 /\ attempt' < NotifyRetries
    BY <1>20 DEF NotifyFails
  <2>. QED
    BY <2>1, <2>2, <2>3, <2>4
<1>21. CASE NoNotifier
  BY <1>21 DEF NoNotifier
<1>22. CASE Retention
  BY <1>22 DEF Retention
<1>23. CASE RunDeferred
  BY <1>23 DEF RunDeferred
<1>24. CASE Return
  BY <1>24 DEF Return
<1>. QED
  BY <1>1, <1>2, <1>3, <1>4, <1>5, <1>6, <1>7, <1>8, <1>9, <1>10, <1>11, <1>12, <1>13,
     <1>14, <1>15, <1>16, <1>17, <1>18, <1>19, <1>20, <1>21, <1>22, <1>23, <1>24 DEF RunStep

------------------------------------------------------------------------------
(* The invariant. *)

\* What the daemon's context, the calendar and the end of the process change: neither the
\* stage nor what the properties relate to it (main.go:447-462, path.go:46).
LEMMA AroundTheRun ==
  ASSUME BackupRunInv, Cancel \/ Midnight \/ Crash \/ UNCHANGED vars
  PROVE  BackupRunInv'
<1> USE SMTT(20), ZenonT(40), BackupRunAssumption DEF BackupRunAssumption
<1>1. /\ cfg' = cfg /\ stage' = stage /\ attempt' = attempt /\ kind' = kind
      /\ result' = result /\ defers' = defers /\ upFile' = upFile
      /\ UNCHANGED remoteVars /\ UNCHANGED reportVars
  BY DEF Cancel, Midnight, Crash, vars, fileVars
<1>2. alive' => alive /\ temp' = temp
  BY DEF Cancel, Midnight, Crash, vars, fileVars, envVars, BackupRunInv, TypeOK, ControlTypes
<1>3. TypeOK'
  <2> USE DEF BackupRunInv, TypeOK, ControlTypes, FileTypes, RemoteTypes, ReportTypes
  <2>1. temp' \subseteq Files
    BY DEF Cancel, Midnight, Crash, vars, fileVars, InProgress, Files
  <2>2. today' \in Days
    BY DEF Cancel, Midnight, Crash, vars, envVars, Days
  <2>3. (cancelled' \in BOOLEAN) /\ (alive' \in BOOLEAN)
    BY DEF Cancel, Midnight, Crash, vars, envVars
  <2>. QED
    BY <1>1, <2>1, <2>2, <2>3 DEF remoteVars, reportVars
<1>4. ResultInv' /\ PathInv' /\ FileInv' /\ LocalInv'
  BY <1>1 DEF BackupRunInv, ResultInv, PathInv, FileInv, LocalInv, StoredAs, Copy, Chosen,
              OnlyChosenFormLeaves, LocalUploadAllOrNothing, remoteVars
<1>5. CountInv' /\ HookInv' /\ NoticeInv'
  BY <1>1 DEF BackupRunInv, CountInv, HookInv, NoticeInv, BeforeHook, BeforeNotice,
              reportVars, remoteVars
<1>6. TempInv'
  BY <1>1, <1>2 DEF BackupRunInv, TempInv, Deferred
<1>. QED
  BY <1>3, <1>4, <1>5, <1>6 DEF BackupRunInv

\* A run begins before the upload, with nothing made, stored or told (scheduler.go:321-340).
LEMMA InvInit == Init => BackupRunInv
<1> SUFFICES ASSUME Init
             PROVE  BackupRunInv
  OBVIOUS
<1> USE SMTT(20), ZenonT(40), BackupRunAssumption, Lookups
    DEF BackupRunAssumption, Init, Days, NoPath, BeforeUpload, Notifying
<1>1. TypeOK
  <2>1. stage \in Stages /\ attempt \in Nat
    BY AllStages
  <2>2. sent \in [Kinds -> Nat]
    OBVIOUS
  <2>3. defers \in Seq(Files) /\ temp \subseteq Files
    OBVIOUS
  <2>4. (older \in BOOLEAN) /\ (cancelled \in BOOLEAN) /\ (alive \in BOOLEAN)
    OBVIOUS
  <2>5. /\ today \in Days /\ dest \in Days /\ remotePath \in Days \cup {NoPath}
        /\ copies \subseteq [day : Days, what : Files, whole : BOOLEAN]
    OBVIOUS
  <2>6. hook \in [calls : Nat, status : {"pending", "failure", "success"},
                  path : Days \cup {NoPath}, started : BOOLEAN]
    OBVIOUS
  <2>7. recorded \in [ok : Nat, failed : Nat]
    OBVIOUS
  <2>. QED
    BY <2>1, <2>2, <2>3, <2>4, <2>5, <2>6, <2>7
       DEF TypeOK, ControlTypes, FileTypes, RemoteTypes, ReportTypes
<1>2. ResultInv /\ PathInv /\ CountInv
  BY DEF ResultInv, PathInv, CountInv
<1>3. FileInv /\ LocalInv
  BY DEF FileInv, LocalInv, OnlyChosenFormLeaves, LocalUploadAllOrNothing
<1>4. TempInv /\ HookInv
  BY DEF TempInv, HookInv, BeforeHook
<1>5. NoticeInv
  BY DEF NoticeInv, Kinds
<1>. QED
  BY <1>1, <1>2, <1>3, <1>4, <1>5 DEF BackupRunInv

\* Every step keeps the inductive invariant (scheduler.go:321-505).
LEMMA InvStep == BackupRunInv /\ [Next]_vars => BackupRunInv'
<1> SUFFICES ASSUME BackupRunInv, [Next]_vars
             PROVE  BackupRunInv'
  OBVIOUS
<1>1. CASE RunStep
  BY <1>1, TypeRunStep, ResultRunStep, PathRunStep, FileRunStep, LocalRunStep, CountRunStep,
     TempRunStep, HookRunStep, NoticeRunStep DEF BackupRunInv
<1>2. CASE Cancel \/ Midnight \/ Crash \/ UNCHANGED vars
  BY <1>2, AroundTheRun
<1>. QED
  BY <1>1, <1>2 DEF Next, Ended

\* At every state of every run the inductive invariant holds (scheduler.go:321-505).
THEOREM BackupRunInvariant == Spec => []BackupRunInv
BY InvInit, InvStep, PTL DEF Spec

------------------------------------------------------------------------------
(* The properties. *)

\* Nothing but the chosen form of the backup gets to the destination, not even in part
\* (scheduler.go:418-439, 454).
THEOREM NothingElseLeaves == Spec => []OnlyChosenFormLeaves
<1>1. BackupRunInv => OnlyChosenFormLeaves
  BY DEF BackupRunInv, FileInv
<1>. QED
  BY <1>1, BackupRunInvariant, PTL

\* A success is recorded only of a whole copy at the reported path, a run is recorded once,
\* and earlier backups are removed only after such a copy (scheduler.go:455-495, 281-288).
THEOREM RecordedRunsAreStored == Spec => []RecordedIsStored
<1>1. BackupRunInv => RecordedIsStored
  BY BackupRunAssumption, Lookups
     DEF BackupRunAssumption, BackupRunInv, CountInv, PathInv, ResultInv, RecordedIsStored,
         BeforeUpload, Notifying, NoPath, Days,
         TypeOK, ControlTypes, FileTypes, RemoteTypes, ReportTypes
<1>. QED
  BY <1>1, BackupRunInvariant, PTL

\* A run that returns leaves no temporary file but one whose path was never returned to it
\* (scheduler.go:371-382, 405, 435, age.go:46-49).
THEOREM ReturnedRunsCleanUp == Spec => []TempFilesRemoved
<1>1. BackupRunInv => TempFilesRemoved
  BY DEF BackupRunInv, TempInv, TempFilesRemoved, Deferred
<1>. QED
  BY <1>1, BackupRunInvariant, PTL

\* Between its attempts and after it, a local upload has left the one whole copy it reports,
\* and partial ones only where os.Remove failed (local.go:68-77, path.go:46).
THEOREM LocalUploadsAreWhole == Spec => []LocalUploadAllOrNothing
<1>1. BackupRunInv => LocalUploadAllOrNothing
  BY DEF BackupRunInv, LocalInv
<1>. QED
  BY <1>1, BackupRunInvariant, PTL

\* Each way out of runBackup calls the post-hook once, with the result
\* (scheduler.go:351-461, 486).
THEOREM PostHookCalledOnce == Spec => []PostHookOnce
<1>1. BackupRunInv => PostHookOnce
  BY Lookups
     DEF BackupRunInv, HookInv, BeforeHook, ResultInv, PostHookOnce, BeforeUpload, Notifying
<1>. QED
  BY <1>1, BackupRunInvariant, PTL

\* What the user is told is how the run ended, at most once per attempt
\* (scheduler.go:289, 489, 581-586, retry.go:34).
THEOREM NoticesTellTheEnd == Spec => []NoticesAreTrue
<1>1. BackupRunInv => NoticesAreTrue
  BY SMTT(20), ZenonT(40), BackupRunAssumption, Lookups
     DEF BackupRunAssumption, BackupRunInv,
         TypeOK, ControlTypes, FileTypes, RemoteTypes, ReportTypes,
         NoticeInv, BeforeNotice, PathInv,
            ResultInv, NoticesAreTrue,
         BeforeUpload, Notifying, Kinds, NoPath, Days
<1>. QED
  BY <1>1, BackupRunInvariant, PTL

==============================================================================
