-------------------------- MODULE BackupStoreProofs ---------------------------
(***************************************************************************)
(* Proofs about BackupStore for every set of backups, every retention      *)
(* policy, every length of the day, every shift of local time and any      *)
(* number of runs.                                                         *)
(***************************************************************************)
EXTENDS BackupStore, IntegerLemmas, FiniteSetTheorems

------------------------------------------------------------------------------
(* What the typing invariant says. *)

\* The numbers of the clock, the configuration and the runs.
LEMMA Numbers ==
  ASSUME TypeOK
  PROVE  /\ clock \in Nat /\ back \in Nat /\ back <= Shift
         /\ Shift \in Nat \ {0} /\ DayLen \in Nat \ {0}
         /\ LocalTime \in Nat
         /\ \A n \in Names :
              /\ cfg[n].days \in Nat /\ cfg[n].keepLast \in Nat
              /\ current[n].run \in Nat /\ current[n].stamp \in Nat /\ current[n].day \in Nat
              /\ runs[n] \in Nat /\ done[n] \in Nat
<1> USE BackupStoreAssumption DEF BackupStoreAssumption, TypeOK
<1>1. clock \in Nat /\ back \in Nat /\ back <= Shift /\ Shift \in Nat \ {0} /\ DayLen \in Nat \ {0}
  OBVIOUS
<1>2. LocalTime \in Nat
  BY <1>1 DEF LocalTime
<1>3. ASSUME NEW n \in Names
      PROVE  /\ cfg[n].days \in Nat /\ cfg[n].keepLast \in Nat
             /\ current[n].run \in Nat /\ current[n].stamp \in Nat /\ current[n].day \in Nat
             /\ runs[n] \in Nat /\ done[n] \in Nat
  <2>1. cfg[n] \in [days : Nat, keepLast : Nat]
    OBVIOUS
  <2>2. current[n] \in [run : Nat, stamp : Nat, day : Nat]
    OBVIOUS
  <2>. QED
    BY <2>1, <2>2
<1>. QED
  BY <1>1, <1>2, <1>3

\* The numbers of a file.
LEMMA FileParts ==
  ASSUME NEW f \in File
  PROVE  /\ f.name \in Names /\ f.run \in Nat \ {0} /\ f.day \in Nat
         /\ f.stamp \in Nat /\ f.mtime \in Nat
BY DEF File

\* The day of a time, which later times are not before.
LEMMA Days ==
  ASSUME TypeOK, NEW t \in Nat, NEW u \in Nat, t <= u
  PROVE  Day(t) \in Nat /\ Day(u) \in Nat /\ Day(t) <= Day(u)
BY Numbers, DivMonotone DEF Day

------------------------------------------------------------------------------
(* What the steps do. *)

\* The file an upload creates (local.go:53-66).
LEMMA CreatedFile ==
  ASSUME TypeOK, NEW n \in Names, stage[n] = "dumped", current[n].run # 0
  PROVE  [name |-> n, run |-> current[n].run, day |-> Day(LocalTime),
          stamp |-> current[n].stamp, mtime |-> clock, whole |-> FALSE] \in File
<1>1. Day(LocalTime) \in Nat
  BY Numbers, Days
<1>2. current[n].run \in Nat \ {0} /\ current[n].stamp \in Nat /\ clock \in Nat
  BY Numbers
<1>. QED
  BY <1>1, <1>2 DEF File

\* ... and what becomes of it when it is complete (local.go:68-77).
LEMMA CompletedFile ==
  ASSUME TypeOK, NEW f \in File
  PROVE  LET g == [f EXCEPT !.mtime = clock, !.whole = TRUE]
         IN  /\ g \in File
             /\ g.name = f.name /\ g.run = f.run /\ g.day = f.day /\ g.stamp = f.stamp
             /\ g.mtime = clock /\ g.whole
<1>1. clock \in Nat
  BY Numbers
<1>. QED
  BY <1>1 DEF File

\* The restore command changes nothing but what it knows (restorer.go:63-137).
LEMMA RestoreReads ==
  ASSUME RestoreStep
  PROVE  UNCHANGED <<cfg, timeVars, files, runVars>>
BY DEF RestoreStep, SelectLatest, SelectTimestamp, OpenSource, SourceMissing, Apply,
       RestoreFails, EndRestore

\* The restore command knows what it should at each of its stages.
LEMMA RestoreTypes ==
  ASSUME TypeOK, RestoreStep
  PROVE  restore' \in Restores
<1>1. CASE \E n \in Names : SelectLatest(n) \/ SelectTimestamp(n)
  <2>0. PICK n \in Names : SelectLatest(n) \/ SelectTimestamp(n)
    BY <1>1
  <2>1. PICK f \in Listed(n), b \in BOOLEAN : Select(n, f, b)
    BY <2>0 DEF SelectLatest, SelectTimestamp
  <2>2. f \in File /\ done[n] \in Nat /\ (\E g \in Listed(n) : g.run > f.run) \in BOOLEAN
    BY <2>1 DEF TypeOK, Listed, Scope
  <2>3. restore' \in [stage : {"selected", "vanished", "opened"}, name : Names, target : File,
                      latest : BOOLEAN, overtaken : BOOLEAN, reported : Nat]
    BY <2>1, <2>2 DEF Select
  <2>. QED
    BY <2>3 DEF Restores
<1>2. CASE OpenSource \/ SourceMissing
  <2>1. restore \in [stage : {"selected", "vanished", "opened"}, name : Names, target : File,
                     latest : BOOLEAN, overtaken : BOOLEAN, reported : Nat]
    BY <1>2 DEF OpenSource, SourceMissing, TypeOK, Restores
  <2>2. \A f \in AtTarget : f \in File
    BY DEF AtTarget, TypeOK
  <2>3. \/ restore' = [restore EXCEPT !.stage = "vanished", !.overtaken = FALSE]
        \/ \E f \in File :
             restore' = [restore EXCEPT !.stage = "opened", !.target = f, !.overtaken = FALSE]
    BY <1>2, <2>2 DEF OpenSource, SourceMissing
  <2>4. restore' \in [stage : {"selected", "vanished", "opened"}, name : Names, target : File,
                      latest : BOOLEAN, overtaken : BOOLEAN, reported : Nat]
    BY <2>1, <2>3
  <2>. QED
    BY <2>4 DEF Restores
<1>3. CASE Apply
  <2>1. restore \in [stage : {"selected", "vanished", "opened"}, name : Names, target : File,
                     latest : BOOLEAN, overtaken : BOOLEAN, reported : Nat]
    BY <1>3 DEF Apply, TypeOK, Restores
  <2>2. restore.target.whole \in BOOLEAN /\ restore.target.run \in Nat
    BY <2>1 DEF File
  <2>3. ReadWhole \in BOOLEAN
    BY <2>2 DEF ReadWhole
  <2>4. PICK w \in BOOLEAN :
               restore' = [stage |-> "restored", run |-> restore.target.run, whole |-> w,
                           latest |-> restore.latest, reported |-> restore.reported]
    BY <1>3, <2>2, <2>3 DEF Apply
  <2>5. restore' \in [stage : {"restored"}, run : Nat, whole : BOOLEAN, latest : BOOLEAN,
                      reported : Nat]
    BY <2>1, <2>2, <2>4
  <2>. QED
    BY <2>5 DEF Restores
<1>4. CASE RestoreFails \/ EndRestore
  BY <1>4 DEF RestoreFails, EndRestore, NoRestore, Restores
<1>. QED
  BY <1>1, <1>2, <1>3, <1>4 DEF RestoreStep

\* Every step keeps the types of the variables.
LEMMA TypeStep ==
  ASSUME TypeOK, \A n \in Names : RunInv(n), [Next]_vars
  PROVE  TypeOK'
<1> USE BackupStoreAssumption DEF BackupStoreAssumption, TypeOK, timeVars, runVars
<1>1. CASE Tick
  BY <1>1 DEF Tick
<1>2. CASE SetBack
  BY <1>2 DEF SetBack
<1>3. CASE Crash
  <2>1. NoRun \in [run : Nat, stamp : Nat, day : Nat]
    BY DEF NoRun
  <2>. QED
    BY <1>3, <2>1 DEF Crash
<1>4. ASSUME NEW n \in Names, RunStep(n)
      PROVE  TypeOK'
  <2>0. NoRun \in [run : Nat, stamp : Nat, day : Nat]
    BY DEF NoRun
  <2>1. CASE StartRun(n)
    <3>1. [run |-> runs[n] + 1, stamp |-> LocalTime, day |-> 0] \in [run : Nat, stamp : Nat, day : Nat]
      BY Numbers
    <3>2. runs[n] + 1 \in Nat
      OBVIOUS
    <3>. QED
      BY <2>1, <3>1, <3>2 DEF StartRun
  <2>2. CASE OpenDest(n)
    <3>1. files' \subseteq File
      BY <2>2, CreatedFile DEF OpenDest, RunInv
    <3>2. Day(LocalTime) \in Nat
      BY Numbers, Days
    <3>3. current' \in [Names -> [run : Nat, stamp : Nat, day : Nat]]
      <4>1. current' = [current EXCEPT ![n].day = Day(LocalTime)]
        BY <2>2 DEF OpenDest
      <4>2. current \in [Names -> [run : Nat, stamp : Nat, day : Nat]]
        BY DEF TypeOK
      <4>. QED
        BY <3>2, <4>1, <4>2
    <3>. QED
      BY <2>2, <3>1, <3>3 DEF OpenDest
  <2>3. CASE CopyDone(n)
    <3>1. files' \subseteq File
      <4>1. \A f \in Own(n) : [f EXCEPT !.mtime = clock, !.whole = TRUE] \in File
        BY CompletedFile DEF Own
      <4>2. files' = (files \ Own(n)) \cup
                       {[f EXCEPT !.mtime = clock, !.whole = TRUE] : f \in Own(n)}
        BY <2>3 DEF CopyDone
      <4>. QED
        BY <4>1, <4>2
    <3>2. current[n].run \in Nat
      BY Numbers
    <3>. QED
      BY <2>3, <3>1, <3>2 DEF CopyDone
  <2>4. CASE CopyFails(n) \/ GiveUp(n)
    <3>1. files' \subseteq File
      BY <2>4 DEF CopyFails, GiveUp
    <3>2. current' \in [Names -> [run : Nat, stamp : Nat, day : Nat]]
      <4>1. current' = current \/ current' = [current EXCEPT ![n] = NoRun]
        BY <2>4 DEF CopyFails, GiveUp
      <4>2. current \in [Names -> [run : Nat, stamp : Nat, day : Nat]]
        BY DEF TypeOK
      <4>. QED
        BY <2>0, <4>1, <4>2
    <3>. QED
      BY <2>4, <3>1, <3>2 DEF CopyFails, GiveUp
  <2>5. CASE Collect(n)
    <3>1. PICK found \in SUBSET Scope(n) :
                 /\ \E doom \in SUBSET found : doomed' = [doomed EXCEPT ![n] = doom]
                 /\ failed' = [failed EXCEPT ![n] = Scope(n) \ found]
      BY <2>5 DEF Collect
    <3>2. found \in SUBSET File /\ Scope(n) \ found \in SUBSET File
      BY <3>1 DEF Scope
    <3>3. (doomed \in [Names -> SUBSET File])' /\ (failed \in [Names -> SUBSET File])'
      BY <3>1, <3>2
    <3>. QED
      BY <2>5, <3>3 DEF Collect
  <2>6. CASE NoPolicy(n)
    BY <2>0, <2>6 DEF NoPolicy
  <2>7. CASE RemoveFile(n)
    BY <2>7 DEF RemoveFile
  <2>8. CASE RemoveFails(n)
    <3>1. PICK f \in NextDoomed(n) :
                 /\ doomed' = [doomed EXCEPT ![n] = @ \ {f}]
                 /\ failed' = [failed EXCEPT ![n] = @ \cup {f}]
      BY <2>8 DEF RemoveFails
    <3>2. f \in File
      BY DEF NextDoomed
    <3>3. (doomed \in [Names -> SUBSET File])' /\ (failed \in [Names -> SUBSET File])'
      BY <3>1, <3>2
    <3>. QED
      BY <2>8, <3>3 DEF RemoveFails
  <2>9. CASE EndCleanup(n)
    BY <2>0, <2>9 DEF EndCleanup
  <2>. QED
    BY <1>4, <2>1, <2>2, <2>3, <2>4, <2>5, <2>6, <2>7, <2>8, <2>9 DEF RunStep
<1>5. CASE RestoreStep
  BY <1>5, RestoreReads, RestoreTypes
<1>6. CASE UNCHANGED vars
  BY <1>6 DEF vars
<1>. QED
  BY <1>1, <1>2, <1>3, <1>4, <1>5, <1>6 DEF Next

------------------------------------------------------------------------------
(* What the steps of a run do to the directory. *)

\* Runs of other names, and their files, do not matter to a run.
LEMMA Frame ==
  ASSUME TypeOK, NEW n \in Names, PruneInv(n), RunStep(n)
  PROVE  /\ UNCHANGED <<cfg, clock, back, backAt, restore>>
         /\ \A m \in Names \ {n} :
              /\ stage'[m] = stage[m] /\ current'[m] = current[m] /\ doomed'[m] = doomed[m]
              /\ failed'[m] = failed[m] /\ runs'[m] = runs[m] /\ done'[m] = done[m]
         /\ \A f : f.name # n => (f \in files' <=> f \in files)
<1> USE DEF TypeOK, timeVars, runVars
<1>1. UNCHANGED <<cfg, clock, back, backAt, restore>>
  BY DEF RunStep, StartRun, OpenDest, CopyDone, CopyFails, GiveUp, Collect, NoPolicy, RemoveFile,
         RemoveFails, EndCleanup
<1>2. ASSUME NEW m \in Names \ {n}
      PROVE  /\ stage'[m] = stage[m] /\ current'[m] = current[m] /\ doomed'[m] = doomed[m]
             /\ failed'[m] = failed[m] /\ runs'[m] = runs[m] /\ done'[m] = done[m]
  BY DEF RunStep, StartRun, OpenDest, CopyDone, CopyFails, GiveUp, Collect, NoPolicy, RemoveFile,
         RemoveFails, EndCleanup
<1>3. ASSUME NEW f, f.name # n
      PROVE  f \in files' <=> f \in files
  <2>1. CASE OpenDest(n)
    BY <1>3, <2>1 DEF OpenDest, SamePath
  <2>2. CASE CopyDone(n)
    <3>1. \A g \in Own(n) : [g EXCEPT !.mtime = clock, !.whole = TRUE].name = n
      BY CompletedFile DEF Own
    <3>2. f \notin Own(n)
      BY <1>3 DEF Own
    <3>. QED
      BY <1>3, <2>2, <3>1, <3>2 DEF CopyDone
  <2>3. CASE CopyFails(n)
    BY <1>3, <2>3 DEF CopyFails, Own
  <2>4. CASE RemoveFile(n)
    <3>1. PICK g \in NextDoomed(n) : files' = {h \in files : ~SamePath(g, h)}
      BY <2>4 DEF RemoveFile
    <3>2. g.name = n
      BY <3>1, <2>4 DEF NextDoomed, RemoveFile, PruneInv, Scope
    <3>. QED
      BY <1>3, <3>1, <3>2 DEF SamePath
  <2>5. CASE files' = files
    BY <2>5
  <2>. QED
    BY <2>1, <2>2, <2>3, <2>4, <2>5
       DEF RunStep, StartRun, GiveUp, Collect, NoPolicy, RemoveFails, EndCleanup
<1>. QED
  BY <1>1, <1>2, <1>3

\* The upload creates a file at the path of its run and the day, in place of what is there.
LEMMA Created ==
  ASSUME TypeOK, NEW n \in Names, RunInv(n), OpenDest(n)
  PROVE  \E g \in File :
           /\ files' = {f \in files : ~SamePath(f, g)} \cup {g}
           /\ g.name = n /\ g.run = runs[n] /\ g.mtime = clock /\ ~g.whole
           /\ g.day = Day(LocalTime) /\ g.stamp = current[n].stamp
           /\ current'[n].run = runs[n] /\ current'[n].stamp = current[n].stamp
           /\ current'[n].day = g.day
<1> DEFINE g == [name |-> n, run |-> current[n].run, day |-> Day(LocalTime),
                 stamp |-> current[n].stamp, mtime |-> clock, whole |-> FALSE]
<1>1. stage[n] = "dumped" /\ files' = {f \in files : ~SamePath(f, g)} \cup {g}
  BY DEF OpenDest
<1>2. current[n].run = runs[n] /\ runs[n] # 0
  BY <1>1 DEF RunInv
<1>3. g \in File
  BY <1>1, <1>2, CreatedFile
<1>4. current'[n] = [current[n] EXCEPT !.day = Day(LocalTime)]
      /\ current[n] \in [run : Nat, stamp : Nat, day : Nat]
  BY DEF OpenDest, TypeOK
<1>5. /\ current'[n].run = current[n].run /\ current'[n].stamp = current[n].stamp
      /\ current'[n].day = Day(LocalTime)
  BY <1>4
<1>6. /\ g.name = n /\ g.run = current[n].run /\ g.mtime = clock /\ ~g.whole
      /\ g.day = Day(LocalTime) /\ g.stamp = current[n].stamp
  OBVIOUS
<1> HIDE DEF g
<1>. QED
  BY <1>1, <1>2, <1>3, <1>5, <1>6

\* It completes the file it has opened.
LEMMA Completed ==
  ASSUME TypeOK, FilesInv, NEW n \in Names, RunInv(n), CopyDone(n)
  PROVE  \E f \in files, g \in File :
           /\ Own(n) = {f}
           /\ files' = (files \ {f}) \cup {g}
           /\ f.name = n /\ f.run = runs[n] /\ f.day = current[n].day /\ ~f.whole
           /\ g.name = n /\ g.run = runs[n] /\ g.mtime = clock /\ g.whole
           /\ g.day = f.day /\ g.stamp = f.stamp
<1>1. stage[n] = "copying" /\ Own(n) # {} /\ current[n].run = runs[n] /\ done[n] < runs[n]
  BY DEF CopyDone, RunInv
<1>2. PICK f \in files : f.name = n /\ f.run = runs[n] /\ f.day = current[n].day
  BY <1>1 DEF Own
<1>3. Own(n) = {f}
  BY <1>1, <1>2 DEF Own, FilesInv, SamePath
<1>4. ~f.whole
  BY <1>1, <1>2, Numbers DEF FilesInv
<1>5. f \in File
  BY DEF TypeOK
<1> DEFINE g == [f EXCEPT !.mtime = clock, !.whole = TRUE]
<1>6. files' = (files \ {f}) \cup {g}
  BY <1>3 DEF CopyDone
<1>7. /\ g \in File
      /\ g.name = f.name /\ g.run = f.run /\ g.day = f.day /\ g.stamp = f.stamp
      /\ g.mtime = clock /\ g.whole
  BY <1>5, CompletedFile
<1> HIDE DEF g
<1>. QED
  BY <1>2, <1>3, <1>4, <1>6, <1>7

\* Retention removes one of the files it has collected and no other.
LEMMA Removed ==
  ASSUME TypeOK, FilesInv, NEW n \in Names, PruneInv(n), RemoveFile(n)
  PROVE  \E f \in files : 
           /\ f \in doomed[n] /\ f.name = n
           /\ files' = files \ {f}
           /\ doomed' = [doomed EXCEPT ![n] = @ \ {f}]
<1>1. PICK f \in NextDoomed(n) : /\ files' = {g \in files : ~SamePath(f, g)}
                                 /\ doomed' = [doomed EXCEPT ![n] = @ \ {f}]
  BY DEF RemoveFile
<1>2. f \in doomed[n] /\ f \in files /\ f.name = n
  BY <1>1 DEF NextDoomed, PruneInv, Scope, RemoveFile
<1>3. \A g \in files : SamePath(f, g) <=> g = f
  BY <1>2 DEF FilesInv, SamePath
<1>4. files' = files \ {f}
  BY <1>1, <1>3
<1>. QED
  BY <1>1, <1>2, <1>4

------------------------------------------------------------------------------
(* The inductive invariant: one lemma for each of its parts. *)

\* A file's numbers, and those of its name.
LEMMA StoredNumbers ==
  ASSUME TypeOK, NEW f \in files
  PROVE  /\ f \in File /\ f.name \in Names /\ f.run \in Nat \ {0} /\ f.day \in Nat
         /\ f.stamp \in Nat /\ f.mtime \in Nat
         /\ runs[f.name] \in Nat /\ done[f.name] \in Nat
<1>1. f \in File
  BY DEF TypeOK
<1>. QED
  BY <1>1, FileParts, Numbers

\* Steps that leave the directory and what is known of its files.
LEMMA FilesKept ==
  ASSUME TypeOK, FilesInv, files' \subseteq files,
         clock' = clock \/ clock' = clock + 1,
         \A n \in Names : /\ runs'[n] = runs[n] \/ runs'[n] = runs[n] + 1
                          /\ done'[n] = done[n]
  PROVE  FilesInv'
<1>1. IsFiniteSet(files')
  BY FS_Subset DEF FilesInv
<1>2. ASSUME NEW f \in files'
      PROVE  /\ f.run <= runs'[f.name] /\ f.mtime <= clock'
             /\ f.whole => f.run <= done'[f.name]
  BY <1>2, StoredNumbers, Numbers DEF FilesInv
<1>. QED
  BY <1>1, <1>2 DEF FilesInv

\* There stay one file at each path, one whole file of each run, and files in the order of
\* their runs
\* (local.go:53-77, retention.go:85-113).
LEMMA FilesStep ==
  ASSUME TypeOK, FilesInv, \A n \in Names : RunInv(n) /\ PruneInv(n), [Next]_vars
  PROVE  FilesInv'
<1>1. CASE Tick \/ SetBack \/ Crash \/ RestoreStep \/ UNCHANGED vars
  <2>1. files' = files /\ UNCHANGED <<runs, done>> /\ (clock' = clock \/ clock' = clock + 1)
    BY <1>1, RestoreReads DEF Tick, SetBack, Crash, vars, timeVars, runVars
  <2>. QED
    BY <2>1, FilesKept
<1>2. ASSUME NEW n \in Names, RunStep(n)
      PROVE  FilesInv'
  <2>0. clock' = clock
    BY <1>2, Frame
  <2>1. CASE OpenDest(n)
    <3>1. PICK g \in File : /\ files' = {f \in files : ~SamePath(f, g)} \cup {g}
                            /\ g.name = n /\ g.run = runs[n] /\ g.mtime = clock /\ ~g.whole
      BY <2>1, Created
    <3>2. /\ UNCHANGED <<runs, done>> /\ done[n] < runs[n]
          /\ \A f \in files : f.name = n => f.mtime < clock
      BY <2>1 DEF OpenDest, RunInv, Scope
    <3> DEFINE others == {f \in files : ~SamePath(f, g)}
    <3>3. /\ others \in SUBSET files /\ files' = others \cup {g}
          /\ \A f \in others : ~SamePath(f, g)
      BY <3>1
    <3> HIDE DEF others
    <3>4. IsFiniteSet(files')
      <4>1. IsFiniteSet(others)
        BY <3>3, FS_Subset DEF FilesInv
      <4>. QED
        BY <3>3, <4>1, FS_AddElement
    <3>5. runs[n] \in Nat /\ done[n] \in Nat /\ clock \in Nat
      BY Numbers
    <3>6. ASSUME NEW f \in files'
          PROVE  /\ f.run <= runs'[f.name] /\ f.mtime <= clock'
                 /\ f.whole => f.run <= done'[f.name]
      BY <2>0, <3>1, <3>2, <3>3, <3>5, <3>6 DEF FilesInv
    <3>7. ASSUME NEW f \in others, f.name = n
          PROVE  /\ f \in files /\ f.run \in Nat /\ f.run <= runs[n] /\ f.mtime \in Nat
                 /\ f.mtime < clock /\ (f.whole => f.run < runs[n])
      BY <3>2, <3>3, <3>5, <3>7, StoredNumbers DEF FilesInv
    <3>8. ASSUME NEW f \in files', NEW h \in files', f.name = h.name
          PROVE  /\ SamePath(f, h) => f = h
                 /\ f.run = h.run /\ h.whole => f = h \/ f.mtime < h.mtime
                 /\ f.run < h.run => f.mtime < h.mtime
      <4>1. CASE f = g /\ h = g
        BY <3>1, <3>5, <4>1
      <4>2. CASE f = g /\ h \in others
        <5>1. ~SamePath(f, h)
          BY <3>3, <4>2 DEF SamePath
        <5>. QED
          BY <3>1, <3>5, <3>7, <3>8, <4>2, <5>1
      <4>3. CASE f \in others /\ h = g
        BY <3>1, <3>3, <3>5, <3>7, <3>8, <4>3
      <4>4. CASE f \in files /\ h \in files
        BY <3>8, <4>4 DEF FilesInv
      <4>. QED
        BY <3>3, <3>8, <4>1, <4>2, <4>3, <4>4
    <3>. QED
      BY <3>4, <3>6, <3>8 DEF FilesInv
  <2>2. CASE CopyDone(n)
    <3>1. PICK o \in files, g \in File :
                 /\ Own(n) = {o}
                 /\ files' = (files \ {o}) \cup {g}
                 /\ o.name = n /\ o.run = runs[n] /\ ~o.whole
                 /\ g.name = n /\ g.run = runs[n] /\ g.mtime = clock /\ g.day = o.day
      BY <2>2, Completed
    <3>2. /\ current[n].run = runs[n] /\ UNCHANGED runs /\ done[n] < runs[n]
          /\ done' = [done EXCEPT ![n] = runs[n]] /\ done \in [Names -> Nat]
      BY <2>2 DEF CopyDone, RunInv, TypeOK
    <3>3. ASSUME NEW f \in files \ {o}, f.name = n
          PROVE  /\ f.run \in Nat /\ f.run <= runs[n] /\ f.mtime \in Nat /\ f.mtime < clock
                 /\ (f.whole => f.run < runs[n]) /\ ~SamePath(f, g) /\ ~SamePath(g, f)
      <4>1. f.mtime < clock
        BY <2>2, <3>1, <3>2, <3>3 DEF CopyDone, RunInv, Scope
      <4>2. ~SamePath(f, o)
        BY <3>1, <3>3 DEF FilesInv
      <4>3. ~SamePath(f, g) /\ ~SamePath(g, f)
        BY <3>1, <4>2 DEF SamePath
      <4>4. f.run \in Nat /\ f.mtime \in Nat /\ runs[n] \in Nat /\ done[n] \in Nat
        BY Numbers, StoredNumbers
      <4>5. f.run <= runs[n] /\ (f.whole => f.run <= done[n])
        BY <3>3 DEF FilesInv
      <4>6. f.whole => f.run < runs[n]
        BY <3>2, <4>4, <4>5
      <4>. QED
        BY <4>1, <4>3, <4>4, <4>5, <4>6
    <3>4. IsFiniteSet(files')
      BY <3>1, FS_RemoveElement, FS_AddElement DEF FilesInv
    <3>5. runs[n] \in Nat /\ done[n] \in Nat /\ clock \in Nat
      BY Numbers
    <3>6. ASSUME NEW f \in files'
          PROVE  /\ f.run <= runs'[f.name] /\ f.mtime <= clock'
                 /\ f.whole => f.run <= done'[f.name]
      <4>1. CASE f = g
        BY <2>0, <3>1, <3>2, <3>5, <4>1
      <4>2. CASE f \in files \ {o} /\ f.name = n
        BY <2>0, <3>2, <3>3, <3>5, <4>2
      <4>3. CASE f \in files \ {o} /\ f.name # n
        <5>1. f.name \in Names
          BY <4>3, StoredNumbers
        <5>. QED
          BY <2>0, <3>2, <4>3, <5>1 DEF FilesInv
      <4>. QED
        BY <3>1, <3>6, <4>1, <4>2, <4>3
    <3>7. ASSUME NEW f \in files', NEW h \in files', f.name = h.name
          PROVE  /\ SamePath(f, h) => f = h
                 /\ f.run = h.run /\ h.whole => f = h \/ f.mtime < h.mtime
                 /\ f.run < h.run => f.mtime < h.mtime
      <4>1. CASE f = g /\ h = g
        BY <3>1, <3>5, <4>1
      <4>2. CASE f = g /\ h \in files \ {o}
        BY <3>1, <3>3, <3>5, <3>7, <4>2
      <4>3. CASE f \in files \ {o} /\ h = g
        BY <3>1, <3>3, <3>5, <3>7, <4>3
      <4>4. CASE f \in files /\ h \in files
        BY <3>7, <4>4 DEF FilesInv
      <4>. QED
        BY <3>1, <3>7, <4>1, <4>2, <4>3, <4>4
    <3>. QED
      BY <3>4, <3>6, <3>7 DEF FilesInv
  <2>3. CASE files' \subseteq files /\ UNCHANGED done
    <3>1. \A m \in Names : runs'[m] = runs[m] \/ runs'[m] = runs[m] + 1
      BY <1>2 DEF RunStep, StartRun, OpenDest, CopyDone, CopyFails, GiveUp, Collect, NoPolicy,
         RemoveFile, RemoveFails, EndCleanup, TypeOK
    <3>. QED
      BY <2>0, <2>3, <3>1, FilesKept
  <2>. QED
    BY <1>2, <2>1, <2>2, <2>3 DEF RunStep, StartRun, CopyFails, GiveUp, Collect, NoPolicy,
       RemoveFile, RemoveFails, EndCleanup
<1>. QED
  BY <1>1, <1>2 DEF Next

\* A run is where it says it is: steps of its own (scheduler.go:391-505).
LEMMA RunStepOwn ==
  ASSUME TypeOK, FilesInv, NEW n \in Names, RunInv(n), PruneInv(n), RunStep(n)
  PROVE  RunInv(n)'
<1> USE DEF RunInv
<1>0. /\ clock' = clock /\ clock \in Nat /\ runs[n] \in Nat /\ done[n] \in Nat
      /\ DayLen \in Nat \ {0}
  BY Frame, Numbers
<1>1. CASE StartRun(n)
  <2>1. /\ stage'[n] = "dumped" /\ runs'[n] = runs[n] + 1 /\ current'[n].run = runs[n] + 1
        /\ UNCHANGED <<done, doomed, failed>> /\ stage[n] = "idle"
    BY <1>1 DEF StartRun, TypeOK
  <2>. QED
    BY <1>0, <2>1
<1>2. CASE OpenDest(n)
  <2>1. PICK g \in File : /\ files' = {f \in files : ~SamePath(f, g)} \cup {g}
                          /\ g.name = n /\ g.run = runs[n]
                          /\ current'[n].run = runs[n] /\ current'[n].day = g.day
    BY <1>2, Created
  <2>2. /\ stage[n] = "dumped" /\ stage'[n] = "copying"
        /\ UNCHANGED <<runs, done, doomed, failed>>
        /\ \A f \in Scope(n) : f.mtime < clock
    BY <1>2 DEF OpenDest, TypeOK
  <2>3. g \in Own(n)'
    BY <2>1 DEF Own
  <2>4. Scope(n)' \ Own(n)' \subseteq Scope(n)
    BY <2>1, <2>3 DEF Scope
  <2>. QED
    BY <1>0, <2>1, <2>2, <2>3, <2>4
<1>3. CASE CopyDone(n)
  <2>1. PICK o \in files, g \in File :
               /\ Own(n) = {o}
               /\ files' = (files \ {o}) \cup {g}
               /\ o.day = current[n].day
               /\ g.name = n /\ g.run = runs[n] /\ g.mtime = clock /\ g.whole /\ g.day = o.day
    BY <1>3, Completed
  <2>2. /\ stage[n] = "copying" /\ stage'[n] = "stored" /\ current[n].run = runs[n]
        /\ done'[n] = runs[n] /\ UNCHANGED <<runs, current, doomed, failed>>
    BY <1>3 DEF CopyDone, TypeOK
  <2>3. Own(n)' = {g}
    BY <2>1, <2>2 DEF Own
  <2>4. clock - clock <= DayLen
    BY <1>0
  <2>. QED
    BY <1>0, <2>1, <2>2, <2>3, <2>4
<1>4. CASE CopyFails(n) \/ GiveUp(n)
  <2>1. stage[n] \in {"dumped", "copying"} /\ UNCHANGED <<runs, done, doomed, failed>>
    BY <1>4 DEF CopyFails, GiveUp
  <2>2. CASE stage'[n] = "idle"
    BY <1>0, <2>1, <2>2
  <2>3. CASE stage'[n] = "dumped" /\ current' = current
    BY <1>0, <2>1, <2>3
  <2>. QED
    BY <1>4, <2>2, <2>3 DEF CopyFails, GiveUp, TypeOK
<1>5. CASE Collect(n)
  <2>1. /\ stage[n] = "stored" /\ stage'[n] = "pruning"
        /\ UNCHANGED <<files, runs, current, done>>
    BY <1>5 DEF Collect, TypeOK
  <2>2. Own(n)' = Own(n)
    BY <2>1 DEF Own
  <2>. QED
    BY <2>1, <2>2
<1>6. CASE NoPolicy(n)
  <2>1. /\ stage[n] = "stored" /\ stage'[n] = "idle"
        /\ UNCHANGED <<runs, done, doomed, failed>>
    BY <1>6 DEF NoPolicy, TypeOK
  <2>. QED
    BY <1>0, <2>1
<1>7. CASE RemoveFile(n) \/ RemoveFails(n)
  <2>1. /\ stage[n] = "pruning" /\ stage'[n] = "pruning"
        /\ UNCHANGED <<runs, current, done>>
    BY <1>7 DEF RemoveFile, RemoveFails
  <2>2. Own(n) \subseteq Own(n)'
    <3>1. CASE RemoveFile(n)
      <4>1. PICK f \in files : f \in doomed[n] /\ files' = files \ {f}
        BY <3>1, Removed
      <4>2. f \notin Own(n)
        BY <2>1, <4>1 DEF PruneInv
      <4>. QED
        BY <2>1, <4>1, <4>2 DEF Own
    <3>2. CASE RemoveFails(n)
      BY <2>1, <3>2 DEF RemoveFails, Own
    <3>. QED
      BY <1>7, <3>1, <3>2
  <2>. QED
    BY <2>1, <2>2
<1>8. CASE EndCleanup(n)
  <2>1. /\ stage'[n] = "idle" /\ doomed'[n] = {} /\ failed'[n] = {}
        /\ UNCHANGED <<runs, done>>
    BY <1>8 DEF EndCleanup, TypeOK
  <2>. QED
    BY <1>0, <2>1
<1>. QED
  BY <1>1, <1>2, <1>3, <1>4, <1>5, <1>6, <1>7, <1>8 DEF RunStep

\* ... of others, of the clock, of the restore command, and crashes.
LEMMA RunInvStep ==
  ASSUME TypeOK, FilesInv, \A n \in Names : RunInv(n) /\ PruneInv(n), [Next]_vars,
         NEW m \in Names
  PROVE  RunInv(m)'
<1>0. /\ clock \in Nat /\ runs[m] \in Nat /\ done[m] \in Nat /\ DayLen \in Nat \ {0}
  BY Numbers
<1>1. CASE Tick
  <2>1. /\ UNCHANGED <<files, runVars>> /\ clock' = clock + 1
        /\ stage[m] = "stored" => \A f \in Own(m) : clock - f.mtime < DayLen
    BY <1>1 DEF Tick
  <2>2. /\ Own(m)' = Own(m) /\ Scope(m)' = Scope(m)
        /\ Own(m) \subseteq files /\ Scope(m) \subseteq files
    BY <2>1 DEF Own, Scope, runVars
  <2>3. \A f \in files : f.mtime \in Nat
    BY StoredNumbers
  <2>4. \A f \in files : f.mtime < clock => f.mtime < clock'
    BY <1>0, <2>1, <2>3
  <2>5. \A f \in files : clock - f.mtime < DayLen => clock' - f.mtime <= DayLen
    BY <1>0, <2>1, <2>3
  <2>. QED
    BY <2>1, <2>2, <2>4, <2>5 DEF RunInv, runVars
<1>2. CASE Crash
  <2>1. /\ stage'[m] = "idle" /\ doomed'[m] = {} /\ failed'[m] = {}
        /\ UNCHANGED <<runs, done>>
    BY <1>2 DEF Crash
  <2>. QED
    BY <1>0, <2>1 DEF RunInv
<1>3. ASSUME NEW n \in Names, RunStep(n)
      PROVE  RunInv(m)'
  <2>1. CASE m = n
    BY <1>3, <2>1, RunStepOwn
  <2>2. CASE m # n
    <3>1. /\ clock' = clock
          /\ stage'[m] = stage[m] /\ current'[m] = current[m] /\ doomed'[m] = doomed[m]
          /\ failed'[m] = failed[m] /\ runs'[m] = runs[m] /\ done'[m] = done[m]
          /\ \A f : f.name = m => (f \in files' <=> f \in files)
      BY <1>3, <2>2, Frame
    <3>2. Own(m)' = Own(m) /\ Scope(m)' = Scope(m)
      BY <3>1 DEF Own, Scope
    <3>. QED
      BY <3>1, <3>2 DEF RunInv
  <2>. QED
    BY <2>1, <2>2
<1>4. CASE SetBack \/ RestoreStep \/ UNCHANGED vars
  <2>1. UNCHANGED <<clock, files, runVars>>
    BY <1>4, RestoreReads DEF SetBack, vars, timeVars
  <2>2. Own(m)' = Own(m) /\ Scope(m)' = Scope(m)
    BY <2>1 DEF Own, Scope, runVars
  <2>. QED
    BY <2>1, <2>2 DEF RunInv, runVars
<1>. QED
  BY <1>1, <1>2, <1>3, <1>4 DEF Next

\* The file of the last successful run survives every step (retention.go:85-113).
LEMMA NewestStep ==
  ASSUME TypeOK, FilesInv, \A n \in Names : RunInv(n) /\ PruneInv(n), NewestSurvives,
         [Next]_vars
  PROVE  NewestSurvives'
<1>1. CASE Tick \/ SetBack \/ Crash \/ RestoreStep \/ UNCHANGED vars
  <2>1. UNCHANGED <<files, done>>
    BY <1>1, RestoreReads DEF Tick, SetBack, Crash, vars, timeVars, runVars
  <2>. QED
    BY <2>1 DEF NewestSurvives
<1>2. ASSUME NEW n \in Names, RunStep(n), NEW m \in Names, done'[m] # 0
      PROVE  \E f \in files' : f.name = m /\ f.run = done'[m] /\ f.whole
  <2>1. CASE m # n
    BY <1>2, <2>1, Frame DEF NewestSurvives
  <2>2. CASE m = n /\ CopyDone(n)
    <3>1. PICK g \in files' : g.name = n /\ g.run = runs[n] /\ g.whole
      BY <2>2, Completed
    <3>2. done'[n] = runs[n]
      BY <2>2 DEF CopyDone, RunInv, TypeOK
    <3>. QED
      BY <2>2, <3>1, <3>2
  <2>3. CASE m = n /\ ~CopyDone(n)
    <3>0. done' = done
      BY <1>2, <2>3 DEF RunStep, StartRun, OpenDest, CopyFails, GiveUp, Collect, NoPolicy, RemoveFile,
         RemoveFails, EndCleanup
    <3>1. PICK f \in files : f.name = n /\ f.run = done[n] /\ f.whole
      BY <1>2, <2>3, <3>0 DEF NewestSurvives
    <3>2. CASE CopyFails(n) \/ OpenDest(n)
      <4>1. f.run # current[n].run /\ f.run # runs[n]
        BY <3>1, <3>2, Numbers DEF CopyFails, OpenDest, RunInv
      <4>2. f \in files'
        <5>1. CASE CopyFails(n)
          BY <3>1, <4>1, <5>1 DEF CopyFails, Own
        <5>2. CASE OpenDest(n)
          BY <3>1, <4>1, <5>2, Created DEF SamePath
        <5>. QED
          BY <3>2, <5>1, <5>2
      <4>. QED
        BY <2>3, <3>0, <3>1, <4>2
    <3>3. CASE RemoveFile(n)
      <4>1. /\ stage[n] = "pruning" /\ done[n] = runs[n]
            /\ \E own \in Own(n) : own.whole
        BY <3>3 DEF RemoveFile, RunInv
      <4>2. PICK own \in Own(n) : own.whole /\ own \in files /\ own.name = n /\ own.run = done[n]
        BY <4>1 DEF Own, RunInv
      <4>3. own \notin doomed[n]
        BY <4>1, <4>2 DEF PruneInv
      <4>. QED
        BY <2>3, <3>0, <3>3, <4>2, <4>3, Removed
    <3>4. CASE files \subseteq files'
      BY <2>3, <3>0, <3>1, <3>4
    <3>. QED
      BY <1>2, <2>3, <3>2, <3>3, <3>4 DEF RunStep, StartRun, GiveUp, Collect, NoPolicy,
         RemoveFails, EndCleanup
  <2>. QED
    BY <2>1, <2>2, <2>3
<1>. QED
  BY <1>1, <1>2 DEF Next, NewestSurvives

\* The number of days of a policy, in ticks.
LEMMA AgeLimit ==
  ASSUME TypeOK, NEW n \in Names
  PROVE  /\ cfg[n].days * DayLen \in Nat
         /\ cfg[n].days > 0 => DayLen <= cfg[n].days * DayLen
<1>1. cfg[n].days \in Nat /\ DayLen \in Nat \ {0}
  BY Numbers
<1>2. PICK d \in Nat : d = cfg[n].days
  BY <1>1
<1>3. d * DayLen \in Nat
  BY <1>1
<1>4. d > 0 => DayLen <= DayLen * d
  BY <1>1, TimesAtLeast
<1>. QED
  BY <1>1, <1>2, <1>3, <1>4

\* What a retention with a policy collects: never the file of its own run, and no file
\* that either condition protects (retention.go:85-107).
LEMMA CollectStep ==
  ASSUME TypeOK, FilesInv, NEW n \in Names, RunInv(n), Collect(n)
  PROVE  PruneInv(n)'
<1>1. PICK found \in SUBSET Scope(n), cutoff \in Cutoffs(n), keep \in SUBSET Scope(n) :
             /\ keep \in Newest(found, cfg[n].keepLast)
             /\ doomed' = [doomed EXCEPT ![n] = found \ (keep \cup Young(n, found, cutoff))]
             /\ failed' = [failed EXCEPT ![n] = Scope(n) \ found]
  BY DEF Collect, Newest
<1>2. /\ stage[n] = "stored" /\ UNCHANGED <<cfg, clock, back, files, current, done>>
      /\ cfg[n].days > 0 \/ cfg[n].keepLast > 0
  BY DEF Collect, timeVars
<1>3. /\ doomed'[n] = found \ (keep \cup Young(n, found, cutoff))
      /\ failed'[n] = Scope(n) \ found
  BY <1>1 DEF TypeOK
<1>4. Scope(n)' = Scope(n) /\ Own(n)' = Own(n)
  BY <1>2 DEF Scope, Own
<1>5. PICK limit \in Nat : limit = cfg[n].days * DayLen
  BY AgeLimit
<1>6. /\ clock \in Nat /\ cfg[n].keepLast \in Nat /\ DayLen \in Nat /\ cfg[n].days \in Nat
      /\ cfg[n].days > 0 => DayLen <= limit
      /\ limit \in Nat /\ back \in Nat /\ Shift \in Nat /\ (back = 0 \/ back = Shift)
  BY <1>5, Numbers, AgeLimit DEF TypeOK
<1>7. cutoff \in Int /\ cutoff <= clock - limit /\ clock - limit - back <= cutoff
  <2>1. cutoff = clock - limit \/ (back # 0 /\ cutoff = clock - limit - Shift)
    BY <1>1, <1>5 DEF Cutoffs
  <2>2. limit \in Nat /\ clock \in Nat /\ Shift \in Nat /\ (back = 0 \/ back = Shift)
    BY <1>6
  <2>. QED
    BY <2>1, <2>2
<1>8. \A f \in Scope(n) : f \in files /\ f.mtime \in Nat /\ f.run \in Nat /\ f.mtime <= clock
                          /\ f.run <= runs[n] /\ f.name = n
  BY StoredNumbers DEF Scope, FilesInv
<1>9. /\ keep \subseteq found
      /\ Cardinality(keep) = (IF cfg[n].keepLast < Cardinality(found)
                                THEN cfg[n].keepLast ELSE Cardinality(found))
      /\ \A f \in keep, g \in found \ keep : g.mtime <= f.mtime
  BY <1>1 DEF Newest
<1>10. IsFiniteSet(found) /\ Cardinality(found) \in Nat
  <2>1. IsFiniteSet(Scope(n))
    BY FS_Subset DEF FilesInv, Scope
  <2>. QED
    BY <1>1, <2>1, FS_Subset, FS_CardinalityType
<1>11. IsFiniteSet(keep) /\ Cardinality(keep) \in Nat
  BY <1>9, <1>10, FS_Subset, FS_CardinalityType
<1>12. \A f \in found : f \in Young(n, found, cutoff) <=> cfg[n].days > 0 /\ f.mtime >= cutoff
  BY DEF Young
<1>13. PICK own \in Own(n) : /\ own.whole /\ own \in files /\ own \in Scope(n) /\ own.run = runs[n]
                             /\ clock - own.mtime <= DayLen
                             /\ \A f \in Own(n) : f = own
  <2>1. PICK own \in Own(n) : own.whole
    BY <1>2 DEF RunInv
  <2>2. own \in files /\ own \in Scope(n) /\ own.run = runs[n] /\ clock - own.mtime <= DayLen
    BY <1>2 DEF RunInv, Own, Scope
  <2>3. \A f \in Own(n) : f = own
    BY DEF Own, FilesInv, SamePath
  <2>. QED
    BY <2>1, <2>2, <2>3
<1>14. own \notin doomed'[n]
  <2> SUFFICES ASSUME own \in doomed'[n]
               PROVE  FALSE
    OBVIOUS
  <2>1. own \in found \ keep /\ own \notin Young(n, found, cutoff)
    BY <1>3
  <2>2. cfg[n].days = 0 /\ cfg[n].keepLast > 0
    BY <1>2, <1>5, <1>6, <1>7, <1>8, <1>12, <1>13, <2>1
  <2>3. Cardinality(found) # 0
    BY <1>10, <2>1, FS_EmptySet
  <2>4. keep # {}
    BY <1>6, <1>9, <1>10, <2>2, <2>3, FS_EmptySet
  <2>5. PICK g \in keep : g \in Scope(n) /\ own.mtime <= g.mtime /\ g # own
    BY <1>1, <1>9, <2>1, <2>4
  <2>6. g \in files /\ g.name = own.name /\ g.run <= own.run
    BY <1>8, <1>13, <2>5
  <2>7. g.mtime < own.mtime
    BY <1>8, <1>13, <2>5, <2>6 DEF FilesInv
  <2>. QED
    BY <1>8, <1>13, <2>5, <2>7
<1>15. ASSUME NEW f \in doomed'[n]
       PROVE  Cardinality(keep) = cfg[n].keepLast /\ \A g \in keep : f.mtime <= g.mtime
  <2>1. f \in found \ keep
    BY <1>3, <1>15
  <2>2. Cardinality(keep) # Cardinality(found)
    BY <1>9, <1>10, <2>1, FS_Subset
  <2>. QED
    BY <1>9, <2>1, <2>2
<1>16. Cardinality(keep) <= cfg[n].keepLast
  BY <1>6, <1>9, <1>10
<1>17. ASSUME NEW f \in doomed'[n], cfg[n].days > 0
       PROVE  f.mtime < clock - limit
  <2>1. f \in found /\ f \in Scope(n) /\ f \notin Young(n, found, cutoff)
    BY <1>1, <1>3, <1>17
  <2>. QED
    BY <1>5, <1>6, <1>7, <1>8, <1>12, <1>17, <2>1
<1>18. ASSUME NEW f \in Scope(n) \ (keep \cup doomed'[n] \cup failed'[n])
       PROVE  cfg[n].days > 0 /\ f.mtime >= own.mtime - limit - back
  <2>1. cfg[n].days > 0 /\ f.mtime >= cutoff
    BY <1>3, <1>12, <1>18
  <2>2. own.mtime <= clock /\ own.mtime \in Nat /\ f.mtime \in Nat
    BY <1>8, <1>13, <1>18
  <2>3. limit \in Nat /\ clock \in Nat /\ back \in Nat
    BY <1>6
  <2>4. f.mtime >= clock - limit - back
    BY <1>7, <2>1, <2>2, <2>3
  <2>. QED
    BY <2>1, <2>2, <2>3, <2>4
<1>19. keep \in SUBSET (Scope(n) \ doomed'[n])
  BY <1>1, <1>3
<1>20. doomed'[n] \subseteq Scope(n) \ Own(n)
  BY <1>1, <1>3, <1>13, <1>14
<1>21. \A f \in Scope(n) \ (keep \cup doomed'[n] \cup failed'[n]), g \in Own(n) :
         cfg[n].days > 0 /\ f.mtime >= g.mtime - limit - back
  BY <1>13, <1>18
<1>. QED
  BY <1>2, <1>4, <1>5, <1>15, <1>16, <1>17, <1>19, <1>20, <1>21 DEF PruneInv

\* What was within the policy when the directory was walked stays so as the files that
\* were doomed go, and time passes (retention.go:108-113).
LEMMA PruneKept ==
  ASSUME TypeOK, NEW n \in Names, PruneInv(n), stage[n] = "pruning",
         clock' = clock \/ clock' = clock + 1, back' = back \/ (back = 0 /\ back' \in Nat),
         cfg'[n] = cfg[n], doomed'[n] \subseteq doomed[n],
         doomed'[n] \subseteq Scope(n)', Scope(n) \ doomed[n] \subseteq Scope(n)',
         Scope(n)' \ (doomed'[n] \cup failed'[n]) \subseteq Scope(n) \ (doomed[n] \cup failed[n]),
         Own(n)' \subseteq Own(n)
  PROVE  PruneInv(n)'
<1>1. PICK limit \in Nat : limit = cfg[n].days * DayLen
  BY AgeLimit
<1>2. clock \in Nat /\ back \in Nat /\ \A f \in doomed[n] : f.mtime \in Nat
  BY Numbers, FileParts DEF TypeOK
<1>3. cfg[n].days > 0 \/ cfg[n].keepLast > 0
  BY DEF PruneInv
<1>4. ASSUME NEW f \in doomed'[n]
      PROVE  cfg'[n].days > 0 => f.mtime < clock' - limit
  <2>1. f \in doomed[n] /\ (cfg[n].days > 0 => f.mtime < clock - limit)
    BY <1>1, <1>4 DEF PruneInv
  <2>2. f.mtime < clock - limit => f.mtime < clock' - limit
    BY <1>2, <2>1
  <2>. QED
    BY <2>1, <2>2
<1>5. PICK keep \in SUBSET (Scope(n) \ doomed[n]) :
             /\ Cardinality(keep) <= cfg[n].keepLast
             /\ \A f \in doomed[n] :
                  Cardinality(keep) = cfg[n].keepLast /\ \A g \in keep : f.mtime <= g.mtime
             /\ \A f \in Scope(n) \ (keep \cup doomed[n] \cup failed[n]), own \in Own(n) :
                  cfg[n].days > 0 /\ f.mtime >= own.mtime - limit - back
  BY <1>1 DEF PruneInv
<1>6. /\ keep \in SUBSET (Scope(n)' \ doomed'[n])
      /\ Scope(n)' \ (keep \cup doomed'[n] \cup failed'[n]) \subseteq
           Scope(n) \ (keep \cup doomed[n] \cup failed[n])
  OBVIOUS
<1>7. ASSUME NEW f \in Scope(n)' \ (keep \cup doomed'[n] \cup failed'[n]), NEW own \in Own(n)'
      PROVE  cfg'[n].days > 0 /\ f.mtime >= own.mtime - limit - back'
  <2>1. cfg[n].days > 0 /\ f.mtime >= own.mtime - limit - back
    BY <1>5, <1>6, <1>7
  <2>2. f.mtime \in Nat /\ own.mtime \in Nat
    <3>1. f \in files /\ own \in files
      BY <1>6, <1>7 DEF Scope, Own
    <3>. QED
      BY <3>1, StoredNumbers
  <2>. QED
    BY <1>2, <2>1, <2>2
<1>8. \A f \in doomed'[n] :
        Cardinality(keep) = cfg'[n].keepLast /\ \A g \in keep : f.mtime <= g.mtime
  BY <1>5
<1>9. doomed'[n] \subseteq Scope(n)' \ Own(n)'
  BY DEF PruneInv
<1>. QED
  BY <1>1, <1>3, <1>4, <1>5, <1>6, <1>7, <1>8, <1>9 DEF PruneInv

\* The removals of a retention (retention.go:108-113).
LEMMA PruneStepOwn ==
  ASSUME TypeOK, FilesInv, NEW n \in Names, RunInv(n), PruneInv(n), RunStep(n)
  PROVE  PruneInv(n)'
<1>1. CASE Collect(n)
  BY <1>1, CollectStep
<1>2. CASE RemoveFile(n)
  <2>1. PICK f \in files : /\ f \in doomed[n] /\ f.name = n
                           /\ files' = files \ {f}
                           /\ doomed' = [doomed EXCEPT ![n] = @ \ {f}]
    BY <1>2, Removed
  <2>2. stage[n] = "pruning" /\ UNCHANGED <<cfg, clock, back, current, failed>>
    BY <1>2 DEF RemoveFile, timeVars
  <2>3. doomed'[n] = doomed[n] \ {f} /\ Scope(n)' = Scope(n) \ {f} /\ Own(n)' = Own(n) \ {f}
    BY <2>1, <2>2 DEF TypeOK, Scope, Own
  <2>4. doomed[n] \subseteq Scope(n)
    BY <2>2 DEF PruneInv
  <2>. QED
    BY <2>1, <2>2, <2>3, <2>4, PruneKept
<1>3. CASE RemoveFails(n)
  <2>1. PICK f \in NextDoomed(n) : /\ doomed' = [doomed EXCEPT ![n] = @ \ {f}]
                                   /\ failed' = [failed EXCEPT ![n] = @ \cup {f}]
    BY <1>3 DEF RemoveFails
  <2>2. stage[n] = "pruning" /\ UNCHANGED <<cfg, clock, back, files, current>>
    BY <1>3 DEF RemoveFails, timeVars
  <2>3. /\ doomed'[n] = doomed[n] \ {f} /\ failed'[n] = failed[n] \cup {f}
        /\ Scope(n)' = Scope(n) /\ Own(n)' = Own(n)
    BY <2>1, <2>2 DEF TypeOK, Scope, Own
  <2>4. doomed[n] \subseteq Scope(n)
    BY <2>2 DEF PruneInv
  <2>. QED
    BY <2>1, <2>2, <2>3, <2>4, PruneKept DEF NextDoomed
<1>4. CASE stage'[n] # "pruning"
  BY <1>4 DEF PruneInv
<1>. QED
  BY <1>1, <1>2, <1>3, <1>4 DEF RunStep, StartRun, OpenDest, CopyDone, CopyFails, GiveUp, NoPolicy,
     EndCleanup, TypeOK

\* ... which nothing else disturbs: other runs, the clock, the restore command.
LEMMA PruneInvStep ==
  ASSUME TypeOK, FilesInv, \A n \in Names : RunInv(n) /\ PruneInv(n),
         [Next]_vars, NEW m \in Names
  PROVE  PruneInv(m)'
<1>1. ASSUME clock' = clock \/ clock' = clock + 1, back' = back \/ (back = 0 /\ back' \in Nat),
             cfg' = cfg, stage'[m] = stage[m], current'[m] = current[m],
             doomed'[m] = doomed[m], failed'[m] = failed[m],
             \A f : f.name = m => (f \in files' <=> f \in files)
      PROVE  PruneInv(m)'
  <2>1. Own(m)' = Own(m) /\ Scope(m)' = Scope(m)
    BY <1>1 DEF Own, Scope
  <2>2. CASE stage[m] = "pruning"
    <3>1. doomed[m] \subseteq Scope(m)
      BY <2>2 DEF PruneInv
    <3>. QED
      BY <1>1, <2>1, <2>2, <3>1, PruneKept
  <2>3. CASE stage[m] # "pruning"
    BY <1>1, <2>3 DEF PruneInv
  <2>. QED
    BY <2>2, <2>3
<1>2. CASE Tick
  <2>1. UNCHANGED <<cfg, back, files, runVars>> /\ clock' = clock + 1
    BY <1>2 DEF Tick
  <2>. QED
    BY <1>1, <2>1 DEF runVars
<1>3. CASE Crash
  <2>1. stage'[m] # "pruning"
    BY <1>3 DEF Crash
  <2>. QED
    BY <2>1 DEF PruneInv
<1>4. ASSUME NEW n \in Names, RunStep(n)
      PROVE  PruneInv(m)'
  <2>1. CASE m = n
    BY <1>4, <2>1, PruneStepOwn
  <2>2. CASE m # n
    BY <1>1, <1>4, <2>2, Frame
  <2>. QED
    BY <2>1, <2>2
<1>5. CASE SetBack \/ RestoreStep \/ UNCHANGED vars
  <2>1. /\ UNCHANGED <<cfg, clock, files, runVars>>
        /\ back' = back \/ (back = 0 /\ back' \in Nat)
    BY <1>5, Numbers, RestoreReads DEF SetBack, vars, timeVars
  <2>. QED
    BY <1>1, <2>1 DEF runVars
<1>. QED
  BY <1>2, <1>3, <1>4, <1>5 DEF Next

\* Local time, once set back, is not set forward again.
LEMMA NotSetBack ==
  ASSUME TypeOK, [Next]_vars, back' = 0
  PROVE  back = 0 /\ LocalTime = clock + Shift
<1>1. back = 0
  <2>1. CASE SetBack
    BY <2>1, Numbers DEF SetBack
  <2>2. CASE UNCHANGED back
    BY <2>2
  <2>. QED
    BY <2>1, <2>2, RestoreReads
       DEF Next, Tick, Crash, RunStep, StartRun, OpenDest, CopyDone, CopyFails, GiveUp, Collect, NoPolicy,
           RemoveFile, RemoveFails, EndCleanup, vars, timeVars
<1>. QED
  BY <1>1, Numbers DEF LocalTime

\* Steps by which no file comes and no run starts.
LEMMA ClockKept ==
  ASSUME TypeOK, ClockInv, back = 0, files' \subseteq files,
         clock' = clock \/ clock' = clock + 1,
         \A n \in Names : stage'[n] \in {"dumped", "copying"} =>
            /\ stage[n] \in {"dumped", "copying"} /\ current'[n] = current[n]
            /\ stage'[n] = "copying" => stage[n] = "copying"
  PROVE  ClockInv'
<1>1. clock \in Nat /\ Shift \in Nat /\ clock + Shift \in Nat /\ clock' \in Nat
      /\ clock + Shift <= clock' + Shift /\ clock' + Shift \in Nat
  BY Numbers
<1>2. Day(clock + Shift) \in Nat /\ Day(clock' + Shift) \in Nat
      /\ Day(clock + Shift) <= Day(clock' + Shift)
  BY <1>1, Days
<1>3. ASSUME NEW f \in files'
      PROVE  f.stamp <= f.mtime + Shift /\ f.day <= Day(clock' + Shift)
  <2>1. f.day \in Nat /\ f.day <= Day(clock + Shift) /\ f.stamp <= f.mtime + Shift
    BY <1>3, StoredNumbers DEF ClockInv
  <2>. QED
    BY <1>2, <2>1
<1>4. \A f, g \in files' : f.name = g.name =>
        /\ f.run < g.run => f.day <= g.day /\ f.stamp < g.stamp
        /\ f.run = g.run => f.stamp = g.stamp /\ (g.whole => f.day <= g.day)
  BY DEF ClockInv
<1>5. ASSUME NEW n \in Names, stage'[n] \in {"dumped", "copying"}
      PROVE  /\ current'[n].stamp <= clock' + Shift
             /\ \A f \in Scope(n)' : IF f.run = current'[n].run THEN f.stamp = current'[n].stamp
                                                                ELSE f.stamp < current'[n].stamp
             /\ stage'[n] = "copying" => \A f \in Scope(n)' : f.day <= current'[n].day
  <2>1. current[n].stamp <= clock + Shift /\ current[n].stamp \in Nat
    BY <1>5, Numbers DEF ClockInv
  <2>2. current'[n].stamp <= clock' + Shift
    BY <1>1, <1>5, <2>1
  <2>3. Scope(n)' \subseteq Scope(n)
    BY DEF Scope
  <2>. QED
    BY <1>5, <2>2, <2>3 DEF ClockInv
<1>6. (Day(clock + Shift))' = Day(clock' + Shift)
  BY DEF Day
<1>. QED
  BY <1>3, <1>4, <1>5, <1>6 DEF ClockInv

\* Runs in the order in which they ran have paths in that order, and so have the attempts of
\* one of them (restorer.go:137-139).
LEMMA ClockStep ==
  ASSUME TypeOK, FilesInv, \A n \in Names : RunInv(n) /\ PruneInv(n), ClockInv, [Next]_vars
  PROVE  ClockInv'
<1> SUFFICES ASSUME back' = 0
             PROVE  ClockInv'
  BY DEF ClockInv
<1>0. back = 0 /\ LocalTime = clock + Shift /\ clock \in Nat /\ Shift \in Nat
  BY NotSetBack, Numbers
<1>1. CASE Tick \/ SetBack \/ Crash \/ RestoreStep \/ UNCHANGED vars
  <2>1. /\ files' = files
        /\ clock' = clock \/ clock' = clock + 1
        /\ UNCHANGED <<stage, current>> \/ stage' = [n \in Names |-> "idle"]
    BY <1>1, RestoreReads DEF Tick, SetBack, Crash, vars, timeVars, runVars
  <2>. QED
    BY <1>0, <2>1, ClockKept
<1>2. ASSUME NEW n \in Names, RunStep(n)
      PROVE  ClockInv'
  <2>0. /\ clock' = clock
        /\ \A m \in Names \ {n} : /\ stage'[m] = stage[m] /\ current'[m] = current[m]
                                  /\ Scope(m)' = Scope(m)
    BY <1>2, Frame DEF Scope
  <2>1. ASSUME NEW m \in Names, m # n, stage'[m] \in {"dumped", "copying"}
        PROVE  /\ current'[m].stamp <= clock + Shift
               /\ \A f \in Scope(m)' : IF f.run = current'[m].run THEN f.stamp = current'[m].stamp
                                                                  ELSE f.stamp < current'[m].stamp
               /\ stage'[m] = "copying" => \A f \in Scope(m)' : f.day <= current'[m].day
    BY <1>0, <2>0, <2>1 DEF ClockInv
  <2>2. (Day(clock + Shift))' = Day(clock + Shift)
    BY <2>0 DEF Day
  <2>3. CASE StartRun(n)
    <3>1. /\ files' = files /\ stage'[n] = "dumped"
          /\ current'[n].stamp = clock + Shift /\ current'[n].run = runs[n] + 1
          /\ \A f \in files : f.name = n => f.mtime < clock
      BY <1>0, <2>3 DEF StartRun, TypeOK
    <3>2. ASSUME NEW f \in files, f.name = n
          PROVE  f.stamp < clock + Shift /\ f.run # runs[n] + 1
      <4>1. f.stamp \in Nat /\ f.mtime \in Nat /\ f.run \in Nat /\ runs[n] \in Nat
        BY <3>2, StoredNumbers, Numbers
      <4>2. f.stamp <= f.mtime + Shift /\ f.mtime < clock /\ f.run <= runs[n]
        BY <1>0, <3>1, <3>2 DEF ClockInv, FilesInv
      <4>. QED
        BY <1>0, <4>1, <4>2
    <3>3. ASSUME NEW m \in Names, stage'[m] \in {"dumped", "copying"}
          PROVE  /\ current'[m].stamp <= clock + Shift
                 /\ \A f \in Scope(m)' : IF f.run = current'[m].run THEN f.stamp = current'[m].stamp
                                                                    ELSE f.stamp < current'[m].stamp
                 /\ stage'[m] = "copying" => \A f \in Scope(m)' : f.day <= current'[m].day
      <4>1. CASE m = n
        BY <1>0, <3>1, <3>2, <4>1 DEF Scope
      <4>. QED
        BY <2>1, <3>3, <4>1
    <3>. QED
      BY <1>0, <2>0, <2>2, <3>1, <3>3 DEF ClockInv
  <2>4. CASE OpenDest(n)
    <3>1. PICK g \in File : /\ files' = {f \in files : ~SamePath(f, g)} \cup {g}
                            /\ g.name = n /\ g.run = runs[n] /\ g.mtime = clock /\ ~g.whole
                            /\ g.day = Day(LocalTime) /\ g.stamp = current[n].stamp
                            /\ current'[n].run = runs[n] /\ current'[n].stamp = current[n].stamp
                            /\ current'[n].day = g.day
      BY <2>4, Created
    <3>2. /\ stage[n] = "dumped" /\ current[n].stamp <= clock + Shift
          /\ current[n].run = runs[n] /\ runs[n] \in Nat /\ done[n] \in Nat /\ done[n] < runs[n]
      BY <1>0, <2>4, Numbers DEF OpenDest, ClockInv, RunInv
    <3>3. g.day = Day(clock + Shift) /\ Day(clock + Shift) \in Nat
      BY <1>0, <3>1, Days
    <3>4. ASSUME NEW f \in files, f.name = n
          PROVE  /\ f.run \in Nat /\ f.run <= runs[n] /\ f.day <= g.day
                 /\ f.run # runs[n] => f.stamp < g.stamp
                 /\ f.run = runs[n] => f.stamp = g.stamp /\ ~f.whole
      <4>1. IF f.run = current[n].run THEN f.stamp = current[n].stamp
                                      ELSE f.stamp < current[n].stamp
        BY <1>0, <3>2, <3>4 DEF ClockInv, Scope
      <4>2. f.day <= Day(clock + Shift)
        BY <1>0 DEF ClockInv
      <4>3. f.run \in Nat /\ f.run <= runs[n] /\ (f.whole => f.run <= done[n])
        BY <3>4, StoredNumbers DEF FilesInv
      <4>4. f.run = runs[n] => ~f.whole
        BY <3>2, <4>3
      <4>. QED
        BY <3>1, <3>2, <3>3, <4>1, <4>2, <4>3, <4>4
    <3>5. ASSUME NEW f \in files'
          PROVE  f.stamp <= f.mtime + Shift /\ f.day <= Day(clock + Shift)
      <4>1. CASE f = g
        BY <1>0, <3>1, <3>2, <3>3, <4>1
      <4>2. CASE f \in files
        BY <1>0, <4>2 DEF ClockInv
      <4>. QED
        BY <3>1, <4>1, <4>2
    <3>6. ASSUME NEW f \in files', NEW h \in files', f.name = h.name
          PROVE  /\ f.run < h.run => f.day <= h.day /\ f.stamp < h.stamp
                 /\ f.run = h.run => f.stamp = h.stamp /\ (h.whole => f.day <= h.day)
      <4>1. CASE f \in files /\ h \in files
        BY <1>0, <3>6, <4>1 DEF ClockInv
      <4>2. CASE f \in files /\ h = g
        <5>1. f.name = n /\ h.run = runs[n]
          BY <3>1, <3>6, <4>2
        <5>. QED
          BY <3>2, <3>4, <4>2, <5>1
      <4>3. CASE f = g /\ h \in files
        <5>1. h.name = n /\ f.run = runs[n]
          BY <3>1, <3>6, <4>3
        <5>. QED
          BY <3>2, <3>4, <4>3, <5>1
      <4>4. CASE f = g /\ h = g
        BY <3>1, <3>2, <3>3, <4>4
      <4>. QED
        BY <3>1, <3>6, <4>1, <4>2, <4>3, <4>4
    <3>7. ASSUME NEW m \in Names, stage'[m] \in {"dumped", "copying"}
          PROVE  /\ current'[m].stamp <= clock + Shift
                 /\ \A f \in Scope(m)' : IF f.run = current'[m].run THEN f.stamp = current'[m].stamp
                                                                    ELSE f.stamp < current'[m].stamp
                 /\ stage'[m] = "copying" => \A f \in Scope(m)' : f.day <= current'[m].day
      <4>1. CASE m = n
        <5>1. \A f \in Scope(n)' : f = g \/ (f \in files /\ f.name = n)
          BY <3>1 DEF Scope
        <5>2. \A f \in Scope(n)' : IF f.run = current'[n].run THEN f.stamp = current'[n].stamp
                                                              ELSE f.stamp < current'[n].stamp
          BY <3>1, <3>4, <5>1
        <5>3. \A f \in Scope(n)' : f.day <= current'[n].day
          BY <3>1, <3>3, <3>4, <5>1
        <5>. QED
          BY <3>1, <3>2, <4>1, <5>2, <5>3
      <4>. QED
        BY <2>1, <3>7, <4>1
    <3>. QED
      BY <2>0, <2>2, <3>5, <3>6, <3>7 DEF ClockInv
  <2>5. CASE CopyDone(n)
    <3>1. PICK o \in files, g \in File :
                 /\ Own(n) = {o} /\ files' = (files \ {o}) \cup {g}
                 /\ o.name = n /\ o.run = runs[n] /\ o.day = current[n].day
                 /\ g.name = n /\ g.run = runs[n] /\ g.mtime = clock
                 /\ g.day = o.day /\ g.stamp = o.stamp
      BY <2>5, Completed
    <3>2. ASSUME NEW f \in files'
          PROVE  f.stamp <= f.mtime + Shift /\ f.day <= Day(clock + Shift)
      <4>1. CASE f = g
        <5>1. o.mtime <= clock /\ o.stamp <= o.mtime + Shift /\ o.day <= Day(clock + Shift)
          BY <1>0 DEF FilesInv, ClockInv
        <5>. QED
          BY <1>0, <3>1, <4>1, <5>1, StoredNumbers
      <4>2. CASE f \in files
        BY <1>0, <4>2 DEF ClockInv
      <4>. QED
        BY <3>1, <4>1, <4>2
    <3>3. \A f \in files : f.name = n => f.day <= g.day
      BY <1>0, <2>5, <3>1 DEF CopyDone, ClockInv, Scope
    <3>4. ASSUME NEW f \in files'
          PROVE  \E h \in files : /\ h.name = f.name /\ h.run = f.run
                                  /\ h.day = f.day /\ h.stamp = f.stamp
                                  /\ h = f \/ (h = o /\ f = g)
      <4>1. CASE f = g
        BY <3>1, <4>1
      <4>2. CASE f \in files
        BY <4>2
      <4>. QED
        BY <3>1, <3>4, <4>1, <4>2
    <3>5. ASSUME NEW f \in files', NEW h \in files', f.name = h.name
          PROVE  /\ f.run < h.run => f.day <= h.day /\ f.stamp < h.stamp
                 /\ f.run = h.run => f.stamp = h.stamp /\ (h.whole => f.day <= h.day)
      <4>1. PICK f0 \in files : /\ f0.name = f.name /\ f0.run = f.run
                                /\ f0.day = f.day /\ f0.stamp = f.stamp
        BY <3>4, <3>5
      <4>2. PICK h0 \in files : /\ h0.name = h.name /\ h0.run = h.run
                                /\ h0.day = h.day /\ h0.stamp = h.stamp
                                /\ h0 = h \/ (h0 = o /\ h = g)
        BY <3>4, <3>5
      <4>3. /\ f0.run < h0.run => f0.day <= h0.day /\ f0.stamp < h0.stamp
            /\ f0.run = h0.run => f0.stamp = h0.stamp /\ (h0.whole => f0.day <= h0.day)
        BY <1>0, <3>5, <4>1, <4>2 DEF ClockInv
      <4>4. h = g => f0.day <= h.day
        BY <3>1, <3>3, <3>5, <4>1
      <4>. QED
        BY <4>1, <4>2, <4>3, <4>4
    <3>6. stage'[n] = "stored"
      BY <2>5 DEF CopyDone, TypeOK
    <3>. QED
      BY <2>0, <2>1, <2>2, <3>2, <3>5, <3>6 DEF ClockInv
  <2>6. CASE CopyFails(n) \/ GiveUp(n)
    <3>1. /\ files' \subseteq files /\ stage[n] \in {"dumped", "copying"}
          /\ stage'[n] = "idle" \/ (stage'[n] = "dumped" /\ current' = current)
      BY <2>6 DEF CopyFails, GiveUp, TypeOK
    <3>2. \A m \in Names : stage'[m] \in {"dumped", "copying"} =>
            /\ stage[m] \in {"dumped", "copying"} /\ current'[m] = current[m]
            /\ stage'[m] = "copying" => stage[m] = "copying"
      BY <2>0, <3>1
    <3>. QED
      BY <1>0, <2>0, <3>1, <3>2, ClockKept
  <2>7. CASE files' \subseteq files /\ stage'[n] \notin {"dumped", "copying"}
    BY <1>0, <2>0, <2>7, ClockKept
  <2>. QED
    BY <1>2, <2>3, <2>4, <2>5, <2>6, <2>7 DEF RunStep, Collect, NoPolicy, RemoveFile, RemoveFails,
       EndCleanup, TypeOK
<1>. QED
  BY <1>1, <1>2 DEF Next

\* What steps other than those of the restore command do to what it has chosen: a whole file
\* stays at its path until a later run has succeeded (restorer.go:80-97).
LEMMA TargetKept ==
  ASSUME TypeOK, FilesInv, \A n \in Names : RunInv(n) /\ PruneInv(n), TargetInv,
         Tick \/ SetBack \/ Crash \/ (\E n \in Names : RunStep(n)) \/ UNCHANGED vars,
         restore' = restore
  PROVE  TargetInv'
<1> SUFFICES ASSUME restore.stage \in {"selected", "vanished"}, restore.target.whole
             PROVE  /\ restore.target.run <= done'[restore.name]
                    /\ \A f \in AtTarget' : f = restore.target
                    /\ \/ done'[restore.name] > restore.target.run
                       \/ restore.stage = "selected" /\ restore.target \in files'
  BY DEF TargetInv
<1> DEFINE t == restore.target
           m == restore.name
<1>1. /\ m \in Names /\ t \in File /\ t.name = m /\ t.run \in Nat /\ t.run <= done[m]
      /\ \A f \in files : SamePath(f, t) => f = t
      /\ done[m] > t.run \/ (restore.stage = "selected" /\ t \in files)
  <2>1. m \in Names /\ t \in File
    BY DEF TypeOK, Restores
  <2>2. t.run \in Nat
    BY <2>1, FileParts
  <2>. QED
    BY <2>1, <2>2 DEF TargetInv, AtTarget
<1>2. AtTarget' = {f \in files' : SamePath(f, t)}
  BY DEF AtTarget
<1> HIDE DEF t, m
<1>3. CASE files' = files /\ done' = done
  BY <1>1, <1>2, <1>3 DEF t, m
<1>4. ASSUME NEW n \in Names, RunStep(n)
      PROVE  /\ t.run <= done'[m]
             /\ \A f \in files' : SamePath(f, t) => f = t
             /\ done'[m] > t.run \/ (restore.stage = "selected" /\ t \in files')
  <2>1. CASE m # n
    BY <1>1, <1>4, <2>1, Frame DEF SamePath
  <2>2. CASE m = n /\ OpenDest(n)
    <3>1. PICK g \in File : files' = {f \in files : ~SamePath(f, g)} \cup {g} /\ g.run = runs[n]
      BY <2>2, Created
    <3>2. done' = done /\ done[n] < runs[n] /\ done[n] \in Nat /\ runs[n] \in Nat
      BY <2>2, Numbers DEF OpenDest, RunInv
    <3>3. t.run # g.run
      BY <1>1, <2>2, <3>1, <3>2
    <3>. QED
      BY <1>1, <3>1, <3>2, <3>3 DEF SamePath
  <2>3. CASE m = n /\ CopyDone(n)
    <3>1. PICK o \in files, g \in File : /\ files' = (files \ {o}) \cup {g}
                                         /\ o.run = runs[n] /\ g.run = runs[n]
      BY <2>3, Completed
    <3>2. /\ done'[n] = runs[n] /\ done[n] < runs[n]
          /\ done[n] \in Nat /\ runs[n] \in Nat
      BY <2>3, Numbers DEF CopyDone, RunInv, TypeOK
    <3>3. t.run < runs[n]
      BY <1>1, <2>3, <3>2
    <3>4. t.run # g.run
      BY <1>1, <3>1, <3>2, <3>3
    <3>5. done'[m] > t.run /\ t.run <= done'[m]
      BY <1>1, <2>3, <3>2, <3>3
    <3>. QED
      BY <1>1, <3>1, <3>4, <3>5 DEF SamePath
  <2>4. CASE m = n /\ CopyFails(n)
    <3>1. done' = done /\ done[n] < runs[n] /\ current[n].run = runs[n] /\ files' \subseteq files
          /\ files \ Own(n) \subseteq files' /\ done[n] \in Nat /\ runs[n] \in Nat
      BY <2>4, Numbers DEF CopyFails, RunInv
    <3>2. t \notin Own(n)
      BY <1>1, <2>4, <3>1 DEF Own
    <3>. QED
      BY <1>1, <3>1, <3>2
  <2>5. CASE m = n /\ RemoveFile(n)
    <3>1. PICK f \in files : f \in doomed[n] /\ files' = files \ {f}
      BY <2>5, Removed
    <3>2. /\ done' = done /\ done[n] = runs[n] /\ done[n] \in Nat
          /\ \E own \in Own(n) : own.whole
          /\ stage[n] = "pruning" /\ current[n].run = runs[n]
      BY <2>5, Numbers DEF RemoveFile, RunInv
    <3>3. CASE f # t
      BY <1>1, <3>1, <3>2, <3>3
    <3>4. CASE f = t
      <4>1. PICK own \in Own(n) : own.whole /\ own \in files /\ own.name = n /\ own.run = done[n]
        BY <3>2 DEF Own
      <4>2. t \notin Own(n)
        BY <3>1, <3>2, <3>4 DEF PruneInv
      <4>3. t.run # done[n]
        <5>1. t.whole /\ t.name = n /\ t \in files
          BY <1>1, <2>5, <3>1, <3>4 DEF t
        <5>2. t.run = own.run => t.mtime < own.mtime /\ own.mtime < t.mtime
          BY <4>1, <4>2, <5>1 DEF FilesInv
        <5>. QED
          BY <4>1, <5>1, <5>2, StoredNumbers
      <4>4. done[n] > t.run
        BY <1>1, <2>5, <3>2, <4>3
      <4>. QED
        BY <1>1, <2>5, <3>1, <3>2, <4>4
    <3>. QED
      BY <3>3, <3>4
  <2>6. CASE files' = files /\ done' = done
    BY <1>1, <2>6
  <2>. QED
    BY <1>4, <2>1, <2>2, <2>3, <2>4, <2>5, <2>6 DEF RunStep, StartRun, GiveUp, Collect, NoPolicy,
       RemoveFails, EndCleanup
<1>5. CASE \E n \in Names : RunStep(n)
  BY <1>2, <1>4, <1>5 DEF t, m
<1>. QED
  BY <1>3, <1>5 DEF Tick, SetBack, Crash, vars, timeVars, runVars

\* What --latest has chosen while local time was not set back: no file of a later run is
\* listed, and it is the whole file of the last run reported, or of a later run.
LEMMA LatestChoice ==
  ASSUME TypeOK, FilesInv, ClockInv, NewestSurvives, back = 0, NEW n \in Names,
         NEW f \in Listed(n), \A g \in Listed(n) : ~Before(f, g)
  PROVE  /\ \A g \in Listed(n) : ~(g.run > f.run)
         /\ \/ f.run = done[n] /\ f.whole
            \/ f.run > done[n]
<1>1. /\ \A g \in Listed(n) : /\ g \in files /\ g.name = n /\ g.run \in Nat \ {0} /\ g.day \in Nat
                              /\ g.stamp \in Nat /\ g.mtime \in Nat
      /\ done[n] \in Nat
  BY StoredNumbers, Numbers DEF Listed, Scope
<1>2. ASSUME NEW g \in Listed(n)
      PROVE  ~(g.run > f.run)
  <2>1. f.run < g.run => f.day <= g.day /\ f.stamp < g.stamp
    BY <1>1 DEF ClockInv
  <2>. QED
    BY <1>1, <2>1 DEF Before
<1>3. CASE done[n] = 0
  BY <1>1, <1>2, <1>3
<1>4. CASE done[n] # 0
  <2>1. PICK g \in Listed(n) : g.run = done[n] /\ g.whole
    BY <1>4 DEF NewestSurvives, Listed, Scope
  <2>2. f.run >= done[n]
    BY <1>1, <1>2, <2>1
  <2>3. f.run = done[n] => f.whole
    <3>1. CASE f = g
      BY <2>1, <3>1
    <3>2. CASE f.run = done[n] /\ f # g
      <4>1. f.stamp = g.stamp /\ f.day <= g.day
        BY <1>1, <2>1, <3>2 DEF ClockInv
      <4>2. ~SamePath(f, g)
        BY <1>1, <2>1, <3>2 DEF FilesInv
      <4>3. f.day < g.day
        BY <1>1, <2>1, <3>2, <4>1, <4>2 DEF SamePath
      <4>. QED
        BY <4>3 DEF Before
    <3>. QED
      BY <3>1, <3>2
  <2>. QED
    BY <1>1, <1>2, <2>2, <2>3
<1>. QED
  BY <1>3, <1>4

\* What the restore command has chosen is there until a later run has succeeded, is the
\* newest until local time is set back, and so is what it restores (restorer.go:69-97).
LEMMA RestoreInvStep ==
  ASSUME TypeOK, FilesInv, \A n \in Names : RunInv(n) /\ PruneInv(n), NewestSurvives, ClockInv,
         RestoreInv, [Next]_vars
  PROVE  RestoreInv'
<1>1. CASE ~RestoreStep
  <2>1. restore' = restore /\ (back' = 0 => back = 0)
    BY <1>1, NotSetBack, Frame DEF Next, Tick, SetBack, Crash, vars
  <2>2. TargetInv'
    BY <1>1, <2>1, TargetKept DEF Next, RestoreInv
  <2>. QED
    BY <2>1, <2>2 DEF RestoreInv, ChoiceInv, LatestIsNewestByClock, LatestIsNewest,
       LatestRestoresReported
<1>2. CASE RestoreStep
  <2>0. UNCHANGED <<back, files, done>>
    BY <1>2, RestoreReads DEF timeVars, runVars
  <2>1. CASE \E n \in Names : SelectLatest(n) \/ SelectTimestamp(n)
    <3>1. PICK n \in Names : SelectLatest(n) \/ SelectTimestamp(n)
      BY <2>1
    <3>2. PICK f \in Listed(n), b \in BOOLEAN :
                 Select(n, f, b) /\ (b => \A g \in Listed(n) : ~Before(f, g))
      BY <3>1 DEF SelectLatest, SelectTimestamp
    <3>3. /\ restore'.stage = "selected" /\ restore'.name = n /\ restore'.target = f
          /\ restore'.latest = b /\ restore'.reported = done[n]
          /\ restore'.overtaken = (\E g \in Listed(n) : g.run > f.run)
      BY <3>2 DEF Select
    <3>4. f \in files /\ f.name = n
      BY <3>2 DEF Listed, Scope
    <3>5. back = 0 /\ b => /\ \A g \in Listed(n) : ~(g.run > f.run)
                           /\ \/ f.run = done[n] /\ f.whole
                              \/ f.run > done[n]
      BY <3>2, LatestChoice
    <3>6. TargetInv'
      <4>1. f.whole => f.run <= done[n]
        BY <3>4 DEF FilesInv
      <4>2. \A g \in files : SamePath(g, f) => g = f
        BY <3>4 DEF FilesInv, SamePath
      <4>3. AtTarget' = {g \in files : SamePath(g, f)}
        BY <2>0, <3>3 DEF AtTarget
      <4>. QED
        BY <2>0, <3>3, <3>4, <4>1, <4>2, <4>3 DEF TargetInv
    <3>7. ChoiceInv'
      BY <2>0, <3>3, <3>5 DEF ChoiceInv
    <3>8. LatestIsNewestByClock' /\ LatestRestoresReported'
      BY <2>0, <3>3, <3>5 DEF LatestIsNewestByClock, LatestIsNewest, LatestRestoresReported
    <3>. QED
      BY <3>6, <3>7, <3>8 DEF RestoreInv
  <2>2. CASE OpenSource
    <3>1. restore \in [stage : {"selected", "vanished", "opened"}, name : Names, target : File,
                       latest : BOOLEAN, overtaken : BOOLEAN, reported : Nat]
      BY <2>2 DEF OpenSource, TypeOK, Restores
    <3>2. PICK f \in AtTarget :
                 restore' = [restore EXCEPT !.stage = "opened", !.target = f, !.overtaken = FALSE]
      BY <2>2 DEF OpenSource
    <3>3. /\ restore'.stage = "opened" /\ restore'.target = f
          /\ restore'.latest = restore.latest /\ restore'.reported = restore.reported
      BY <3>1, <3>2
    <3>4. restore.stage = "selected" /\ f.run = restore.target.run
          /\ (restore.target.whole => f = restore.target)
      BY <2>2, <3>2 DEF OpenSource, AtTarget, SamePath, RestoreInv, TargetInv
    <3>5. ChoiceInv'
      BY <2>0, <3>3, <3>4 DEF RestoreInv, ChoiceInv
    <3>. QED
      BY <3>3, <3>5 DEF RestoreInv, TargetInv, LatestIsNewestByClock, LatestIsNewest,
         LatestRestoresReported
  <2>3. CASE SourceMissing
    <3>1. /\ restore.stage = "selected" /\ AtTarget = {}
          /\ restore' = [restore EXCEPT !.stage = "vanished", !.overtaken = FALSE]
      BY <2>3 DEF SourceMissing
    <3>2. restore \in [stage : {"selected", "vanished", "opened"}, name : Names, target : File,
                       latest : BOOLEAN, overtaken : BOOLEAN, reported : Nat]
      BY <3>1 DEF TypeOK, Restores
    <3>3. /\ restore'.stage = "vanished" /\ restore'.name = restore.name
          /\ restore'.target = restore.target
      BY <3>1, <3>2
    <3>4. AtTarget' = AtTarget /\ restore.target \notin files
      BY <2>0, <3>1, <3>3 DEF AtTarget, SamePath
    <3>5. TargetInv'
      BY <2>0, <3>1, <3>3, <3>4 DEF RestoreInv, TargetInv
    <3>. QED
      BY <3>3, <3>5 DEF RestoreInv, ChoiceInv, LatestIsNewestByClock, LatestIsNewest,
         LatestRestoresReported
  <2>4. CASE Apply
    <3>1. PICK w \in {restore.target.whole, ReadWhole} :
                 restore' = [stage |-> "restored", run |-> restore.target.run, whole |-> w,
                             latest |-> restore.latest, reported |-> restore.reported]
      BY <2>4 DEF Apply
    <3>2. restore.stage = "opened" /\ (restore.target.whole => w)
      BY <2>4, <3>1 DEF Apply, ReadWhole
    <3>3. /\ restore'.stage = "restored" /\ restore'.run = restore.target.run /\ restore'.whole = w
          /\ restore'.latest = restore.latest /\ restore'.reported = restore.reported
      BY <3>1
    <3>4. LatestRestoresReported'
      BY <2>0, <3>2, <3>3 DEF RestoreInv, ChoiceInv, LatestRestoresReported
    <3>. QED
      BY <3>3, <3>4 DEF RestoreInv, TargetInv, ChoiceInv, LatestIsNewestByClock, LatestIsNewest
  <2>5. CASE RestoreFails \/ EndRestore
    <3>1. restore'.stage = "none"
      BY <2>5 DEF RestoreFails, EndRestore, NoRestore
    <3>. QED
      BY <3>1 DEF RestoreInv, TargetInv, ChoiceInv, LatestIsNewestByClock, LatestIsNewest,
         LatestRestoresReported
  <2>. QED
    BY <1>2, <2>1, <2>2, <2>3, <2>4, <2>5 DEF RestoreStep
<1>. QED
  BY <1>1, <1>2

------------------------------------------------------------------------------
(* The inductive invariant. *)

\* The directory is empty at first.
LEMMA InvInit == Init => BackupStoreInv
<1> SUFFICES ASSUME Init
             PROVE  BackupStoreInv
  OBVIOUS
<1>1. TypeOK
  BY BackupStoreAssumption DEF BackupStoreAssumption, Init, TypeOK, Restores, NoRun
<1>2. FilesInv
  BY FS_EmptySet DEF Init, FilesInv
<1>3. \A n \in Names : RunInv(n) /\ PruneInv(n)
  BY DEF Init, RunInv, PruneInv
<1>4. NewestSurvives
  BY DEF Init, NewestSurvives
<1>5. ClockInv
  BY DEF Init, ClockInv
<1>6. RestoreInv
  BY DEF Init, RestoreInv, TargetInv, ChoiceInv, LatestIsNewestByClock, LatestIsNewest,
         LatestRestoresReported
<1>. QED
  BY <1>1, <1>2, <1>3, <1>4, <1>5, <1>6 DEF BackupStoreInv

\* Every step keeps its parts.
LEMMA InvStep == BackupStoreInv /\ [Next]_vars => BackupStoreInv'
BY TypeStep, FilesStep, RunInvStep, NewestStep, PruneInvStep, ClockStep, RestoreInvStep
   DEF BackupStoreInv

\* The inductive invariant of the destination directory holds for every set of backups,
\* every configuration, every length of the day and every shift of local time.
THEOREM BackupStoreInvariant == Spec => []BackupStoreInv
BY InvInit, InvStep, PTL DEF Spec

------------------------------------------------------------------------------
(* The properties. *)

\* There is always something to restore: the file of the last run whose upload succeeded is
\* at the destination and whole, whatever retention, later runs, failures and crashes do
\* (retention.go:85-113, local.go:68-77).
THEOREM TheNewestSurvives == Spec => []NewestSurvives
<1>1. BackupStoreInv => NewestSurvives
  BY DEF BackupStoreInv
<1>. QED
  BY <1>1, BackupStoreInvariant, PTL

\* Retention removes only files beyond the age limit with keep_last newer ones besides them,
\* at the moment it removes them (retention.go:24-28).
THEOREM RetentionIsAUnion == Spec => UnionPolicy
<1>1. ASSUME BackupStoreInv, NEW n \in Names, NEW f \in doomed[n], stage[n] = "pruning"
      PROVE  /\ cfg[n].days > 0 => f.mtime < clock - cfg[n].days * DayLen
             /\ Cardinality({g \in Scope(n) \ {f} : g.mtime >= f.mtime}) >= cfg[n].keepLast
             /\ cfg[n].days > 0 \/ cfg[n].keepLast > 0
  <2> DEFINE newer == {g \in Scope(n) \ {f} : g.mtime >= f.mtime}
  <2>1. TypeOK /\ FilesInv /\ PruneInv(n)
    BY <1>1 DEF BackupStoreInv
  <2>2. PICK keep \in SUBSET (Scope(n) \ doomed[n]) :
               Cardinality(keep) = cfg[n].keepLast /\ \A g \in keep : f.mtime <= g.mtime
    BY <1>1, <2>1 DEF PruneInv
  <2>3. \A g \in files : g.mtime \in Nat
    BY <2>1, StoredNumbers
  <2>4. f \in Scope(n) /\ f \in files /\ f.mtime \in Nat
    BY <1>1, <2>1, <2>3 DEF PruneInv, Scope
  <2>5. keep \in SUBSET newer
    BY <1>1, <2>2, <2>3, <2>4 DEF Scope
  <2>6. newer \in SUBSET files
    BY DEF Scope
  <2> HIDE DEF newer
  <2>7. IsFiniteSet(newer)
    BY <2>1, <2>6, FS_Subset DEF FilesInv
  <2>8. /\ Cardinality(newer) \in Nat /\ Cardinality(keep) \in Nat
        /\ Cardinality(keep) <= Cardinality(newer)
    BY <2>5, <2>7, FS_Subset, FS_CardinalityType
  <2>9. Cardinality(newer) >= cfg[n].keepLast
    BY <2>2, <2>8
  <2>. QED
    BY <1>1, <2>1, <2>9 DEF PruneInv, newer
<1>2. BackupStoreInv /\ [Next]_vars =>
        [\A n \in Names, f \in files \ files' :
           stage[n] = "pruning" /\ f \in doomed[n] \ doomed'[n] =>
             /\ cfg[n].days > 0 => f.mtime < clock - cfg[n].days * DayLen
             /\ Cardinality({g \in Scope(n) \ {f} : g.mtime >= f.mtime}) >= cfg[n].keepLast
             /\ cfg[n].days > 0 \/ cfg[n].keepLast > 0]_vars
  BY <1>1
<1>. QED
  BY <1>2, BackupStoreInvariant, PTL DEF Spec, UnionPolicy

\* When retention ends, no more than keep_last of the files beyond the age limit are left,
\* but for those that could not be looked at or removed (retention.go:44, 54-76, 108-113).
THEOREM RetentionCoversAll == Spec => []CleanupCoversAll
<1>1. ASSUME BackupStoreInv
      PROVE  CleanupCoversAll
  <2> SUFFICES ASSUME NEW n \in Names, stage[n] = "pruning", doomed[n] = {}
               PROVE  Cardinality({f \in Scope(n) \ failed[n] : \A own \in Own(n) :
                        cfg[n].days = 0 \/ f.mtime < own.mtime - cfg[n].days * DayLen - back})
                        <= cfg[n].keepLast
    BY DEF CleanupCoversAll
  <2>1. TypeOK /\ FilesInv /\ RunInv(n) /\ PruneInv(n)
    BY <1>1 DEF BackupStoreInv
  <2>2. PICK limit \in Nat : limit = cfg[n].days * DayLen
    BY <2>1, AgeLimit
  <2> DEFINE expired == {f \in Scope(n) \ failed[n] : \A own \in Own(n) :
                           cfg[n].days = 0 \/ f.mtime < own.mtime - limit - back}
  <2>3. PICK keep \in SUBSET Scope(n) :
               /\ Cardinality(keep) <= cfg[n].keepLast
               /\ \A f \in Scope(n) \ (keep \cup failed[n]), own \in Own(n) :
                    cfg[n].days > 0 /\ f.mtime >= own.mtime - limit - back
    BY <2>1, <2>2 DEF PruneInv
  <2>4. PICK own \in Own(n) : own \in files
    BY <2>1 DEF RunInv, Own
  <2>5. /\ own.mtime \in Nat /\ \A f \in Scope(n) : f.mtime \in Nat
        /\ limit \in Nat /\ back \in Nat /\ cfg[n].days \in Nat
    BY <2>1, <2>4, StoredNumbers, Numbers DEF Scope
  <2>6. expired \in SUBSET keep
    <3>1. ASSUME NEW f \in expired, f \notin keep
          PROVE  FALSE
      <4>1. f \in Scope(n) \ (keep \cup failed[n])
        BY <3>1
      <4>2. cfg[n].days > 0 /\ f.mtime >= own.mtime - limit - back
        BY <2>3, <4>1
      <4>3. cfg[n].days = 0 \/ f.mtime < own.mtime - limit - back
        OBVIOUS
      <4>. QED
        BY <2>5, <4>1, <4>2, <4>3
    <3>. QED
      BY <3>1
  <2>7. IsFiniteSet(keep)
    <3>1. keep \in SUBSET files
      BY DEF Scope
    <3>. QED
      BY <2>1, <3>1, FS_Subset DEF FilesInv
  <2> HIDE DEF expired
  <2>8. Cardinality(expired) \in Nat /\ Cardinality(keep) \in Nat
        /\ Cardinality(expired) <= Cardinality(keep)
    BY <2>6, <2>7, FS_Subset, FS_CardinalityType
  <2>9. cfg[n].keepLast \in Nat
    BY <2>1, Numbers
  <2>10. Cardinality(expired) <= cfg[n].keepLast
    BY <2>3, <2>8, <2>9
  <2>. QED
    BY <2>2, <2>10 DEF expired
<1>. QED
  BY <1>1, BackupStoreInvariant, PTL

\* A restore with --latest brings back the last backup reported when the command was given,
\* whole, or a file of a later run, unless local time was set back: through leftovers of
\* failed attempts, retention, later runs and crashes (restorer.go:69-97, 137-142).
THEOREM LatestRestoresTheReported == Spec => []LatestRestoresReported
<1>1. BackupStoreInv => LatestRestoresReported
  BY DEF BackupStoreInv, RestoreInv
<1>. QED
  BY <1>1, BackupStoreInvariant, PTL

\* A backup chosen and then gone has been replaced by that of a later run, unless it was an
\* unfinished upload (restorer.go:80-97).
THEOREM ReplacedBeforeVanishing == Spec => []VanishedWasReplaced
<1>1. BackupStoreInv => VanishedWasReplaced
  BY DEF BackupStoreInv, RestoreInv, TargetInv, VanishedWasReplaced
<1>. QED
  BY <1>1, BackupStoreInvariant, PTL

\* As long as local time has not been set back, --latest chooses a file of the latest run,
\* over midnight too (restorer.go:137-138).
THEOREM LatestIsNewestUntilSetBack == Spec => []LatestIsNewestByClock
<1>1. BackupStoreInv => LatestIsNewestByClock
  BY DEF BackupStoreInv, RestoreInv
<1>. QED
  BY <1>1, BackupStoreInvariant, PTL

==============================================================================
