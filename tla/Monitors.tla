------------------------------- MODULE Monitors -------------------------------
(***************************************************************************)
(* What a daemon remembers of its runs and tells about them: the sizes     *)
(* pkg/sizetrack compares, the records of pkg/health that runs write and   *)
(* HTTP handlers read under one sync.RWMutex, and the `status` command     *)
(* that asks for them (fetchHealthStatus and printStatusText in            *)
(* cmd/dumptruckd/status.go).  A handler writes to its client with the     *)
(* read lock held, so a slow client delays the runs.                       *)
(*                                                                         *)
(* A run is what it records: a failure, or a success and then its size.    *)
(* Runs of one backup exclude each other (Scheduler has the job locks).    *)
(***************************************************************************)
EXTENDS Integers, FiniteSets, SequencesExt, FiniteSetsExt

CONSTANTS
  Jobs,        \* names of backups
  Sizes,       \* of each backup: the sizes its files may have
  Unmeasured,  \* those whose file may be gone when it is to be measured
  Window,      \* sizes remembered of each backup
  MinPoints,   \* sizes needed before a deviation counts
  Threshold,   \* of each backup: the configured deviation in percent, 0 for none
  Clients,     \* requests that may be under way at once
  Trusted,     \* those with the right token
  Nobody,
  MaxRuns      \* bound on a behaviour: runs of each backup

ASSUME MonitorsAssumption ==
  /\ IsFiniteSet(Jobs) /\ IsFiniteSet(Clients)
  /\ Sizes \in [Jobs -> SUBSET Nat] /\ Unmeasured \subseteq Jobs
  /\ Window \in Nat \ {0} /\ MinPoints \in 1..Window
  /\ Threshold \in [Jobs -> Nat]
  /\ Trusted \subseteq Clients
  /\ Nobody \notin Jobs
  /\ MaxRuns \in [Jobs -> Nat]

VARIABLES
  step,      \* where the run of each backup stands
  history,   \* tracker: the last sizes
  alarm,     \* ... and whether the last one was an anomaly
  status,    \* health server: the record of each backup
  writer,    \* the run that holds or awaits the write lock
  handler,   \* the HTTP handler of each request
  copy,      \* what it has copied of the records
  shown,     \* what the status command has printed
  server,    \* http.Server
  log,       \* history: of each backup, everything recorded with the health server
  seen,      \* history: how long the logs have been since a request was made
  sizes      \* history: every size tracked

runVars  == <<step, history, alarm, sizes>>
httpVars == <<handler, copy, shown, seen>>
vars     == <<runVars, httpVars, status, writer, server, log>>

NoRecord == [runs |-> 0, fails |-> 0, consecutive |-> 0, size |-> 0]
Records  == [runs : Nat, fails : Nat, consecutive : Nat, size : Nat]

\* What a run waits for the write lock of the health server with.
Recording == {"success", "failure", "size"}

Events == [what : Recording, size : Nat]
Moment == [j \in Jobs |-> Len(log[j])]

TypeOK ==
  /\ step \in [Jobs -> {"idle", "tracking"} \cup Recording]
  /\ history \in [Jobs -> Seq(Nat)] /\ sizes \in [Jobs -> Seq(Nat)]
  /\ \A j \in Jobs : Len(history[j]) <= Window /\ sizes[j] \in Seq(Sizes[j])
  /\ alarm \in [Jobs -> BOOLEAN]
  /\ status \in [Jobs -> Records]
  /\ writer \in Jobs \cup {Nobody}
  /\ handler \in [Clients -> {"none", "blocked", "reading"}]
  /\ copy = [c \in Clients |-> copy[c]]
  /\ \A c \in Clients : \E S \in SUBSET Jobs : copy[c] \in [S -> Records]
  /\ shown \in [Clients -> {"asking", "NOT RUNNING", "RUNNING", "DEGRADED"}]
  /\ server \in {"up", "stopping", "down"}
  /\ log \in [Jobs -> Seq(Events)]
  /\ seen \in [Clients -> SUBSET [Jobs -> Nat]]

Nothing   == [j \in Jobs |-> <<>>]
NoRuns    == [j \in Jobs |-> "idle"]
NoAlarms  == [j \in Jobs |-> FALSE]
NoRecords == [j \in Jobs |-> NoRecord]

Init ==
  /\ step = NoRuns /\ alarm = NoAlarms /\ status = NoRecords
  /\ history = Nothing /\ sizes = Nothing /\ log = Nothing
  /\ writer = Nobody
  /\ handler = [c \in Clients |-> "none"]
  /\ copy = [c \in Clients |-> <<>>]
  /\ shown = [c \in Clients |-> "NOT RUNNING"]
  /\ seen = [c \in Clients |-> {}]
  /\ server = "up"

------------------------------------------------------------------------------
(* The tracker. *)

DefaultThreshold == 50
ThresholdOf(j) == IF Threshold[j] > 0 THEN Threshold[j] ELSE DefaultThreshold

Total(s) == FoldLeft(+, 0, s)
Distance(x, y) == IF x < y THEN y - x ELSE x - y

\* s deviates from the average of p by more than the threshold; an average of zero has no
\* deviation in percent.
Deviates(j, p, s) ==
  IF Total(p) = 0 THEN s # 0
  ELSE 100 * Distance(s * Len(p), Total(p)) > ThresholdOf(j) * Total(p)

\* Faulty: the new size is part of the average it is compared with.
AnomalousWithItself(j, s) ==
  Len(history[j]) >= MinPoints /\ Deviates(j, Append(history[j], s), s)

Anomalous(j, s) == Len(history[j]) >= MinPoints /\ Deviates(j, history[j], s)

\* Faulty: the window is never trimmed.
Untrimmed(s) == s

Trimmed(s) == SubSeq(s, Len(s) - (IF Len(s) > Window THEN Window ELSE Len(s)) + 1, Len(s))

------------------------------------------------------------------------------
(* Runs. *)

\* RWMutex.Lock: one writer at a time announces itself, at once if there is none.
Lock(j) == writer' = IF writer = Nobody THEN j ELSE writer

\* A run ends its pipeline and comes to record that; the watchdog's record of it is not
\* shown here.  No run begins once main stops the server, since cron has been stopped, and
\* one that ends its pipeline during the stop might as well have done so just before.
EndPipeline(j) ==
  /\ server = "up"
  /\ step[j] = "idle" /\ status[j].runs < MaxRuns[j]
  /\ \E outcome \in {"success", "failure"} : step' = [step EXCEPT ![j] = outcome]
  /\ Lock(j)
  /\ UNCHANGED <<history, alarm, sizes, httpVars, status, server, log>>

\* The turn of a writer that found another one.
Announce(j) ==
  /\ step[j] \in Recording /\ writer = Nobody
  /\ Lock(j)
  /\ UNCHANGED <<runVars, httpVars, status, server, log>>

\* The size a run has tracked is the tracker's last.
TrackedSize(j) == IF step[j] = "size" THEN Last(history[j]) ELSE 0

\* RecordSuccess, RecordFailure and RecordSize.
Recorded(j) ==
  CASE step[j] = "success" -> [status[j] EXCEPT !.runs = @ + 1, !.consecutive = 0]
    [] step[j] = "failure" ->
         [status[j] EXCEPT !.runs = @ + 1, !.fails = @ + 1, !.consecutive = @ + 1]
    [] step[j] = "size" -> [status[j] EXCEPT !.size = TrackedSize(j)]

\* Faulty: the writer does not wait for the readers.
WriteBesides(j) ==
  /\ writer = j
  /\ status' = [status EXCEPT ![j] = Recorded(j)]
  /\ log' = [log EXCEPT ![j] = Append(@, [what |-> step[j], size |-> TrackedSize(j)])]
  /\ seen' = [c \in Clients |->
               IF handler[c] = "none" THEN {} ELSE seen[c] \cup {[Moment EXCEPT ![j] = @ + 1]}]
  /\ step' = [step EXCEPT ![j] = IF @ = "success" THEN "tracking" ELSE "idle"]
  /\ writer' = Nobody
  /\ handler' = [c \in Clients |-> IF handler[c] = "blocked" THEN "reading" ELSE handler[c]]
  /\ UNCHANGED <<history, alarm, sizes, copy, shown, server>>

\* Once the readers have left, the writer has its turn; unlocking lets the readers in that
\* have come meanwhile, before the next writer.
Write(j) ==
  /\ writer = j /\ \A c \in Clients : handler[c] # "reading"
  /\ status' = [status EXCEPT ![j] = Recorded(j)]
  /\ log' = [log EXCEPT ![j] = Append(@, [what |-> step[j], size |-> TrackedSize(j)])]
  /\ seen' = [c \in Clients |->
               IF handler[c] = "none" THEN {} ELSE seen[c] \cup {[Moment EXCEPT ![j] = @ + 1]}]
  /\ step' = [step EXCEPT ![j] = IF @ = "success" THEN "tracking" ELSE "idle"]
  /\ writer' = Nobody
  /\ handler' = [c \in Clients |-> IF handler[c] = "blocked" THEN "reading" ELSE handler[c]]
  /\ UNCHANGED <<history, alarm, sizes, copy, shown, server>>

\* runSizeTrack: Record, before RecordSize; without a size, neither.
Track(j) ==
  /\ step[j] = "tracking"
  /\ \/ \E s \in Sizes[j] :
          /\ alarm' = [alarm EXCEPT ![j] = Anomalous(j, s)]
          /\ history' = [history EXCEPT ![j] = Trimmed(Append(@, s))]
          /\ sizes' = [sizes EXCEPT ![j] = Append(@, s)]
          /\ step' = [step EXCEPT ![j] = "size"]
          /\ Lock(j)
     \/ /\ j \in Unmeasured
        /\ step' = [step EXCEPT ![j] = "idle"]
        /\ UNCHANGED <<history, alarm, sizes, writer>>
  /\ UNCHANGED <<httpVars, status, server, log>>

------------------------------------------------------------------------------
(* Requests of the status command; those for /metrics take the same lock. *)

\* Faulty: a reader does not wait for the writer that waits.
AskBarging(c) ==
  /\ handler[c] = "none" /\ shown[c] # "asking"
  /\ IF server = "up" /\ c \in Trusted
     THEN /\ shown' = [shown EXCEPT ![c] = "asking"]
          /\ handler' = [handler EXCEPT ![c] = "reading"]
          /\ seen' = [seen EXCEPT ![c] = {Moment}]
     ELSE /\ shown' = [shown EXCEPT ![c] = "NOT RUNNING"]
          /\ UNCHANGED <<handler, seen>>
  /\ UNCHANGED <<runVars, copy, status, writer, server, log>>

\* A connection that is refused and one that is unauthorized show the same.
Ask(c) ==
  /\ handler[c] = "none" /\ shown[c] # "asking"
  /\ IF server = "up" /\ c \in Trusted
     THEN /\ shown' = [shown EXCEPT ![c] = "asking"]
          /\ handler' = [handler EXCEPT ![c] = IF writer = Nobody THEN "reading" ELSE "blocked"]
          /\ seen' = [seen EXCEPT ![c] = {Moment}]
     ELSE /\ shown' = [shown EXCEPT ![c] = "NOT RUNNING"]
          /\ UNCHANGED <<handler, seen>>
  /\ UNCHANGED <<runVars, copy, status, writer, server, log>>

\* handleHealth goes through the map, in any order.
Copy(c) ==
  /\ handler[c] = "reading"
  /\ \E j \in Jobs \ DOMAIN copy[c] :
       copy' = [copy EXCEPT ![c] = [i \in DOMAIN @ \cup {j} |-> IF i = j THEN status[j] ELSE @[i]]]
  /\ UNCHANGED <<runVars, handler, shown, seen, status, writer, server, log>>

Report(rec) == IF \E j \in Jobs : rec[j].consecutive >= 3 THEN "DEGRADED" ELSE "RUNNING"

\* The handler ends and its deferred call releases the lock.
EndHandler(c) ==
  /\ handler[c] = "reading" /\ DOMAIN copy[c] = Jobs
  /\ handler' = [handler EXCEPT ![c] = "none"]
  /\ copy' = [copy EXCEPT ![c] = <<>>]
  /\ seen' = [seen EXCEPT ![c] = {}]
  /\ UNCHANGED <<runVars, status, writer, server, log>>

\* The reply is written, and printed if the client still waits for it.
Answer(c) ==
  /\ EndHandler(c)
  /\ shown' = [shown EXCEPT ![c] = IF @ = "asking" THEN Report(copy[c]) ELSE @]

\* The client does not read, or has gone: WriteTimeout ends the handler.
WriteTimeout(c) ==
  /\ EndHandler(c)
  /\ shown' = [shown EXCEPT ![c] = IF @ = "asking" THEN "NOT RUNNING" ELSE @]

\* The three seconds of fetchHealthStatus are over; the handler goes on.
GiveUp(c) ==
  /\ shown[c] = "asking"
  /\ shown' = [shown EXCEPT ![c] = "NOT RUNNING"]
  /\ UNCHANGED <<runVars, handler, copy, seen, status, writer, server, log>>

\* Shutdown stops listening and waits for the handlers; then main returns, and what the
\* process remembers and the runs under way are gone.
BeginStop ==
  /\ server = "up"
  /\ server' = "stopping"
  /\ UNCHANGED <<runVars, httpVars, status, writer, log>>

EndStop ==
  /\ server = "stopping" /\ \A c \in Clients : handler[c] = "none"
  /\ server' = "down"
  /\ step' = NoRuns /\ alarm' = NoAlarms /\ status' = NoRecords
  /\ history' = Nothing /\ sizes' = Nothing /\ log' = Nothing
  /\ writer' = Nobody
  /\ UNCHANGED httpVars

------------------------------------------------------------------------------
GoOn(j)   == Announce(j) \/ Write(j) \/ Track(j)
Handle(c) == Copy(c) \/ Answer(c) \/ WriteTimeout(c)

Next ==
  \/ \E j \in Jobs : EndPipeline(j) \/ GoOn(j)
  \/ \E c \in Clients : Ask(c) \/ Handle(c) \/ GiveUp(c)
  \/ BeginStop \/ EndStop

Spec == Init /\ [][Next]_vars

\* Runs go on, the mutex is handed over, and a handler ends with its reply or with its
\* WriteTimeout; nothing makes a client ask or an operator stop the daemon.
Fairness ==
  /\ \A j \in Jobs : WF_vars(GoOn(j))
  /\ \A c \in Clients : WF_vars(Handle(c))
  /\ WF_vars(EndStop)

FairSpec == Spec /\ Fairness

------------------------------------------------------------------------------
(* What may be relied on. *)

\* sizetrack/tracker.go:59-119, docs/CONFIGURATION.md:399.  Judged by every size tracked
\* since the start: the last one of a backup is an anomaly exactly if at least MinPoints
\* came before it and it lies outside the threshold around the average of the last Window
\* of those; after an average of zero, exactly if it is not zero.
AnomaliesAreTrue ==
  \A j \in Jobs : sizes[j] # <<>> =>
    LET before == Len(sizes[j]) - 1
        recent == {i \in 1..before : i > before - Window}
        n      == Cardinality(recent)
        sum    == MapThenSumSet(LAMBDA i : sizes[j][i], recent)
        scaled == 100 * n * Last(sizes[j])
        t      == ThresholdOf(j)
    IN  alarm[j] <=> before >= MinPoints /\ scaled \notin ((100 - t) * sum)..((100 + t) * sum)

\* The entries of one kind among the first n of a backup's log, and the last success.
EntriesAt(j, n, what) == {i \in 1..n : log[j][i].what = what}
LastGood(j, n) == Max({0} \cup EntriesAt(j, n, "success"))

\* The record of a backup as the first n entries of its log have it.
RecordAt(j, n) ==
  [runs |-> Cardinality(EntriesAt(j, n, "success") \cup EntriesAt(j, n, "failure")),
   fails |-> Cardinality(EntriesAt(j, n, "failure")),
   consecutive |-> Cardinality({i \in EntriesAt(j, n, "failure") : i > LastGood(j, n)}),
   size |-> IF EntriesAt(j, n, "size") = {} THEN 0
            ELSE log[j][Max(EntriesAt(j, n, "size"))].size]

\* health.go:185-208, status.go:76-125, README.md:298.  What `status` prints of a daemon is
\* what the records of all backups were at one moment between its request and its reply,
\* although runs go on and the handler copies the records one by one; and it prints
\* DEGRADED exactly if at that moment some backup had failed three times since it last
\* succeeded.
RepliesAreTrue ==
  [][\A c \in Clients : shown[c] = "asking" /\ shown'[c] \in {"RUNNING", "DEGRADED"} =>
       \E m \in seen[c] :
         /\ copy[c] = [j \in Jobs |-> RecordAt(j, m[j])]
         /\ shown'[c] = "DEGRADED" <=> \E j \in Jobs : RecordAt(j, m[j]).consecutive >= 3]_vars

\* health.go:155-160, 162-169, 186-187.  Clients that do not read and clients that keep
\* coming hold up the run that waits for the lock by no more than the write timeouts of the
\* handlers before it; and the shutdown of the server, which has no timeout, ends.
MonitoringNeverHangs ==
  (writer # Nobody \/ server = "stopping") ~> (writer = Nobody /\ server # "stopping")

------------------------------------------------------------------------------
(* The inductive invariant behind the properties; MonitorsProofs proves it. *)

\* Who holds or awaits the lock has something to record, and a reader waits only for a
\* writer.
LockInv ==
  /\ writer # Nobody => step[writer] \in Recording
  /\ \A c \in Clients : handler[c] = "blocked" => writer # Nobody

\* What a reader has copied is what the records still are, and the present moment is one
\* that each request has seen.
ReadersInv ==
  \A c \in Clients :
    /\ \A j \in DOMAIN copy[c] : copy[c][j] = status[j]
    /\ handler[c] # "reading" => DOMAIN copy[c] = {}
    /\ handler[c] # "none" => Moment \in seen[c]
    /\ shown[c] = "asking" => handler[c] # "none"

\* The records are those of the whole logs.
RecordsInv == \A j \in Jobs : status[j] = RecordAt(j, Len(log[j]))

\* The tracker remembers the last sizes of all, and has judged the last one by those
\* before it.
TrackerInv ==
  \A j \in Jobs :
    /\ history[j] = Trimmed(sizes[j])
    /\ step[j] = "size" => sizes[j] # <<>>
    /\ sizes[j] # <<>> =>
         LET recent == Trimmed(Front(sizes[j]))
         IN  alarm[j] <=> Len(recent) >= MinPoints /\ Deviates(j, recent, Last(sizes[j]))

MonitorsInv == TypeOK /\ LockInv /\ ReadersInv /\ RecordsInv /\ TrackerInv

==============================================================================
