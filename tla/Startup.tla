------------------------------- MODULE Startup -------------------------------
(***************************************************************************)
(* cmd/dumptruckd/main.go: what a process does from its flags to its exit  *)
(* code, in the daemon and in the modes that end by themselves.  It takes  *)
(* its configuration from the files (ConfigLoad) or from the environment   *)
(* (pkg/config/env.go), and each mode checks it in its own way before the  *)
(* first backup.  A run is one step here (BackupRun has its stages), and   *)
(* so is the daemon between its start and its signal (Scheduler).          *)
(***************************************************************************)
EXTENDS ConfigLoad

CONSTANTS
  Makeable,   \* adapters whose factory succeeds: its environment variables are there
  Local,      \* adapters that store locally: restore knows no other
  Wanted,     \* the backup `restore` is asked for
  Envs        \* the environments considered

ASSUME StartupAssumption ==
  /\ Makeable \subseteq Adapters /\ Local \subseteq Adapters
  /\ Wanted \in Names
  /\ Envs \subseteq [status : {"unset", "unusable", "usable"}, entry : Entries, health : BOOLEAN]

Modes == {"daemon", "once", "run-now", "dry-run", "dump-config", "test", "status", "restore"}

VARIABLES
  given,    \* -config names the main file
  env,      \* the DUMPTRUCKD_* variables
  mode,     \* the flag or subcommand
  phase,    \* where the process stands
  ran,      \* history: the outcome of each backup run, in order
  health,   \* the health server has been started
  code      \* the exit code

mainVars == <<given, env, mode, phase, ran, health, code>>
vars == <<loadVars, mainVars>>

TypeOK ==
  /\ LoadTypeOK
  /\ given \in BOOLEAN /\ env \in Envs /\ mode \in Modes
  /\ phase \in {"flags", "loading", "have", "logging", "starting", "running", "serving", "ended"}
  /\ ran \in Seq(BOOLEAN)
  /\ health \in BOOLEAN
  /\ code \in {0, 1}

Init ==
  /\ LoadInit
  /\ given \in BOOLEAN /\ env \in Envs /\ mode \in Modes
  /\ phase = "flags"
  /\ ran = <<>>
  /\ health = FALSE
  /\ code = 0

Exit(c) ==
  /\ phase' = "ended"
  /\ code' = c
  /\ health' = FALSE
  /\ UNCHANGED <<given, env, mode, ran>>

Proceed(p) ==
  /\ phase' = p
  /\ UNCHANGED <<given, env, mode, ran, health, code>>

------------------------------------------------------------------------------
(* The source of the configuration. *)

FromFile == given \/ disk[Main].status # "absent"

FindConfig ==
  /\ phase = "flags" /\ FromFile
  /\ Proceed("loading")
  /\ UNCHANGED loadVars

EnvConfig == [EmptyConfig EXCEPT !.backups = <<env.entry>>, !.health = env.health]

\* LoadFromEnv: it validates what it has built; a variable that is missing or does not
\* parse is an error.  -test reads files only.
LoadFromEnv ==
  /\ phase = "flags" /\ ~FromFile
  /\ \/ /\ env.status = "usable" /\ mode # "test" /\ Valid(EnvConfig)
        /\ cfg' = EnvConfig
        /\ Proceed("have")
        /\ UNCHANGED <<disk, loaded, todo, at>>
     \/ /\ env.status = "usable" /\ mode # "test" => ~Valid(EnvConfig)
        /\ Exit(1)
        /\ UNCHANGED loadVars

ReadFiles ==
  /\ phase = "loading"
  /\ Load
  /\ UNCHANGED mainVars

LoadEnds ==
  /\ phase = "loading"
  /\ \/ at = "loaded" /\ Proceed("have")
     \/ at = "failed" /\ Exit(1)
  /\ UNCHANGED loadVars

------------------------------------------------------------------------------
(* Modes that run no backup, in the order main looks at their flags. *)

\* `status` and --dump-config print and have no error path of their own.
Show ==
  /\ phase = "have" /\ mode \in {"status", "dump-config"}
  /\ Exit(0)
  /\ UNCHANGED loadVars

Defined == {cfg.defs[c] : c \in Comps} \ {None}
InUse   == {e.inline : e \in ToSet(cfg.backups)}

\* -test tries every backup, and of what is defined every database, compressor and
\* uploader, but a notifier only if a backup refers to it: which of the maps a component
\* stands in is left open.  It does not call Validate; what it connects to may fail.
Test ==
  /\ phase = "have" /\ mode = "test"
  /\ \E unused \in SUBSET Defined :
       \/ InUse \cup unused \subseteq Makeable /\ Exit(0)
       \/ InUse \cup unused # {} /\ Exit(1)
  /\ UNCHANGED loadVars

OpenLog ==
  /\ phase = "have" /\ mode \notin {"status", "dump-config", "test"}
  /\ \/ cfg.logging.opens /\ Proceed("logging")
     \/ ~cfg.logging.opens /\ Exit(1)
  /\ UNCHANGED loadVars

\* The first backup of that name, if it is stored locally; the restore itself may fail.
Restore ==
  /\ phase = "logging" /\ mode = "restore"
  /\ \/ \E i \in DOMAIN cfg.backups :
          /\ cfg.backups[i].name = Wanted /\ cfg.backups[i].inline \in Local
          /\ \A k \in 1..(i - 1) : cfg.backups[k].name # Wanted
          /\ Exit(0)
     \/ Exit(1)
  /\ UNCHANGED loadVars

EntriesMakeable == \A e \in ToSet(cfg.backups) : e.inline \in Makeable

\* runDryRun: Validate, then every adapter, bucket and notifier, counting the failures; a
\* bucket or a notifier may not answer.
DryRun ==
  /\ phase = "logging" /\ mode = "dry-run"
  /\ \/ Valid(cfg) /\ EntriesMakeable /\ Exit(0)
     \/ Exit(1)
  /\ UNCHANGED loadVars

------------------------------------------------------------------------------
(* --once and --run-now. *)

BeginRuns ==
  /\ phase = "logging" /\ mode \in {"once", "run-now"}
  /\ \/ Valid(cfg) /\ Proceed("running")
     \/ ~Valid(cfg) /\ Exit(1)
  /\ UNCHANGED loadVars

\* RunBackup makes its own adapters: there is no pre-flight check in these modes.
RunNext ==
  /\ phase = "running" /\ Len(ran) < Len(cfg.backups)
  /\ \E ok \in BOOLEAN :
       /\ ok => cfg.backups[Len(ran) + 1].inline \in Makeable
       /\ ran' = Append(ran, ok)
  /\ UNCHANGED <<loadVars, given, env, mode, phase, health, code>>

\* Faulty: the last outcome is the exit code.
EndRunsLast ==
  /\ phase = "running" /\ Len(ran) = Len(cfg.backups)
  /\ Exit(IF ran[Len(ran)] THEN 0 ELSE 1)
  /\ UNCHANGED loadVars

EndRuns ==
  /\ phase = "running" /\ Len(ran) = Len(cfg.backups)
  /\ Exit(IF FALSE \in ToSet(ran) THEN 1 ELSE 0)
  /\ UNCHANGED loadVars

------------------------------------------------------------------------------
(* The daemon. *)

\* The health server comes first; that its port is taken is only logged, so starting it
\* never fails.
StartHealth ==
  /\ phase = "logging" /\ mode = "daemon"
  /\ phase' = "starting"
  /\ health' = cfg.health
  /\ UNCHANGED <<loadVars, given, env, mode, ran, code>>

\* Faulty: one adapter that can be made is enough.
StartSchedulerOne ==
  /\ phase = "starting"
  /\ \/ /\ Valid(cfg) /\ \E e \in ToSet(cfg.backups) : e.inline \in Makeable
        /\ Proceed("serving")
     \/ ~(Valid(cfg) /\ EntriesMakeable) /\ Exit(1)
  /\ UNCHANGED loadVars

\* scheduler.Start: Validate and the pre-flight check of every adapter, then cron.
StartScheduler ==
  /\ phase = "starting"
  /\ \/ Valid(cfg) /\ EntriesMakeable /\ Proceed("serving")
     \/ ~(Valid(cfg) /\ EntriesMakeable) /\ Exit(1)
  /\ UNCHANGED loadVars

\* The signal, the drain and the end of the health server.
Signal ==
  /\ phase = "serving"
  /\ Exit(0)
  /\ UNCHANGED loadVars

Ended == phase = "ended" /\ UNCHANGED vars

Next ==
  \/ FindConfig \/ LoadFromEnv \/ ReadFiles \/ LoadEnds
  \/ Show \/ Test \/ OpenLog \/ Restore \/ DryRun
  \/ BeginRuns \/ RunNext \/ EndRuns
  \/ StartHealth \/ StartScheduler \/ Signal
  \/ Ended

Spec == Init /\ [][Next]_vars

------------------------------------------------------------------------------
(* What the user is told and may rely on. *)

Promised == IF FromFile THEN PromisedBackups ELSE <<env.entry>>

\* Everything written can be read and would pass the checks.
Sound ==
  /\ FromFile => \A f \in {Main} \cup ToSet(Sources) : disk[f].status = "ok"
  /\ Promised # <<>>
  /\ \A b \in ToSet(Promised) :
       b.name # Unnamed /\ b.wellFormed /\ b.inline \in Accepted

\* main.go:226-243, 364-383; docs/CONFIGURATION.md:433 "Exit code 0 on success, 1 if any
\* backup fails", 231 "When a config file exists ... environment variables are ignored
\* entirely".  A process of --once or --run-now exits with 0 exactly if every backup that the files (or
\* the environment) promise has run and succeeded; and when one fails, the others have
\* been run nonetheless.
ExitTellsOutcome ==
  phase = "ended" /\ mode \in {"once", "run-now"} =>
    /\ code = 0 <=> ran # <<>> /\ Len(ran) = Len(Promised) /\ FALSE \notin ToSet(ran)
    /\ ran # <<>> => Len(ran) = Len(Promised)

\* scheduler.go:152-174, main.go:221-224, 250-271, 359-362.  No backup is run or scheduled
\* unless everything that any source writes can be read and passes the checks; and a
\* daemon serves, and --dry-run passes, only if all adapters can be made, so that what
\* --dry-run has passed the daemon will start with.
StartedIsChecked ==
  /\ ran # <<>> => Sound
  /\ phase = "serving" \/ (phase = "ended" /\ code = 0 /\ mode \in {"daemon", "dry-run"}) =>
       Sound /\ \A b \in ToSet(Promised) : b.inline \in Makeable

HealthWanted == IF FromFile THEN disk[Main].text.health ELSE env.health

\* docs/CONFIGURATION.md:212-218 "[health] enabled = true" in the configuration file.  A
\* serving daemon whose main file, or environment, enables the health server has one.
HealthAsConfigured == phase = "serving" /\ HealthWanted => health

------------------------------------------------------------------------------
(* The inductive invariant behind the properties; StartupProofs proves it. *)

\* Past the loading, the configuration holds what its source promises.
SourceInv ==
  /\ phase = "flags" => at = "start"
  /\ phase \in {"flags", "loading"} /\ at = "start" => cfg = EmptyConfig
  /\ phase = "loading" => FromFile
  /\ phase \in {"have", "logging", "starting", "running", "serving"} =>
       IF FromFile THEN at = "loaded" ELSE cfg.backups = <<env.entry>>

\* Backups are run, or scheduled, by the modes that check them first.
ModeInv ==
  /\ phase \in {"starting", "serving"} => mode = "daemon"
  /\ phase = "serving" => Valid(cfg) /\ EntriesMakeable
  /\ phase = "running" =>
       mode \in {"once", "run-now"} /\ Valid(cfg) /\ Len(ran) <= Len(cfg.backups)
  /\ ran # <<>> => phase \in {"running", "ended"}

StartupInv ==
  TypeOK /\ LoadInv /\ SourceInv /\ ModeInv /\ ExitTellsOutcome /\ StartedIsChecked

==============================================================================
