----------------------------- MODULE BackupSlots -----------------------------
(***************************************************************************)
(* What the scheduler promises about concurrency, with nothing of how it   *)
(* keeps the promise: a backup name waits or runs at most once at a time,  *)
(* and at most Slots backups run at the same time                          *)
(* (pkg/scheduler/scheduler.go, "Per-job lock: skip if this job is already *)
(* running" and "Acquire semaphore slot").  Module Scheduler implements it *)
(* with goroutines, a mutex per name and a buffered channel.               *)
(***************************************************************************)
EXTENDS Integers, FiniteSets

CONSTANTS
  Names,   \* the backup names of the configuration
  Slots    \* how many backups may run at once (max_concurrent)

VARIABLES
  waiting, \* names whose backup was accepted and waits for a slot
  active   \* names whose backup occupies a slot

slotVars == <<waiting, active>>

SlotsTypeOK ==
  /\ waiting \subseteq Names
  /\ active \subseteq Names

SlotsInit ==
  /\ waiting = {}
  /\ active = {}

\* A name is accepted only when it is neither waiting nor running.
Claim(n) ==
  /\ n \notin waiting \cup active
  /\ waiting' = waiting \cup {n}
  /\ UNCHANGED active

\* A waiting backup takes a slot nobody occupies.
Begin(n) ==
  /\ n \in waiting
  /\ Cardinality(active) < Slots
  /\ waiting' = waiting \ {n}
  /\ active' = active \cup {n}

\* A backup that ends gives its slot back ...
Finish(n) ==
  /\ n \in active
  /\ active' = active \ {n}
  /\ UNCHANGED waiting

\* ... or hands it straight to a backup that waits.
HandOver(m, n) ==
  /\ m \in active
  /\ n \in waiting
  /\ waiting' = waiting \ {n}
  /\ active' = (active \ {m}) \cup {n}

SlotsNext ==
  \/ \E n \in Names : Claim(n) \/ Begin(n) \/ Finish(n)
  \/ \E m, n \in Names : HandOver(m, n)

SlotsSpec == SlotsInit /\ [][SlotsNext]_slotVars

==============================================================================
