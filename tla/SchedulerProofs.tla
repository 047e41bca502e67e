--------------------------- MODULE SchedulerProofs ---------------------------
(***************************************************************************)
(* Proofs about Scheduler for every set of names, every finite set of runs *)
(* and every number of slots.                                              *)
(***************************************************************************)
EXTENDS Scheduler, FiniteSetTheorems, TLAPS

USE DEF Waiting, InRunBackup, Occupying, HoldingLock, InGroup, Points

------------------------------------------------------------------------------
(* A run that is in a set of points is counted there. *)

\* A run that is in a set of points is counted there.
LEMMA Counted ==
  ASSUME NEW S, NEW r \in At(S)
  PROVE  /\ IsFiniteSet(At(S))
         /\ Cardinality(At(S)) \in Nat \ {0}
<1>1. IsFiniteSet(At(S))
  BY SchedulerAssumption, FS_Subset DEF SchedulerAssumption, At
<1>2. Cardinality(At(S)) \in Nat
  BY <1>1, FS_CardinalityType
<1>3. Cardinality(At(S)) # 0
  BY <1>1, FS_EmptySet
<1>. QED
  BY <1>1, <1>2, <1>3

------------------------------------------------------------------------------
(* Every variable keeps its type (scheduler.go:48-68). *)

\* The initial state of a new scheduler is well typed (scheduler.go:71-92).
LEMMA TypeInit == Init => TypeOK
<1>1. <<>> \in Seq(Runs)
  OBVIOUS
<1>2. Slots \in Nat
  BY SchedulerAssumption DEF SchedulerAssumption
<1>3. [n \in Names |-> [runs |-> 0, fails |-> 0, consecutive |-> 0]]
        \in [Names -> [runs : Nat, fails : Nat, consecutive : Nat]]
  OBVIOUS
<1>4. 0 \in 0..Slots
  BY <1>2
<1>5. Init => health \in [Names -> [runs : Nat, fails : Nat, consecutive : Nat]]
  BY <1>3 DEF Init
<1>6. Init => wdFails \in [Names -> Nat] /\ locked \in [Names -> BOOLEAN]
  BY DEF Init
<1>7. Init => pc \in [Runs -> Points]
              /\ outcome \in [Runs -> {"none", "skipped", "ok", "failed"}]
  BY DEF Init
<1>8. Init => /\ tokens \in 0..Slots
              /\ wg \in Nat
              /\ owed \subseteq Runs
  BY <1>4 DEF Init
<1>9. Init => sendq \in Seq(Runs)
  BY <1>1 DEF Init
<1>10. Init => /\ daemon = "starting"
               /\ waiter = "none"
               /\ verdict = "none"
  BY DEF Init
<1>11. Init => cancelled \in BOOLEAN
  BY DEF Init
<1>. QED
  BY <1>5, <1>6, <1>7, <1>8, <1>9, <1>10, <1>11 DEF TypeOK

\* A step of a run goroutine keeps the types (scheduler.go:262-293).
LEMMA TypeRunStep ==
  ASSUME TypeOK, SlotAccounting, GroupInv, NEW r \in Runs, RunStep(r)
  PROVE  TypeOK'
<1> USE SchedulerAssumption DEF SchedulerAssumption, TypeOK, Step, GoTo, daemonVars, monitorVars
<1>1. CASE Launch(r)
  BY <1>1 DEF Launch
<1>2. CASE Enter(r)
  BY <1>2 DEF Enter
<1>3. CASE TryLock(r)
  BY <1>3 DEF TryLock
<1>4. CASE Skip(r)
  BY <1>4 DEF Skip
<1>5. CASE AcquireSlot(r)
  BY <1>5 DEF AcquireSlot
<1>6. CASE JoinQueue(r)
  BY <1>6 DEF JoinQueue
<1>7. CASE RecordSuccessWatchdog(r)
  BY <1>7 DEF RecordSuccessWatchdog
<1>8. CASE RecordSuccessHealth(r)
  BY <1>8 DEF RecordSuccessHealth
<1>9. CASE ReturnNil(r)
  BY <1>9 DEF ReturnNil
<1>10. CASE ReturnError(r)
  BY <1>10 DEF ReturnError
<1>11. CASE RecordFailureWatchdog(r)
  BY <1>11 DEF RecordFailureWatchdog
<1>12. CASE RecordFailureHealth(r)
  BY <1>12 DEF RecordFailureHealth
<1>13. CASE NotifyFailure(r)
  BY <1>13 DEF NotifyFailure
<1>14. CASE ReleaseSlot(r)
  <2>1. tokens \in Nat \ {0}
    BY <1>14, Counted DEF ReleaseSlot, SlotAccounting, At
  <2>. QED
    BY <1>14, <2>1 DEF ReleaseSlot
<1>15. CASE PassSlot(r)
  <2>1. Tail(sendq) \in Seq(Runs)
    BY <1>15 DEF PassSlot
  <2>2. pc' \in [Runs -> Points]
    BY <1>15 DEF PassSlot
  <2>. QED
    BY <1>15, <2>1, <2>2 DEF PassSlot
<1>16. CASE Unlock(r)
  BY <1>16 DEF Unlock
<1>17. CASE Leave(r)
  <2>1. wg \in Nat \ {0}
    BY <1>17, Counted DEF Leave, GroupInv, At
  <2>. QED
    BY <1>17, <2>1 DEF Leave
<1>18. CASE WakeWaiter(r)
  BY <1>18 DEF WakeWaiter
<1>. QED
  BY <1>1, <1>2, <1>3, <1>4, <1>5, <1>6, <1>7, <1>8, <1>9, <1>10, <1>11, <1>12,
     <1>13, <1>14, <1>15, <1>16, <1>17, <1>18 DEF RunStep

\* A step of the daemon, of the signal handler or of the drain keeps the types
\* (scheduler.go:151-224).
LEMMA TypeDaemonStep ==
  ASSUME TypeOK, Signal \/ DaemonStep \/ WaiterStep
  PROVE  TypeOK'
<1> USE SchedulerAssumption DEF SchedulerAssumption, TypeOK, runVars, monitorVars
<1>1. CASE Signal
  BY <1>1 DEF Signal
<1>2. CASE Refuse
  BY <1>2 DEF Refuse
<1>3. CASE StartCron
  BY <1>3 DEF StartCron
<1>4. CASE StopCron
  BY <1>4 DEF StopCron
<1>5. CASE BeginDrain
  BY <1>5 DEF BeginDrain, At
<1>6. CASE ReturnClean
  BY <1>6 DEF ReturnClean
<1>7. CASE ReturnTimeout
  BY <1>7 DEF ReturnTimeout
<1>8. CASE Exit
  BY <1>8 DEF Exit
<1>9. CASE CallWait
  BY <1>9 DEF CallWait
<1>10. CASE ResumeWait
  BY <1>10 DEF ResumeWait
<1>11. CASE CloseDone
  BY <1>11 DEF CloseDone
<1>. QED
  BY <1>1, <1>2, <1>3, <1>4, <1>5, <1>6, <1>7, <1>8, <1>9, <1>10, <1>11
     DEF DaemonStep, WaiterStep

------------------------------------------------------------------------------
(* What one step of one goroutine does to a set of program points. *)

\* A step of one goroutine changes the set of runs at some points by that run at most.
LEMMA Moved ==
  ASSUME TypeOK, NEW r \in Runs, NEW from, NEW to, Step(r, from, to), NEW S
  PROVE  /\ from \in S /\ to \in S => At(S)' = At(S)
         /\ from \notin S /\ to \notin S => At(S)' = At(S)
         /\ from \notin S /\ to \in S => r \notin At(S) /\ At(S)' = At(S) \cup {r}
         /\ from \in S /\ to \notin S => r \in At(S) /\ At(S)' = At(S) \ {r}
  BY DEF Step, GoTo, At, TypeOK

\* The size of such a set changes by one when the run enters or leaves it.
LEMMA CountedMove ==
  ASSUME TypeOK, NEW r \in Runs, NEW from, NEW to, Step(r, from, to), NEW S
  PROVE  /\ Cardinality(At(S)) \in Nat
         /\ (from \in S <=> to \in S) => Cardinality(At(S))' = Cardinality(At(S))
         /\ from \notin S /\ to \in S => Cardinality(At(S))' = Cardinality(At(S)) + 1
         /\ from \in S /\ to \notin S => Cardinality(At(S))' = Cardinality(At(S)) - 1
<1>1. IsFiniteSet(At(S)) /\ Cardinality(At(S)) \in Nat
  BY SchedulerAssumption, FS_Subset, FS_CardinalityType DEF SchedulerAssumption, At
<1>2. (from \in S <=> to \in S) => At(S)' = At(S)
  BY Moved
<1>3. ASSUME from \notin S, to \in S
      PROVE  Cardinality(At(S))' = Cardinality(At(S)) + 1
  BY <1>1, <1>3, Moved, FS_AddElement
<1>4. ASSUME from \in S, to \notin S
      PROVE  Cardinality(At(S))' = Cardinality(At(S)) - 1
  BY <1>1, <1>4, Moved, FS_RemoveElement
<1>. QED
  BY <1>1, <1>2, <1>3, <1>4

\* The queue's head leaves it for a slot while the run that hands the slot over leaves
\* its own.
LEMMA PassSlotEffect ==
  ASSUME TypeOK, QueueInv, NEW r \in Runs, PassSlot(r)
  PROVE  /\ Head(sendq) \in Runs
         /\ pc[Head(sendq)] = "queued"
         /\ Head(sendq) # r
         /\ pc' = [pc EXCEPT ![r] = "unlocking", ![Head(sendq)] = "working"]
<1>1. Len(sendq) \in Nat \ {0} /\ Head(sendq) = sendq[1]
  BY DEF PassSlot, TypeOK
<1>2. Head(sendq) \in Runs
  BY <1>1 DEF TypeOK
<1>3. pc[Head(sendq)] = "queued"
  BY <1>1 DEF QueueInv, At
<1>. QED
  BY <1>2, <1>3 DEF PassSlot

------------------------------------------------------------------------------
(* The channel: one token per occupied slot, and no sender blocked beside a free one. *)

\* A step of a run keeps one token per occupied slot (scheduler.go:278-279).
LEMMA SlotsRunStep ==
  ASSUME TypeOK, SlotAccounting, QueueInv, NEW r \in Runs, RunStep(r)
  PROVE  SlotAccounting'
<1> USE DEF SlotAccounting
<1>1. CASE Launch(r)
  BY <1>1, CountedMove DEF Launch
<1>2. CASE Enter(r)
  BY <1>2, CountedMove DEF Enter
<1>3. CASE TryLock(r)
  BY <1>3, CountedMove DEF TryLock
<1>4. CASE Skip(r)
  BY <1>4, CountedMove DEF Skip
<1>5. CASE AcquireSlot(r)
  <2>1. Step(r, "claimed", "working") /\ tokens' = tokens + 1 /\ sendq' = sendq
    BY <1>5 DEF AcquireSlot
  <2>2. sendq = <<>>
    BY <1>5, SchedulerAssumption DEF SchedulerAssumption, AcquireSlot, TypeOK
  <2>3. Cardinality(At(Occupying))' = Cardinality(At(Occupying)) + 1
    BY <2>1, CountedMove
  <2>. QED
    BY <2>1, <2>2, <2>3
<1>6. CASE JoinQueue(r)
  <2>1. Step(r, "claimed", "queued") /\ tokens' = tokens /\ tokens = Slots
    BY <1>6 DEF JoinQueue
  <2>2. "claimed" \notin Occupying /\ "queued" \notin Occupying
    OBVIOUS
  <2>3. Cardinality(At(Occupying))' = Cardinality(At(Occupying))
    BY ZenonT(60), <2>1, <2>2, CountedMove
  <2>. QED
    BY <2>1, <2>3
<1>7. CASE RecordSuccessWatchdog(r)
  BY <1>7, CountedMove DEF RecordSuccessWatchdog
<1>8. CASE RecordSuccessHealth(r)
  BY <1>8, CountedMove DEF RecordSuccessHealth
<1>9. CASE ReturnNil(r)
  BY <1>9, CountedMove DEF ReturnNil
<1>10. CASE ReturnError(r)
  BY <1>10, CountedMove DEF ReturnError
<1>11. CASE RecordFailureWatchdog(r)
  BY <1>11, CountedMove DEF RecordFailureWatchdog
<1>12. CASE RecordFailureHealth(r)
  BY <1>12, CountedMove DEF RecordFailureHealth
<1>13. CASE NotifyFailure(r)
  BY <1>13, CountedMove DEF NotifyFailure
<1>14. CASE ReleaseSlot(r)
  BY <1>14, CountedMove DEF ReleaseSlot
<1>15. CASE PassSlot(r)
  <2> DEFINE h == Head(sendq)
  <2>1. h \in Runs /\ pc[h] = "queued" /\ h # r /\ pc[r] = "releasing"
    BY <1>15, PassSlotEffect DEF PassSlot
  <2>2. r \in At(Occupying) /\ h \notin At(Occupying)
    BY <2>1 DEF At
  <2>3. At(Occupying)' = (At(Occupying) \ {r}) \cup {h}
    BY <1>15, <2>1, PassSlotEffect DEF At, TypeOK
  <2>4. IsFiniteSet(At(Occupying)) /\ Cardinality(At(Occupying)) \in Nat
    BY <2>2, Counted
  <2>5. /\ IsFiniteSet(At(Occupying) \ {r})
        /\ Cardinality(At(Occupying) \ {r}) = Cardinality(At(Occupying)) - 1
    BY <2>2, <2>4, FS_RemoveElement
  <2>6. Cardinality((At(Occupying) \ {r}) \cup {h}) = Cardinality(At(Occupying) \ {r}) + 1
    BY <2>2, <2>5, FS_AddElement
  <2>7. Cardinality((At(Occupying) \ {r}) \cup {h}) = Cardinality(At(Occupying))
    <3> HIDE DEF Occupying, h
    <3>. QED
      BY <2>4, <2>5, <2>6
  <2>8. tokens' = tokens /\ tokens = Slots
    BY <1>15 DEF PassSlot
  <2>. QED
    BY <2>3, <2>7, <2>8
<1>16. CASE Unlock(r)
  BY <1>16, CountedMove DEF Unlock
<1>17. CASE Leave(r)
  BY <1>17, CountedMove DEF Leave
<1>18. CASE WakeWaiter(r)
  BY <1>18, CountedMove DEF WakeWaiter
<1>. QED
  BY <1>1, <1>2, <1>3, <1>4, <1>5, <1>6, <1>7, <1>8, <1>9, <1>10, <1>11, <1>12,
     <1>13, <1>14, <1>15, <1>16, <1>17, <1>18 DEF RunStep

------------------------------------------------------------------------------
(* The WaitGroup counts the runs between Add and Done. *)

\* A step of a run keeps the WaitGroup's count exact (scheduler.go:266-267).
LEMMA GroupRunStep ==
  ASSUME TypeOK, GroupInv, QueueInv, NEW r \in Runs, RunStep(r)
  PROVE  GroupInv'
<1> USE DEF GroupInv
<1>1. CASE Launch(r)
  BY <1>1, CountedMove DEF Launch
<1>2. CASE Enter(r)
  BY <1>2, CountedMove DEF Enter
<1>3. CASE TryLock(r)
  BY <1>3, CountedMove DEF TryLock
<1>4. CASE Skip(r)
  BY <1>4, CountedMove DEF Skip
<1>5. CASE AcquireSlot(r)
  BY <1>5, CountedMove DEF AcquireSlot
<1>6. CASE JoinQueue(r)
  BY <1>6, CountedMove DEF JoinQueue
<1>7. CASE RecordSuccessWatchdog(r)
  BY <1>7, CountedMove DEF RecordSuccessWatchdog
<1>8. CASE RecordSuccessHealth(r)
  BY <1>8, CountedMove DEF RecordSuccessHealth
<1>9. CASE ReturnNil(r)
  BY <1>9, CountedMove DEF ReturnNil
<1>10. CASE ReturnError(r)
  BY <1>10, CountedMove DEF ReturnError
<1>11. CASE RecordFailureWatchdog(r)
  BY <1>11, CountedMove DEF RecordFailureWatchdog
<1>12. CASE RecordFailureHealth(r)
  BY <1>12, CountedMove DEF RecordFailureHealth
<1>13. CASE NotifyFailure(r)
  BY <1>13, CountedMove DEF NotifyFailure
<1>14. CASE ReleaseSlot(r)
  BY <1>14, CountedMove DEF ReleaseSlot
<1>15. CASE PassSlot(r)
  <2>1. At(InGroup)' = At(InGroup)
    BY <1>15, PassSlotEffect DEF PassSlot, At, TypeOK
  <2>. QED
    BY <1>15, <2>1 DEF PassSlot
<1>16. CASE Unlock(r)
  BY <1>16, CountedMove DEF Unlock
<1>17. CASE Leave(r)
  <2>1. (IF wg = 1 /\ waiter = "blocked" THEN "waking" ELSE "done") \notin InGroup
    OBVIOUS
  <2>. QED
    BY <1>17, <2>1, CountedMove DEF Leave
<1>18. CASE WakeWaiter(r)
  BY <1>18, CountedMove DEF WakeWaiter
<1>. QED
  BY <1>1, <1>2, <1>3, <1>4, <1>5, <1>6, <1>7, <1>8, <1>9, <1>10, <1>11, <1>12,
     <1>13, <1>14, <1>15, <1>16, <1>17, <1>18 DEF RunStep

------------------------------------------------------------------------------
(* The mutexes: locked exactly while one run of the name holds the lock. *)

\* A step of a run keeps each mutex locked exactly while one run of the name holds it
\* (scheduler.go:270-275).
LEMMA LockRunStep ==
  ASSUME TypeOK, LockInv, QueueInv, NEW r \in Runs, RunStep(r)
  PROVE  LockInv'
<1> USE SchedulerAssumption DEF SchedulerAssumption, LockInv, JobMutex
<1>a. ASSUME At(HoldingLock)' = At(HoldingLock), locked' = locked
      PROVE  LockInv'
  BY <1>a
<1>1. CASE Launch(r)
  BY <1>1, <1>a, Moved DEF Launch
<1>2. CASE Enter(r)
  BY <1>2, <1>a, Moved DEF Enter
<1>3. CASE TryLock(r)
  <2>1. At(HoldingLock)' = At(HoldingLock) \cup {r}
    BY <1>3, Moved DEF TryLock
  <2>2. locked' = [locked EXCEPT ![NameOf[r]] = TRUE] /\ ~locked[NameOf[r]]
    BY <1>3 DEF TryLock
  <2>3. ~ \E s \in At(HoldingLock) : NameOf[s] = NameOf[r]
    BY <2>2
  <2>4. JobMutex'
    <3> SUFFICES ASSUME NEW s \in Runs, NEW t \in Runs, s # t, NameOf[s] = NameOf[t],
                        s \in At(HoldingLock)', t \in At(HoldingLock)'
                 PROVE  FALSE
      OBVIOUS
    <3>1. s \in At(HoldingLock) \cup {r} /\ t \in At(HoldingLock) \cup {r}
      BY <2>1
    <3>. QED
      BY <2>3, <3>1
  <2>5. ASSUME NEW n \in Names
        PROVE  locked'[n] <=> \E s \in At(HoldingLock)' : NameOf[s] = n
    <3>1. CASE n = NameOf[r]
      BY <2>1, <2>2, <3>1 DEF TypeOK
    <3>2. CASE n # NameOf[r]
      BY <2>1, <2>2, <3>2 DEF TypeOK
    <3>. QED
      BY <3>1, <3>2
  <2>. QED
    BY <2>4, <2>5
<1>4. CASE Skip(r)
  BY <1>4, <1>a, Moved DEF Skip
<1>5. CASE AcquireSlot(r)
  BY <1>5, <1>a, Moved DEF AcquireSlot
<1>6. CASE JoinQueue(r)
  BY <1>6, <1>a, Moved DEF JoinQueue
<1>7. CASE RecordSuccessWatchdog(r)
  BY <1>7, <1>a, Moved DEF RecordSuccessWatchdog
<1>8. CASE RecordSuccessHealth(r)
  BY <1>8, <1>a, Moved DEF RecordSuccessHealth
<1>9. CASE ReturnNil(r)
  BY <1>9, <1>a, Moved DEF ReturnNil
<1>10. CASE ReturnError(r)
  BY <1>10, <1>a, Moved DEF ReturnError
<1>11. CASE RecordFailureWatchdog(r)
  BY <1>11, <1>a, Moved DEF RecordFailureWatchdog
<1>12. CASE RecordFailureHealth(r)
  BY <1>12, <1>a, Moved DEF RecordFailureHealth
<1>13. CASE NotifyFailure(r)
  BY <1>13, <1>a, Moved DEF NotifyFailure
<1>14. CASE ReleaseSlot(r)
  BY <1>14, <1>a, Moved DEF ReleaseSlot
<1>15. CASE PassSlot(r)
  <2>1. At(HoldingLock)' = At(HoldingLock)
    BY ZenonT(60), <1>15, PassSlotEffect DEF PassSlot, At, TypeOK
  <2>. QED
    BY <1>15, <1>a, <2>1 DEF PassSlot
<1>16. CASE Unlock(r)
  <2>1. At(HoldingLock)' = At(HoldingLock) \ {r} /\ r \in At(HoldingLock)
    BY <1>16, Moved DEF Unlock
  <2>2. locked' = [locked EXCEPT ![NameOf[r]] = FALSE]
    BY <1>16 DEF Unlock
  <2>. QED
    BY <2>1, <2>2 DEF TypeOK, At
<1>17. CASE Leave(r)
  BY <1>17, <1>a, Moved DEF Leave
<1>18. CASE WakeWaiter(r)
  BY <1>18, <1>a, Moved DEF WakeWaiter
<1>. QED
  BY <1>1, <1>2, <1>3, <1>4, <1>5, <1>6, <1>7, <1>8, <1>9, <1>10, <1>11, <1>12,
     <1>13, <1>14, <1>15, <1>16, <1>17, <1>18 DEF RunStep

------------------------------------------------------------------------------
(* The queue of blocked senders. *)

\* A step of a run keeps the queue a list of the blocked runs (scheduler.go:278-279).
LEMMA QueueRunStep ==
  ASSUME TypeOK, QueueInv, NEW r \in Runs, RunStep(r)
  PROVE  QueueInv'
<1>a. ASSUME At({"queued"})' = At({"queued"}), sendq' = sendq
      PROVE  QueueInv'
  BY <1>a DEF QueueInv
<1>1. CASE Launch(r)
  BY <1>1, <1>a, Moved DEF Launch
<1>2. CASE Enter(r)
  BY <1>2, <1>a, Moved DEF Enter
<1>3. CASE TryLock(r)
  BY <1>3, <1>a, Moved DEF TryLock
<1>4. CASE Skip(r)
  BY <1>4, <1>a, Moved DEF Skip
<1>5. CASE AcquireSlot(r)
  BY <1>5, <1>a, Moved DEF AcquireSlot
<1>6. CASE JoinQueue(r)
  <2>1. At({"queued"})' = At({"queued"}) \cup {r} /\ r \notin At({"queued"})
    BY <1>6, Moved DEF JoinQueue
  <2>2. /\ Len(sendq) \in Nat
        /\ Len(sendq') = Len(sendq) + 1
        /\ \A i \in 1..Len(sendq) : sendq'[i] = sendq[i]
        /\ sendq'[Len(sendq) + 1] = r
    BY <1>6 DEF JoinQueue, TypeOK
  <2>. QED
    BY <2>1, <2>2 DEF QueueInv
<1>7. CASE RecordSuccessWatchdog(r)
  BY <1>7, <1>a, Moved DEF RecordSuccessWatchdog
<1>8. CASE RecordSuccessHealth(r)
  BY <1>8, <1>a, Moved DEF RecordSuccessHealth
<1>9. CASE ReturnNil(r)
  BY <1>9, <1>a, Moved DEF ReturnNil
<1>10. CASE ReturnError(r)
  BY <1>10, <1>a, Moved DEF ReturnError
<1>11. CASE RecordFailureWatchdog(r)
  BY <1>11, <1>a, Moved DEF RecordFailureWatchdog
<1>12. CASE RecordFailureHealth(r)
  BY <1>12, <1>a, Moved DEF RecordFailureHealth
<1>13. CASE NotifyFailure(r)
  BY <1>13, <1>a, Moved DEF NotifyFailure
<1>14. CASE ReleaseSlot(r)
  BY <1>14, <1>a, Moved DEF ReleaseSlot
<1>15. CASE PassSlot(r)
  <2>1. At({"queued"})' = At({"queued"}) \ {Head(sendq)}
    BY <1>15, PassSlotEffect DEF PassSlot, At, TypeOK
  <2>2. /\ Len(sendq) \in Nat \ {0}
        /\ Len(sendq') = Len(sendq) - 1
        /\ Head(sendq) = sendq[1]
        /\ \A i \in 1..Len(sendq') : sendq'[i] = sendq[i + 1]
    BY <1>15 DEF PassSlot, TypeOK
  <2>3. ASSUME NEW i \in 1..Len(sendq')
        PROVE  sendq'[i] \in At({"queued"})'
    BY SMTT(30), <2>1, <2>2 DEF QueueInv
  <2>4. ASSUME NEW i \in 1..Len(sendq'), NEW j \in 1..Len(sendq'), sendq'[i] = sendq'[j]
        PROVE  i = j
    BY <2>2, <2>4 DEF QueueInv
  <2>5. ASSUME NEW s \in At({"queued"})'
        PROVE  \E i \in 1..Len(sendq') : sendq'[i] = s
    <3>1. PICK k \in 1..Len(sendq) : sendq[k] = s
      BY <2>1 DEF QueueInv
    <3>2. k # 1
      BY <2>1, <2>2, <3>1
    <3>3. k - 1 \in 1..Len(sendq') /\ sendq'[k - 1] = s
      BY <2>2, <3>1, <3>2
    <3>. QED
      BY <3>3
  <2>. QED
    BY <2>3, <2>4, <2>5 DEF QueueInv
<1>16. CASE Unlock(r)
  BY <1>16, <1>a, Moved DEF Unlock
<1>17. CASE Leave(r)
  <2>1. Step(r, "leaving", IF wg = 1 /\ waiter = "blocked" THEN "waking" ELSE "done")
    BY <1>17 DEF Leave
  <2>2. (IF wg = 1 /\ waiter = "blocked" THEN "waking" ELSE "done") \notin {"queued"}
    OBVIOUS
  <2>. QED
    BY <1>17, <1>a, <2>1, <2>2, Moved DEF Leave
<1>18. CASE WakeWaiter(r)
  BY <1>18, <1>a, Moved DEF WakeWaiter
<1>. QED
  BY <1>1, <1>2, <1>3, <1>4, <1>5, <1>6, <1>7, <1>8, <1>9, <1>10, <1>11, <1>12,
     <1>13, <1>14, <1>15, <1>16, <1>17, <1>18 DEF RunStep

------------------------------------------------------------------------------
(* The drain. *)

\* The points a run of the WaitGroup can be at later on.
EverGroup == InGroup \cup {"waking", "done"}

\* A step that moves no run out of or into the group, and no part of the drain, keeps the
\* drain's invariant.
LEMMA DrainFrame ==
  ASSUME DrainInv, UNCHANGED daemonVars,
         At(InGroup)' = At(InGroup), At({"waking"})' = At({"waking"}),
         At({"done"})' = At({"done"}), At(EverGroup)' = At(EverGroup)
  PROVE  DrainInv'
<1> USE DEF EverGroup, daemonVars
<1>. HIDE DEF InGroup
<1>. QED
  BY DEF DrainInv, PanicNeedsLateRun, ProcessAlive

\* A step of a run keeps the drain's invariant (scheduler.go:266-267, 208-222).
LEMMA DrainRunStep ==
  ASSUME TypeOK, GroupInv, QueueInv, DrainInv, NEW r \in Runs, RunStep(r)
  PROVE  DrainInv'
<1>a. ProcessAlive
  BY DEF RunStep, Launch, Enter, TryLock, Skip, AcquireSlot, JoinQueue,
     RecordSuccessWatchdog, RecordSuccessHealth, ReturnNil, ReturnError,
     RecordFailureWatchdog, RecordFailureHealth, NotifyFailure, ReleaseSlot, PassSlot,
     Unlock, Leave, WakeWaiter, Step
<1>1. CASE Launch(r)
  BY <1>1, Moved, DrainFrame DEF Launch, EverGroup
<1>2. CASE Enter(r)
  <2>1. /\ At(InGroup)' = At(InGroup) \cup {r}
        /\ At({"waking"})' = At({"waking"})
        /\ At({"done"})' = At({"done"})
        /\ At(EverGroup)' = At(EverGroup) \cup {r}
        /\ r \notin At(EverGroup)
    BY <1>2, Moved DEF Enter, EverGroup
  <2>2. At({"waking"}) # {} => wg = 0 /\ waiter = "blocked"
    BY <1>a, FS_EmptySet DEF DrainInv, GroupInv
  <2>3. r \notin owed
    BY <2>1 DEF DrainInv, EverGroup
  <2>4. /\ daemon' # "panicked" => daemon' = daemon
        /\ wg = 0 /\ waiter = "blocked" => daemon' = "panicked"
        /\ UNCHANGED <<waiter, verdict, owed>>
    BY <1>2 DEF Enter, daemonVars
  <2> HIDE DEF InGroup
  <2>. QED
    BY <1>a, <2>1, <2>2, <2>3, <2>4 DEF DrainInv, PanicNeedsLateRun, ProcessAlive, EverGroup
<1>3. CASE TryLock(r)
  BY <1>3, Moved, DrainFrame DEF TryLock, EverGroup
<1>4. CASE Skip(r)
  BY <1>4, Moved, DrainFrame DEF Skip, EverGroup
<1>5. CASE AcquireSlot(r)
  BY <1>5, Moved, DrainFrame DEF AcquireSlot, EverGroup
<1>6. CASE JoinQueue(r)
  BY <1>6, Moved, DrainFrame DEF JoinQueue, EverGroup
<1>7. CASE RecordSuccessWatchdog(r)
  BY <1>7, Moved, DrainFrame DEF RecordSuccessWatchdog, EverGroup
<1>8. CASE RecordSuccessHealth(r)
  BY <1>8, Moved, DrainFrame DEF RecordSuccessHealth, EverGroup
<1>9. CASE ReturnNil(r)
  BY <1>9, Moved, DrainFrame DEF ReturnNil, EverGroup
<1>10. CASE ReturnError(r)
  BY <1>10, Moved, DrainFrame DEF ReturnError, EverGroup
<1>11. CASE RecordFailureWatchdog(r)
  BY <1>11, Moved, DrainFrame DEF RecordFailureWatchdog, EverGroup
<1>12. CASE RecordFailureHealth(r)
  BY <1>12, Moved, DrainFrame DEF RecordFailureHealth, EverGroup
<1>13. CASE NotifyFailure(r)
  BY <1>13, Moved, DrainFrame DEF NotifyFailure, EverGroup
<1>14. CASE ReleaseSlot(r)
  BY <1>14, Moved, DrainFrame DEF ReleaseSlot, EverGroup
<1>15. CASE PassSlot(r)
  <2>1. /\ At(InGroup)' = At(InGroup)
        /\ At({"waking"})' = At({"waking"})
        /\ At({"done"})' = At({"done"})
        /\ At(EverGroup)' = At(EverGroup)
    BY <1>15, PassSlotEffect DEF PassSlot, At, TypeOK, EverGroup
  <2>. QED
    BY <1>15, <2>1, DrainFrame DEF PassSlot
<1>16. CASE Unlock(r)
  BY <1>16, Moved, DrainFrame DEF Unlock, EverGroup
<1>17. CASE Leave(r)
  <2>1. /\ At(InGroup)' = At(InGroup) \ {r}
        /\ r \in At(InGroup)
        /\ At(EverGroup)' = At(EverGroup)
    <3>1. (IF wg = 1 /\ waiter = "blocked" THEN "waking" ELSE "done") \in EverGroup \ InGroup
      BY DEF EverGroup
    <3>. QED
      BY <1>17, <3>1, Moved DEF Leave, EverGroup
  <2>2. At({"waking"}) = {}
    BY <1>a, <2>1 DEF DrainInv
  <2>3. UNCHANGED daemonVars
    BY <1>17 DEF Leave
  <2>4. CASE wg = 1 /\ waiter = "blocked"
    <3>1. At({"waking"})' = {r} /\ At({"done"})' = At({"done"})
      BY <1>17, <2>2, <2>4, Moved DEF Leave
    <3>2. At(InGroup)' = {}
      <4>1. IsFiniteSet(At(InGroup))
        BY <2>1, Counted
      <4>2. \E x : At(InGroup) = {x}
        BY <2>4, <4>1, FS_Singleton DEF GroupInv
      <4>. QED
        BY <2>1, <4>2
    <3> HIDE DEF InGroup
    <3>. QED
      BY <1>a, <2>1, <2>3, <2>4, <3>1, <3>2
         DEF DrainInv, PanicNeedsLateRun, ProcessAlive, EverGroup, daemonVars
  <2>5. CASE ~(wg = 1 /\ waiter = "blocked")
    <3>1. At({"waking"})' = {} /\ At({"done"})' = At({"done"}) \cup {r}
      BY <1>17, <2>2, <2>5, Moved DEF Leave
    <3> HIDE DEF InGroup
    <3>. QED
      BY <1>a, <2>1, <2>3, <3>1
         DEF DrainInv, PanicNeedsLateRun, ProcessAlive, EverGroup, daemonVars
  <2>. QED
    BY <2>4, <2>5
<1>18. CASE WakeWaiter(r)
  <2>1. /\ At(InGroup)' = At(InGroup)
        /\ At({"waking"})' = At({"waking"}) \ {r}
        /\ r \in At({"waking"})
        /\ At({"done"})' = At({"done"}) \cup {r}
        /\ At(EverGroup)' = At(EverGroup)
    BY <1>18, Moved DEF WakeWaiter, EverGroup
  <2>2. At({"waking"}) = {r} /\ At(InGroup) = {} /\ waiter = "blocked"
    BY <1>a, <2>1 DEF DrainInv
  <2>3. owed \subseteq At({"done"}) \cup {r}
    BY <2>2 DEF DrainInv, At
  <2>4. waiter' = "woken" /\ UNCHANGED <<daemon, verdict, owed>>
    BY <1>18 DEF WakeWaiter
  <2> HIDE DEF InGroup
  <2>. QED
    BY <1>a, <2>1, <2>2, <2>3, <2>4 DEF DrainInv, PanicNeedsLateRun, ProcessAlive, EverGroup
<1>. QED
  BY <1>1, <1>2, <1>3, <1>4, <1>5, <1>6, <1>7, <1>8, <1>9, <1>10, <1>11, <1>12,
     <1>13, <1>14, <1>15, <1>16, <1>17, <1>18 DEF RunStep

------------------------------------------------------------------------------
(* The counters of the watchdog and of the health server. *)

\* A step that changes no counter and no run's place between them keeps their relation.
LEMMA CountersFrame ==
  ASSUME CountersInv, UNCHANGED <<wdFails, health>>, daemon # "starting",
         daemon' # "starting",
         At({"recording"})' = At({"recording"}), At({"alerting"})' = At({"alerting"})
  PROVE  CountersInv'
<1>1. At({"recording", "alerting"}) = At({"recording"}) \cup At({"alerting"})
  BY DEF At
<1>2. At({"recording", "alerting"})' = At({"recording", "alerting"})
  BY <1>1 DEF At
<1>. QED
  BY <1>2 DEF CountersInv

\* A step of a run that holds the lock of its name changes the counters of that name only.
LEMMA CountersChange ==
  ASSUME TypeOK, CountersInv, daemon # "starting", daemon' # "starting",
         NEW r \in Runs, NEW m \in Names, NameOf[r] = m,
         \A s \in Runs : s # r => pc'[s] = pc[s],
         \A s \in Runs : s # r /\ NameOf[s] = m => pc[s] \notin {"recording", "alerting"},
         \A n \in Names : n # m => wdFails'[n] = wdFails[n] /\ health'[n] = health[n],
         pc'[r] = "recording" => wdFails'[m] = 0,
         pc'[r] = "alerting" => wdFails'[m] = health'[m].consecutive + 1,
         pc'[r] \notin {"recording", "alerting"} => wdFails'[m] = health'[m].consecutive
  PROVE  CountersInv'
<1>0. NameOf \in [Runs -> Names]
  BY SchedulerAssumption DEF SchedulerAssumption
<1>1. ASSUME NEW s \in At({"recording"})'
      PROVE  wdFails'[NameOf[s]] = 0
  BY <1>0, <1>1 DEF CountersInv, At
<1>2. ASSUME NEW s \in At({"alerting"})'
      PROVE  wdFails'[NameOf[s]] = health'[NameOf[s]].consecutive + 1
  BY <1>0, <1>2 DEF CountersInv, At
<1>3. ASSUME NEW n \in Names, \A s \in At({"recording", "alerting"})' : NameOf[s] # n
      PROVE  wdFails'[n] = health'[n].consecutive
  <2>1. CASE n = m
    BY <1>3, <2>1 DEF At
  <2>2. CASE n # m
    <3>1. \A s \in At({"recording", "alerting"}) : NameOf[s] # n
      BY <1>3, <2>2 DEF At
    <3>. QED
      BY <2>2, <3>1 DEF CountersInv
  <2>. QED
    BY <2>1, <2>2
<1>. QED
  BY <1>1, <1>2, <1>3 DEF CountersInv

\* A step of a run keeps the two failure counters related (scheduler.go:281-287, 468-473).
LEMMA CountersRunStep ==
  ASSUME TypeOK, LockInv, QueueInv, CountersInv, NEW r \in Runs, RunStep(r)
  PROVE  CountersInv'
<1>a. daemon # "starting" /\ daemon' # "starting"
  <2>1. pc[r] # "unborn" \/ daemon = "running"
    BY DEF RunStep, Launch, Enter, TryLock, Skip, AcquireSlot, JoinQueue,
       RecordSuccessWatchdog, RecordSuccessHealth, ReturnNil, ReturnError,
       RecordFailureWatchdog, RecordFailureHealth, NotifyFailure, ReleaseSlot, PassSlot,
       Unlock, Leave, WakeWaiter, Step
  <2>2. daemon # "starting"
    BY <2>1 DEF CountersInv, At
  <2>3. daemon' \in {daemon, "panicked"}
    BY DEF RunStep, Launch, Enter, TryLock, Skip, AcquireSlot, JoinQueue,
       RecordSuccessWatchdog, RecordSuccessHealth, ReturnNil, ReturnError,
       RecordFailureWatchdog, RecordFailureHealth, NotifyFailure, ReleaseSlot, PassSlot,
       Unlock, Leave, WakeWaiter, daemonVars
  <2>. QED
    BY <2>2, <2>3
<1>b. \A s \in Runs : s # r /\ pc[r] \in HoldingLock /\ NameOf[s] = NameOf[r]
                        => pc[s] \notin HoldingLock
  BY DEF LockInv, JobMutex, At
<1> DEFINE m == NameOf[r]
<1>c. m \in Names
  BY SchedulerAssumption DEF SchedulerAssumption
<1>d. ASSUME NEW to, pc[r] \in HoldingLock, pc' = [pc EXCEPT ![r] = to]
      PROVE  /\ pc'[r] = to
             /\ \A s \in Runs : s # r => pc'[s] = pc[s]
             /\ \A s \in Runs : s # r /\ NameOf[s] = m => pc[s] \notin {"recording", "alerting"}
  BY <1>b, <1>d DEF TypeOK
<1>1. CASE Launch(r)
  BY <1>1, <1>a, Moved, CountersFrame DEF Launch, monitorVars
<1>2. CASE Enter(r)
  BY <1>2, <1>a, Moved, CountersFrame DEF Enter, monitorVars
<1>3. CASE TryLock(r)
  BY <1>3, <1>a, Moved, CountersFrame DEF TryLock, monitorVars
<1>4. CASE Skip(r)
  BY <1>4, <1>a, Moved, CountersFrame DEF Skip, monitorVars
<1>5. CASE AcquireSlot(r)
  BY <1>5, <1>a, Moved, CountersFrame DEF AcquireSlot, monitorVars
<1>6. CASE JoinQueue(r)
  BY <1>6, <1>a, Moved, CountersFrame DEF JoinQueue, monitorVars
<1>7. CASE RecordSuccessWatchdog(r)
  <2>1. pc[r] = "working" /\ pc' = [pc EXCEPT ![r] = "recording"]
    BY <1>7 DEF RecordSuccessWatchdog, Step, GoTo
  <2>2. wdFails' = [wdFails EXCEPT ![m] = 0] /\ health' = health
    BY <1>7 DEF RecordSuccessWatchdog
  <2>3. wdFails'[m] = 0 /\ \A n \in Names : n # m => wdFails'[n] = wdFails[n]
    BY <1>c, <2>2 DEF TypeOK
  <2>4. /\ pc'[r] = "recording"
        /\ \A s \in Runs : s # r => pc'[s] = pc[s]
        /\ \A s \in Runs : s # r /\ NameOf[s] = m => pc[s] \notin {"recording", "alerting"}
    BY <1>d, <2>1
  <2>. QED
    BY <1>a, <1>c, <2>2, <2>3, <2>4, CountersChange
<1>8. CASE RecordSuccessHealth(r)
  <2>1. pc[r] = "recording" /\ pc' = [pc EXCEPT ![r] = "wrapping"]
    BY <1>8 DEF RecordSuccessHealth, Step, GoTo
  <2>2. /\ wdFails' = wdFails
        /\ health'[m].consecutive = 0
        /\ \A n \in Names : n # m => health'[n] = health[n]
    BY <1>8, <1>c DEF RecordSuccessHealth, TypeOK
  <2>3. wdFails[m] = 0
    BY <2>1 DEF CountersInv, At
  <2>4. /\ pc'[r] = "wrapping"
        /\ \A s \in Runs : s # r => pc'[s] = pc[s]
        /\ \A s \in Runs : s # r /\ NameOf[s] = m => pc[s] \notin {"recording", "alerting"}
    BY <1>d, <2>1
  <2>. QED
    BY <1>a, <1>c, <2>2, <2>3, <2>4, CountersChange
<1>9. CASE ReturnNil(r)
  BY <1>9, <1>a, Moved, CountersFrame DEF ReturnNil, monitorVars
<1>10. CASE ReturnError(r)
  BY <1>10, <1>a, Moved, CountersFrame DEF ReturnError, monitorVars
<1>11. CASE RecordFailureWatchdog(r)
  <2>1. pc[r] = "failing" /\ pc' = [pc EXCEPT ![r] = "alerting"]
    BY <1>11 DEF RecordFailureWatchdog, Step, GoTo
  <2>2. wdFails' = [wdFails EXCEPT ![m] = @ + 1] /\ health' = health
    BY <1>11 DEF RecordFailureWatchdog
  <2>3. \A s \in At({"recording", "alerting"}) : NameOf[s] # m
    BY <1>b, <2>1 DEF At
  <2>4. wdFails[m] = health[m].consecutive
    BY <1>c, <2>3 DEF CountersInv
  <2>5. /\ wdFails'[m] = wdFails[m] + 1
        /\ \A n \in Names : n # m => wdFails'[n] = wdFails[n]
    BY <1>c, <2>2 DEF TypeOK
  <2>6. /\ pc'[r] = "alerting"
        /\ \A s \in Runs : s # r => pc'[s] = pc[s]
        /\ \A s \in Runs : s # r /\ NameOf[s] = m => pc[s] \notin {"recording", "alerting"}
    BY <1>d, <2>1
  <2>. QED
    BY <1>a, <1>c, <2>2, <2>4, <2>5, <2>6, CountersChange
<1>12. CASE RecordFailureHealth(r)
  <2>1. pc[r] = "alerting" /\ pc' = [pc EXCEPT ![r] = "notifying"]
    BY <1>12 DEF RecordFailureHealth, Step, GoTo
  <2>2. /\ wdFails' = wdFails
        /\ health'[m].consecutive = health[m].consecutive + 1
        /\ \A n \in Names : n # m => health'[n] = health[n]
    BY <1>12, <1>c DEF RecordFailureHealth, TypeOK
  <2>3. wdFails[m] = health[m].consecutive + 1
    BY <2>1 DEF CountersInv, At
  <2>4. /\ pc'[r] = "notifying"
        /\ \A s \in Runs : s # r => pc'[s] = pc[s]
        /\ \A s \in Runs : s # r /\ NameOf[s] = m => pc[s] \notin {"recording", "alerting"}
    BY <1>d, <2>1
  <2>. QED
    BY <1>a, <1>c, <2>2, <2>3, <2>4, CountersChange
<1>13. CASE NotifyFailure(r)
  BY <1>13, <1>a, Moved, CountersFrame DEF NotifyFailure, monitorVars
<1>14. CASE ReleaseSlot(r)
  BY <1>14, <1>a, Moved, CountersFrame DEF ReleaseSlot, monitorVars
<1>15. CASE PassSlot(r)
  <2>1. /\ At({"recording"})' = At({"recording"})
        /\ At({"alerting"})' = At({"alerting"})
    BY <1>15, PassSlotEffect DEF PassSlot, At, TypeOK
  <2>. QED
    BY <1>15, <1>a, <2>1, CountersFrame DEF PassSlot, monitorVars
<1>16. CASE Unlock(r)
  BY <1>16, <1>a, Moved, CountersFrame DEF Unlock, monitorVars
<1>17. CASE Leave(r)
  <2>1. Step(r, "leaving", IF wg = 1 /\ waiter = "blocked" THEN "waking" ELSE "done")
    BY <1>17 DEF Leave
  <2>2. (IF wg = 1 /\ waiter = "blocked" THEN "waking" ELSE "done")
          \notin {"recording", "alerting"}
    OBVIOUS
  <2>. QED
    BY <1>17, <1>a, <2>1, <2>2, Moved, CountersFrame DEF Leave, monitorVars
<1>18. CASE WakeWaiter(r)
  BY <1>18, <1>a, Moved, CountersFrame DEF WakeWaiter, monitorVars
<1>. QED
  BY <1>1, <1>2, <1>3, <1>4, <1>5, <1>6, <1>7, <1>8, <1>9, <1>10, <1>11, <1>12,
     <1>13, <1>14, <1>15, <1>16, <1>17, <1>18 DEF RunStep

------------------------------------------------------------------------------
(* The health server counts every run that was not skipped, once. *)

\* The first two conjuncts of TallyInv: when a run has a result.
Results ==
  /\ \A r \in At({"unborn", "launched", "entered"} \cup Waiting \cup InRunBackup) :
       outcome[r] = "none"
  /\ \A r \in At({"failing", "alerting"}) : outcome[r] = "failed"

\* The sets of counted runs are finite, and a run is counted under its own name.
LEMMA CountedFinite ==
  ASSUME NEW n
  PROVE  /\ IsFiniteSet(CountedRuns(n)) /\ IsFiniteSet(CountedFails(n))
         /\ Cardinality(CountedRuns(n)) \in Nat /\ Cardinality(CountedFails(n)) \in Nat
<1>1. CountedRuns(n) \subseteq Runs /\ CountedFails(n) \subseteq Runs
  BY DEF CountedRuns, CountedFails
<1>. QED
  BY <1>1, SchedulerAssumption, FS_Subset, FS_CardinalityType DEF SchedulerAssumption

\* A step that counts no run and updates no health counter keeps the tally.
LEMMA TallyFrame ==
  ASSUME TallyInv, Results', health' = health,
         \A q \in Runs : /\ (pc'[q] = "wrapping" \/ outcome'[q] = "ok")
                              <=> (pc[q] = "wrapping" \/ outcome[q] = "ok")
                         /\ (outcome'[q] = "failed" /\ pc'[q] \notin {"failing", "alerting"})
                              <=> (outcome[q] = "failed" /\ pc[q] \notin {"failing", "alerting"})
  PROVE  TallyInv'
<1>1. \A n : CountedFails(n)' = CountedFails(n)
  BY DEF CountedFails
<1>2. \A n : CountedRuns(n)' = CountedRuns(n)
  BY <1>1 DEF CountedRuns
<1>. QED
  BY <1>1, <1>2 DEF TallyInv, Results

\* A step between two points at which nothing is counted keeps the tally.
LEMMA TallyPlain ==
  ASSUME TypeOK, TallyInv, NEW r \in Runs, NEW from, NEW to, Step(r, from, to),
         outcome' = outcome, health' = health,
         {from, to} \cap {"wrapping", "failing", "alerting"} = {},
         to \in {"unborn", "launched", "entered"} \cup Waiting \cup InRunBackup =>
           from \in {"unborn", "launched", "entered"} \cup Waiting \cup InRunBackup
  PROVE  TallyInv'
<1>1. /\ pc[r] = from /\ pc'[r] = to
      /\ \A q \in Runs : q # r => pc'[q] = pc[q]
  BY DEF TypeOK, Step, GoTo
<1>2. Results'
  BY <1>1 DEF TallyInv, Results, At
<1>. QED
  BY <1>1, <1>2, TallyFrame

\* A step of a run keeps the health server's counts exact (scheduler.go:281-287, 468-473).
LEMMA TallyRunStep ==
  ASSUME TypeOK, QueueInv, TallyInv, NEW r \in Runs, RunStep(r)
  PROVE  TallyInv'
<1> DEFINE m == NameOf[r]
<1>a. NameOf \in [Runs -> Names] /\ m \in Names
  BY SchedulerAssumption DEF SchedulerAssumption
<1>b. \A to : GoTo(r, to) => pc'[r] = to /\ \A q \in Runs : q # r => pc'[q] = pc[q]
  BY DEF TypeOK, GoTo
<1>c. \A result : outcome' = [outcome EXCEPT ![r] = result] =>
        outcome'[r] = result /\ \A q \in Runs : q # r => outcome'[q] = outcome[q]
  BY DEF TypeOK
<1>1. CASE Launch(r)
  BY <1>1, TallyPlain DEF Launch, monitorVars
<1>2. CASE Enter(r)
  BY <1>2, TallyPlain DEF Enter, monitorVars
<1>3. CASE TryLock(r)
  BY <1>3, TallyPlain DEF TryLock, monitorVars
<1>4. CASE Skip(r)
  <2>1. /\ pc[r] = "entered" /\ pc'[r] = "leaving" /\ outcome'[r] = "skipped"
        /\ health' = health
        /\ \A q \in Runs : q # r => pc'[q] = pc[q] /\ outcome'[q] = outcome[q]
    BY <1>4, <1>b, <1>c DEF Skip, Step, monitorVars
  <2>2. Results' /\ outcome[r] = "none"
    BY <2>1 DEF TallyInv, Results, At
  <2>. QED
    BY <2>1, <2>2, TallyFrame
<1>5. CASE AcquireSlot(r)
  BY <1>5, TallyPlain DEF AcquireSlot, monitorVars
<1>6. CASE JoinQueue(r)
  BY <1>6, TallyPlain DEF JoinQueue, monitorVars
<1>7. CASE RecordSuccessWatchdog(r)
  BY <1>7, TallyPlain DEF RecordSuccessWatchdog
<1>8. CASE RecordSuccessHealth(r)
  <2>1. /\ pc[r] = "recording" /\ pc'[r] = "wrapping" /\ outcome' = outcome
        /\ \A q \in Runs : q # r => pc'[q] = pc[q]
    BY <1>8, <1>b DEF RecordSuccessHealth, Step
  <2>2. Results' /\ outcome[r] = "none"
    BY <2>1 DEF TallyInv, Results, At
  <2>3. /\ health'[m].runs = health[m].runs + 1 /\ health'[m].fails = health[m].fails
        /\ \A n \in Names : n # m => health'[n] = health[n]
    BY <1>8, <1>a DEF RecordSuccessHealth, TypeOK
  <2>4. \A n : CountedFails(n)' = CountedFails(n)
    BY <2>1 DEF CountedFails
  <2>5. r \notin CountedRuns(m) /\ CountedRuns(m)' = CountedRuns(m) \cup {r}
    BY <2>1, <2>2, <2>4 DEF CountedRuns, CountedFails
  <2>6. \A n : n # m => CountedRuns(n)' = CountedRuns(n)
    BY <2>1, <2>4 DEF CountedRuns
  <2>7. Cardinality(CountedRuns(m))' = Cardinality(CountedRuns(m)) + 1
    BY <2>5, CountedFinite, FS_AddElement
  <2>. QED
    BY <2>2, <2>3, <2>4, <2>6, <2>7 DEF TallyInv, Results
<1>9. CASE ReturnNil(r)
  <2>1. /\ pc[r] = "wrapping" /\ pc'[r] = "releasing" /\ outcome'[r] = "ok"
        /\ health' = health
        /\ \A q \in Runs : q # r => pc'[q] = pc[q] /\ outcome'[q] = outcome[q]
    BY <1>9, <1>b, <1>c DEF ReturnNil, Step, monitorVars
  <2>2. Results' /\ outcome[r] = "none"
    BY <2>1 DEF TallyInv, Results, At
  <2>. QED
    BY <2>1, <2>2, TallyFrame
<1>10. CASE ReturnError(r)
  <2>1. /\ pc[r] = "working" /\ pc'[r] = "failing" /\ outcome'[r] = "failed"
        /\ health' = health
        /\ \A q \in Runs : q # r => pc'[q] = pc[q] /\ outcome'[q] = outcome[q]
    BY <1>10, <1>b, <1>c DEF ReturnError, Step, monitorVars
  <2>2. Results' /\ outcome[r] = "none"
    BY <2>1 DEF TallyInv, Results, At
  <2>. QED
    BY <2>1, <2>2, TallyFrame
<1>11. CASE RecordFailureWatchdog(r)
  <2>1. /\ pc[r] = "failing" /\ pc'[r] = "alerting" /\ outcome' = outcome
        /\ health' = health
        /\ \A q \in Runs : q # r => pc'[q] = pc[q]
    BY <1>11, <1>b DEF RecordFailureWatchdog, Step
  <2>2. Results'
    BY <2>1 DEF TallyInv, Results, At
  <2>. QED
    BY <2>1, <2>2, TallyFrame
<1>12. CASE RecordFailureHealth(r)
  <2>1. /\ pc[r] = "alerting" /\ pc'[r] = "notifying" /\ outcome' = outcome
        /\ \A q \in Runs : q # r => pc'[q] = pc[q]
    BY <1>12, <1>b DEF RecordFailureHealth, Step
  <2>2. Results' /\ outcome[r] = "failed"
    BY <2>1 DEF TallyInv, Results, At
  <2>3. /\ health'[m].runs = health[m].runs + 1 /\ health'[m].fails = health[m].fails + 1
        /\ \A n \in Names : n # m => health'[n] = health[n]
    BY <1>12, <1>a DEF RecordFailureHealth, TypeOK
  <2>4. r \notin CountedFails(m) /\ CountedFails(m)' = CountedFails(m) \cup {r}
    BY <2>1, <2>2 DEF CountedFails
  <2>5. r \notin CountedRuns(m) /\ CountedRuns(m)' = CountedRuns(m) \cup {r}
    BY <2>1, <2>2, <2>4 DEF CountedRuns
  <2>6. \A n : n # m => CountedFails(n)' = CountedFails(n)
    BY <2>1 DEF CountedFails
  <2>7. \A n : n # m => CountedRuns(n)' = CountedRuns(n)
    BY <2>1, <2>6 DEF CountedRuns
  <2>8. /\ Cardinality(CountedRuns(m))' = Cardinality(CountedRuns(m)) + 1
        /\ Cardinality(CountedFails(m))' = Cardinality(CountedFails(m)) + 1
    BY <2>4, <2>5, CountedFinite, FS_AddElement
  <2>. QED
    BY <2>2, <2>3, <2>6, <2>7, <2>8 DEF TallyInv, Results
<1>13. CASE NotifyFailure(r)
  BY <1>13, TallyPlain DEF NotifyFailure, monitorVars
<1>14. CASE ReleaseSlot(r)
  BY <1>14, TallyPlain DEF ReleaseSlot, monitorVars
<1>15. CASE PassSlot(r)
  <2>1. PICK h \in Runs : h = Head(sendq)
    BY <1>15, PassSlotEffect
  <2>2. /\ pc[r] = "releasing" /\ pc[h] = "queued" /\ h # r
        /\ pc' = [pc EXCEPT ![r] = "unlocking", ![h] = "working"]
        /\ outcome' = outcome /\ health' = health
    BY <1>15, <2>1, PassSlotEffect DEF PassSlot, monitorVars
  <2>3. /\ pc'[r] = "unlocking" /\ pc'[h] = "working"
        /\ \A q \in Runs : q \notin {r, h} => pc'[q] = pc[q]
    BY <2>2 DEF TypeOK
  <2>4. Results'
    BY <2>2, <2>3 DEF TallyInv, Results, At
  <2>. QED
    BY <2>2, <2>3, <2>4, TallyFrame
<1>16. CASE Unlock(r)
  BY <1>16, TallyPlain DEF Unlock, monitorVars
<1>17. CASE Leave(r)
  <2>1. Step(r, "leaving", IF wg = 1 /\ waiter = "blocked" THEN "waking" ELSE "done")
    BY <1>17 DEF Leave
  <2>2. (IF wg = 1 /\ waiter = "blocked" THEN "waking" ELSE "done") \in {"waking", "done"}
    OBVIOUS
  <2>3. outcome' = outcome /\ health' = health
    BY <1>17 DEF Leave, monitorVars
  <2>. QED
    BY <2>1, <2>2, <2>3, TallyPlain
<1>18. CASE WakeWaiter(r)
  BY <1>18, TallyPlain DEF WakeWaiter, monitorVars
<1>. QED
  BY <1>1, <1>2, <1>3, <1>4, <1>5, <1>6, <1>7, <1>8, <1>9, <1>10, <1>11, <1>12,
     <1>13, <1>14, <1>15, <1>16, <1>17, <1>18 DEF RunStep

------------------------------------------------------------------------------
(* Steps of the daemon and of its waiter leave the runs where they are. *)

\* A step of the daemon or of its waiter keeps the drain's invariant (scheduler.go:200-223).
LEMMA DrainDaemonStep ==
  ASSUME TypeOK, GroupInv, DrainInv, Signal \/ DaemonStep \/ WaiterStep
  PROVE  DrainInv'
<1>a. pc' = pc /\ wg' = wg
  BY DEF runVars, Signal, DaemonStep, Refuse, StartCron, StopCron, BeginDrain,
     ReturnClean, ReturnTimeout, Exit, WaiterStep, CallWait, ResumeWait, CloseDone
<1>c. wg = 0 <=> At(InGroup) = {}
  BY SchedulerAssumption, FS_Subset, FS_EmptySet DEF SchedulerAssumption, GroupInv, At
<1>d. /\ At({"waking"})' = At({"waking"})
      /\ At({"done"})' = At({"done"})
      /\ At(InGroup)' = At(InGroup)
      /\ At(EverGroup)' = At(EverGroup)
  BY <1>a DEF At
<1>e. At(EverGroup) = At(InGroup) \cup At({"waking"}) \cup At({"done"})
  BY DEF At, EverGroup
<1> HIDE DEF InGroup
<1> USE <1>d DEF DrainInv, PanicNeedsLateRun, ProcessAlive, EverGroup
<1>1. CASE Signal
  BY <1>1 DEF Signal
<1>2. CASE Refuse
  BY <1>2 DEF Refuse
<1>3. CASE StartCron
  BY <1>3 DEF StartCron
<1>4. CASE StopCron
  BY <1>4 DEF StopCron
<1>5. CASE BeginDrain
  BY <1>5, <1>e DEF BeginDrain
<1>6. CASE ReturnClean
  BY <1>6 DEF ReturnClean
<1>7. CASE ReturnTimeout
  BY <1>7 DEF ReturnTimeout
<1>8. CASE Exit
  BY <1>8 DEF Exit
<1>9. CASE CallWait
  <2>1. At({"waking"}) = {}
    BY <1>9 DEF CallWait
  <2>2. CASE wg = 0
    BY <1>9, <1>c, <1>e, <2>1, <2>2 DEF CallWait
  <2>3. CASE wg # 0
    BY <1>9, <2>1, <2>3 DEF CallWait
  <2>. QED
    BY <2>2, <2>3
<1>10. CASE ResumeWait
  <2>1. At({"waking"}) = {}
    BY <1>10 DEF ResumeWait
  <2>2. CASE wg = 0
    BY <1>10, <1>c, <1>e, <2>1, <2>2 DEF ResumeWait
  <2>3. CASE wg # 0
    <3>1. At(InGroup) # {} /\ At(InGroup) \cap At({"done"}) = {}
      BY <1>c, <2>3 DEF At, InGroup
    <3>2. owed \subseteq At({"done"})
      BY <1>10 DEF ResumeWait
    <3>. QED
      BY <1>10, <2>1, <2>3, <3>1, <3>2 DEF ResumeWait
  <2>. QED
    BY <2>2, <2>3
<1>11. CASE CloseDone
  BY <1>11 DEF CloseDone
<1>. QED
  BY <1>1, <1>2, <1>3, <1>4, <1>5, <1>6, <1>7, <1>8, <1>9, <1>10, <1>11
     DEF DaemonStep, WaiterStep

\* A step of the daemon keeps the counters related: Register resets them before any run
\* (scheduler.go:160-198).
LEMMA CountersDaemonStep ==
  ASSUME TypeOK, CountersInv, Signal \/ DaemonStep \/ WaiterStep
  PROVE  CountersInv'
<1>a. pc' = pc /\ health' = health
  BY DEF runVars, monitorVars, Signal, DaemonStep, Refuse, StartCron, StopCron, BeginDrain,
     ReturnClean, ReturnTimeout, Exit, WaiterStep, CallWait, ResumeWait, CloseDone
<1>b. /\ At({"recording"})' = At({"recording"})
      /\ At({"alerting"})' = At({"alerting"})
      /\ At({"recording", "alerting"})' = At({"recording", "alerting"})
      /\ At({"unborn"})' = At({"unborn"})
  BY <1>a DEF At
<1>c. wdFails' = wdFails
  BY DEF CountersInv, monitorVars, Signal, DaemonStep, Refuse, StartCron, StopCron,
     BeginDrain, ReturnClean, ReturnTimeout, Exit, WaiterStep, CallWait, ResumeWait, CloseDone
<1>d. daemon' = "starting" => daemon = "starting"
  BY DEF Signal, DaemonStep, Refuse, StartCron, StopCron,
     BeginDrain, ReturnClean, ReturnTimeout, Exit, WaiterStep, CallWait, ResumeWait, CloseDone
<1>. QED
  BY <1>a, <1>b, <1>c, <1>d DEF CountersInv

------------------------------------------------------------------------------
(* The inductive invariant. *)

\* The inductive invariant holds initially.
LEMMA InvInit == Init => SchedulerInv
<1> SUFFICES ASSUME Init PROVE SchedulerInv
  OBVIOUS
<1>1. TypeOK
  BY TypeInit
<1>2. /\ At(HoldingLock) = {} /\ At(Occupying) = {} /\ At(InGroup) = {}
      /\ At({"queued"}) = {} /\ At({"waking"}) = {} /\ At({"unborn"}) = Runs
      /\ At({"recording"}) = {} /\ At({"alerting"}) = {}
  BY DEF Init, At
<1>3. LockInv
  BY <1>2 DEF Init, LockInv, JobMutex
<1>4. SlotAccounting
  BY <1>2, FS_EmptySet DEF Init, SlotAccounting
<1>5. QueueInv
  BY <1>2 DEF Init, QueueInv
<1>6. GroupInv
  BY <1>2, FS_EmptySet DEF Init, GroupInv
<1>7. DrainInv
  BY <1>2 DEF Init, DrainInv, PanicNeedsLateRun
<1>8. CountersInv
  BY <1>2 DEF Init, CountersInv
<1>9. TallyInv
  <2>1. \A n : CountedRuns(n) = {} /\ CountedFails(n) = {}
    BY DEF Init, CountedRuns, CountedFails
  <2>2. \A r \in Runs : pc[r] = "unborn" /\ outcome[r] = "none"
    BY DEF Init
  <2>3. \A n \in Names : health[n].runs = 0 /\ health[n].fails = 0
    BY DEF Init
  <2>. QED
    BY <2>1, <2>2, <2>3, FS_EmptySet DEF TallyInv, At
<1>. QED
  BY <1>1, <1>3, <1>4, <1>5, <1>6, <1>7, <1>8, <1>9 DEF SchedulerInv

\* Every step keeps the inductive invariant.
LEMMA InvStep == SchedulerInv /\ [Next]_vars => SchedulerInv'
<1> SUFFICES ASSUME SchedulerInv, [Next]_vars PROVE SchedulerInv'
  OBVIOUS
<1>1. ASSUME NEW r \in Runs, RunStep(r)
      PROVE  SchedulerInv'
  BY <1>1, TypeRunStep, LockRunStep, SlotsRunStep, QueueRunStep, GroupRunStep,
     DrainRunStep, CountersRunStep, TallyRunStep DEF SchedulerInv
<1>2. CASE Signal \/ DaemonStep \/ WaiterStep
  <2>1. UNCHANGED runVars
    BY <1>2 DEF Signal, DaemonStep, Refuse, StartCron, StopCron, BeginDrain,
       ReturnClean, ReturnTimeout, Exit, WaiterStep, CallWait, ResumeWait, CloseDone
  <2>2. /\ \A S : At(S)' = At(S)
        /\ locked' = locked /\ tokens' = tokens /\ sendq' = sendq /\ wg' = wg
    BY <2>1 DEF runVars, At
  <2>3. LockInv' /\ SlotAccounting' /\ QueueInv' /\ GroupInv'
    BY <2>2 DEF SchedulerInv, LockInv, JobMutex, SlotAccounting, QueueInv, GroupInv
  <2>4. TallyInv'
    <3>1. pc' = pc /\ outcome' = outcome /\ health' = health
      BY <1>2 DEF runVars, monitorVars, Signal, DaemonStep, Refuse, StartCron, StopCron,
         BeginDrain, ReturnClean, ReturnTimeout, Exit, WaiterStep, CallWait, ResumeWait,
         CloseDone
    <3>2. Results'
      BY <2>2, <3>1 DEF SchedulerInv, TallyInv, Results
    <3>. QED
      BY <3>1, <3>2, TallyFrame DEF SchedulerInv
  <2>. QED
    BY <1>2, <2>3, <2>4, TypeDaemonStep, DrainDaemonStep, CountersDaemonStep DEF SchedulerInv
<1>3. CASE UNCHANGED vars
  <2>1. TallyInv'
    BY <1>3 DEF vars, runVars, monitorVars, SchedulerInv, TallyInv, CountedRuns,
       CountedFails, At
  <2>. QED
    BY <1>3, <2>1 DEF vars, runVars, monitorVars, daemonVars, SchedulerInv, TypeOK, LockInv,
       JobMutex, SlotAccounting, QueueInv, GroupInv, DrainInv, PanicNeedsLateRun,
       CountersInv, At, ProcessAlive
<1>. QED
  BY <1>1, <1>2, <1>3 DEF Next, Ended

(* The mutexes, the channel, the WaitGroup, the drain and the counters keep the relations
   SchedulerInv states, whatever the interleaving of the runs and of the shutdown. *)
THEOREM SchedulerInvariant == Spec => []SchedulerInv
<1>. QED
  BY InvInit, InvStep, PTL DEF Spec

(* Every variable keeps its type (scheduler.go:48-68). *)
THEOREM TypeCorrect == Spec => []TypeOK
<1>1. SchedulerInv => TypeOK
  BY DEF SchedulerInv
<1>. QED
  BY <1>1, SchedulerInvariant, PTL

(* Two runs of one backup never overlap (scheduler.go:269-275). *)
THEOREM RunsExcludeEachOther == Spec => []JobMutex
<1>1. SchedulerInv => JobMutex
  BY DEF SchedulerInv, LockInv
<1>. QED
  BY <1>1, SchedulerInvariant, PTL

(* The semaphore loses no slot and leaves none idle (scheduler.go:278-279). *)
THEOREM SlotsAreAccounted == Spec => []SlotAccounting
<1>1. SchedulerInv => SlotAccounting
  BY DEF SchedulerInv
<1>. QED
  BY <1>1, SchedulerInvariant, PTL

(* A drain reported clean waited for every run it found in the WaitGroup
   (scheduler.go:208-217). *)
THEOREM CleanDrainWaits == Spec => []CleanDrainWaited
<1>1. SchedulerInv => CleanDrainWaited
  BY DEF SchedulerInv, DrainInv, CleanDrainWaited, At
<1>. QED
  BY <1>1, SchedulerInvariant, PTL

(* The WaitGroup panics only over a run that entered it after the drain began
   (scheduler.go:202, 210-213, 266). *)
THEOREM PanicsComeFromLateRuns == Spec => []PanicNeedsLateRun
<1>1. SchedulerInv => PanicNeedsLateRun
  BY DEF SchedulerInv, DrainInv
<1>. QED
  BY <1>1, SchedulerInvariant, PTL

(* While no run of a name is under way the watchdog and the health server agree on its
   failures, and every run that was not skipped has been counted once
   (scheduler.go:281-287, 468-473). *)
THEOREM MonitorsStayInAgreement == Spec => []MonitorsAgree
<1>1. SchedulerInv => MonitorsAgree
  <2> SUFFICES ASSUME SchedulerInv, NEW n \in Names, ~locked[n]
               PROVE  /\ wdFails[n] = health[n].consecutive
                      /\ health[n].runs = Cardinality({r \in Runs : NameOf[r] = n
                                                          /\ outcome[r] \in {"ok", "failed"}})
                      /\ health[n].fails = Cardinality({r \in Runs : NameOf[r] = n
                                                          /\ outcome[r] \in {"failed"}})
    BY DEF MonitorsAgree
  <2>1. \A r \in Runs : NameOf[r] = n => pc[r] \notin HoldingLock
    BY DEF SchedulerInv, LockInv, At
  <2>2. wdFails[n] = health[n].consecutive
    <3>1. \A r \in At({"recording", "alerting"}) : NameOf[r] # n
      BY <2>1 DEF At
    <3>. QED
      BY <3>1 DEF SchedulerInv, CountersInv
  <2>3. CountedFails(n) = {r \in Runs : NameOf[r] = n /\ outcome[r] \in {"failed"}}
    BY <2>1 DEF CountedFails
  <2>4. CountedRuns(n) = {r \in Runs : NameOf[r] = n /\ outcome[r] \in {"ok", "failed"}}
    BY <2>1, <2>3 DEF CountedRuns
  <2>. QED
    BY <2>2, <2>3, <2>4 DEF SchedulerInv, TallyInv
<1>. QED
  BY <1>1, SchedulerInvariant, PTL

(* A run is skipped only while another run of its name holds the mutex
   (scheduler.go:271-273). *)
THEOREM SkipsHaveAPeer == Spec => SkipHasPeer
<1> DEFINE SkipStep ==
      \A r \in Runs : outcome'[r] = "skipped" /\ outcome[r] = "none" =>
        \E s \in Runs \ {r} : NameOf[s] = NameOf[r] /\ pc[s] \in HoldingLock
<1>1. SchedulerInv /\ [Next]_vars => [SkipStep]_vars
  <2> SUFFICES ASSUME SchedulerInv, Next, NEW q \in Runs,
                      outcome'[q] = "skipped", outcome[q] = "none"
               PROVE  \E s \in Runs \ {q} : NameOf[s] = NameOf[q] /\ pc[s] \in HoldingLock
    OBVIOUS
  <2>1. Skip(q)
    <3>1. PICK r \in Runs : RunStep(r)
      BY DEF Next, Ended, vars, runVars, Signal, DaemonStep, Refuse, StartCron, StopCron,
         BeginDrain, ReturnClean, ReturnTimeout, Exit, WaiterStep, CallWait, ResumeWait,
         CloseDone
    <3>2. r = q
      BY <3>1 DEF SchedulerInv, TypeOK, RunStep, Launch, Enter, TryLock, Skip, AcquireSlot,
         JoinQueue, RecordSuccessWatchdog, RecordSuccessHealth, ReturnNil, ReturnError,
         RecordFailureWatchdog, RecordFailureHealth, NotifyFailure, ReleaseSlot, PassSlot,
         Unlock, Leave, WakeWaiter
    <3>. QED
      BY <3>1, <3>2 DEF SchedulerInv, TypeOK, RunStep, Launch, Enter, TryLock, AcquireSlot,
         JoinQueue, RecordSuccessWatchdog, RecordSuccessHealth, ReturnNil, ReturnError,
         RecordFailureWatchdog, RecordFailureHealth, NotifyFailure, ReleaseSlot, PassSlot,
         Unlock, Leave, WakeWaiter
  <2>2. PICK s \in At(HoldingLock) : NameOf[s] = NameOf[q]
    BY <2>1, SchedulerAssumption DEF SchedulerAssumption, Skip, SchedulerInv, LockInv
  <2>. QED
    BY <2>1, <2>2 DEF Skip, Step, At
<1>. QED
  BY <1>1, SchedulerInvariant, PTL DEF Spec, SkipHasPeer

(* A blocked run that is ahead of another stays so until it has its slot, whichever run takes
   the step (scheduler.go:278-279). *)
LEMMA AheadRunStep ==
  ASSUME SchedulerInv, NEW r \in Runs, RunStep(r), NEW q \in Runs, NEW s \in Runs, Ahead(q, s)
  PROVE  Ahead(q, s)' \/ pc'[q] = "working"
<1>. USE DEF SchedulerInv, TypeOK
<1>1. pc[q] = "queued" /\ pc[s] \in Waiting
  <2>1. ASSUME NEW i \in 1..Len(sendq), sendq[i] = s PROVE pc[s] = "queued"
    BY <2>1 DEF QueueInv, At
  <2>. QED
    BY <2>1 DEF Ahead
<1>2. tokens = Slots
  BY <1>1 DEF QueueInv, SlotAccounting, At
<1>3. CASE JoinQueue(r)
  <2>1. /\ pc[r] = "claimed" /\ r # q
        /\ sendq' = Append(sendq, r)
        /\ pc' = [pc EXCEPT ![r] = "queued"]
    BY <1>1, <1>3 DEF JoinQueue, Step, GoTo
  <2>2. pc'[q] = "queued"
    BY <1>1, <2>1
  <2>3. Len(sendq') = Len(sendq) + 1 /\ sendq'[Len(sendq) + 1] = r
    BY <2>1
  <2>4. \A i \in 1..Len(sendq) : sendq'[i] = sendq[i]
    BY <2>1
  <2>5. CASE s = r
    <3>1. PICK i \in 1..Len(sendq) : sendq[i] = q
      BY <1>1 DEF QueueInv, At
    <3>2. i \in 1..Len(sendq') /\ Len(sendq) + 1 \in 1..Len(sendq') /\ i < Len(sendq) + 1
      BY <2>3, <3>1
    <3>. QED
      BY <2>2, <2>3, <2>4, <2>5, <3>1, <3>2 DEF Ahead
  <2>6. CASE s # r
    <3>1. CASE pc[s] = "claimed"
      BY <2>1, <2>2, <2>6, <3>1 DEF Ahead
    <3>2. CASE pc[s] # "claimed"
      <4>1. PICK i \in 1..Len(sendq) : \E j \in 1..Len(sendq) : i < j /\ sendq[i] = q /\ sendq[j] = s
        BY <3>2 DEF Ahead
      <4>2. PICK j \in 1..Len(sendq) : i < j /\ sendq[i] = q /\ sendq[j] = s
        BY <4>1
      <4>3. i \in 1..Len(sendq') /\ j \in 1..Len(sendq')
        BY <2>3, <4>1, <4>2
      <4>. QED
        BY <2>2, <2>4, <4>1, <4>2, <4>3 DEF Ahead
    <3>. QED
      BY <3>1, <3>2
  <2>. QED
    BY <2>5, <2>6
<1>4. CASE PassSlot(r)
  <2>1. /\ sendq # <<>> /\ pc[r] = "releasing"
        /\ sendq' = Tail(sendq)
        /\ pc' = [pc EXCEPT ![r] = "unlocking", ![Head(sendq)] = "working"]
    BY <1>4 DEF PassSlot
  <2>2. Head(sendq) = sendq[1] /\ 1 \in 1..Len(sendq) /\ sendq[1] \in Runs
    BY <2>1
  <2>3. CASE q = sendq[1]
    BY <2>1, <2>2, <2>3
  <2>4. CASE q # sendq[1]
    <3>1. pc'[q] = "queued"
      BY <1>1, <2>1, <2>2, <2>4
    <3>2. CASE pc[s] = "claimed"
      <4>1. s # sendq[1] /\ s # r
        BY <2>1, <2>2, <3>2 DEF QueueInv, At
      <4>. QED
        BY <2>1, <2>2, <3>1, <3>2, <4>1 DEF Ahead
    <3>3. CASE pc[s] # "claimed"
      <4>1. PICK i \in 1..Len(sendq) : \E j \in 1..Len(sendq) : i < j /\ sendq[i] = q /\ sendq[j] = s
        BY <3>3 DEF Ahead
      <4>2. PICK j \in 1..Len(sendq) : i < j /\ sendq[i] = q /\ sendq[j] = s
        BY <4>1
      <4>3. i # 1
        BY <2>4, <4>2
      <4>4. Len(sendq') = Len(sendq) - 1 /\ \A k \in 1..Len(sendq') : sendq'[k] = sendq[k + 1]
        BY <2>1
      <4>5. i - 1 \in 1..Len(sendq') /\ j - 1 \in 1..Len(sendq') /\ i - 1 < j - 1
        BY <4>1, <4>2, <4>3, <4>4
      <4>6. sendq'[i - 1] = q /\ sendq'[j - 1] = s
        BY <4>1, <4>2, <4>4, <4>5
      <4>. QED
        BY <3>1, <4>5, <4>6 DEF Ahead
    <3>. QED
      BY <3>2, <3>3
  <2>. QED
    BY <2>3, <2>4
<1>5. CASE ~JoinQueue(r) /\ ~PassSlot(r)
  <2>1. ~AcquireSlot(r)
    BY <1>2, SchedulerAssumption DEF AcquireSlot, SchedulerAssumption
  <2>2. sendq' = sendq /\ pc[r] \notin Waiting /\ \E point : pc' = [pc EXCEPT ![r] = point]
    BY <1>5, <2>1 DEF RunStep, Launch, Enter, TryLock, Skip, RecordSuccessWatchdog,
       RecordSuccessHealth, ReturnNil, ReturnError, RecordFailureWatchdog,
       RecordFailureHealth, NotifyFailure, ReleaseSlot, Unlock, Leave, WakeWaiter, Step, GoTo
  <2>3. pc'[q] = pc[q] /\ pc'[s] = pc[s]
    BY <1>1, <2>2
  <2>. QED
    BY <2>2, <2>3 DEF Ahead
<1>. QED
  BY <1>3, <1>4, <1>5

(* Blocked runs get their slots in the order in which they asked (scheduler.go:278-279). *)
THEOREM BlockedRunsAreNotOvertaken == Spec => NoOvertaking
<1> DEFINE OrderStep ==
      \A r, s \in Runs : Ahead(r, s) => Ahead(r, s)' \/ pc'[r] = "working"
<1>1. SchedulerInv /\ [Next]_vars => [OrderStep]_vars
  <2> SUFFICES ASSUME SchedulerInv, Next, NEW q \in Runs, NEW s \in Runs, Ahead(q, s)
               PROVE  Ahead(q, s)' \/ pc'[q] = "working"
    OBVIOUS
  <2>1. CASE \E r \in Runs : RunStep(r)
    BY <2>1, AheadRunStep
  <2>2. CASE pc' = pc /\ sendq' = sendq
    BY <2>2 DEF Ahead
  <2>. QED
    BY <2>1, <2>2 DEF Next, Ended, vars, runVars, Signal, DaemonStep, Refuse, StartCron,
       StopCron, BeginDrain, ReturnClean, ReturnTimeout, Exit, WaiterStep, CallWait,
       ResumeWait, CloseDone
<1>. QED
  BY <1>1, SchedulerInvariant, PTL DEF Spec, NoOvertaking

------------------------------------------------------------------------------
(* The scheduler implements BackupSlots. *)

NamesIn(S) == {NameOf[r] : r \in At(S)}

\* Adding a run to a set of points adds its name.
LEMMA NamesAdded ==
  ASSUME NEW S, NEW r \in Runs, At(S)' = At(S) \cup {r}
  PROVE  NamesIn(S)' = NamesIn(S) \cup {NameOf[r]}
  BY DEF NamesIn

\* Removing the only run of a name from a set of points removes the name.
LEMMA NamesRemoved ==
  ASSUME NEW S, NEW r \in Runs, At(S)' = At(S) \ {r}, S \subseteq HoldingLock, LockInv,
         r \in At(HoldingLock)
  PROVE  NamesIn(S)' = NamesIn(S) \ {NameOf[r]}
<1>1. At(S) \subseteq At(HoldingLock) /\ At(HoldingLock) \subseteq Runs
  BY DEF At
<1>2. \A q \in At(S) : q # r => NameOf[q] # NameOf[r]
  BY <1>1 DEF LockInv, JobMutex
<1>. QED
  BY <1>2 DEF NamesIn

\* No more names occupy slots than there are tokens in the channel.
LEMMA NamesBounded ==
  ASSUME SlotAccounting, tokens \in Int
  PROVE  Cardinality(NamesIn(Occupying)) <= tokens
<1> DEFINE f == [q \in At(Occupying) |-> NameOf[q]]
<1>1. IsFiniteSet(At(Occupying))
  BY SchedulerAssumption, FS_Subset DEF SchedulerAssumption, At
<1>2. f \in Surjection(At(Occupying), NamesIn(Occupying))
  BY DEF NamesIn, Surjection
<1>3. Cardinality(NamesIn(Occupying)) <= Cardinality(At(Occupying))
  BY <1>1, <1>2, FS_Surjection
<1>. QED
  BY <1>3 DEF SlotAccounting

\* Every step of the scheduler is a step or a stutter of BackupSlots.
LEMMA SlotsRefinementStep ==
  ASSUME SchedulerInv, NEW r \in Runs, RunStep(r)
  PROVE  \/ Abstract!SlotsNext
         \/ UNCHANGED <<NamesIn(Waiting), NamesIn(Occupying)>>
<1> DEFINE n == NameOf[r]
<1>a. n \in Names
  BY SchedulerAssumption DEF SchedulerAssumption
<1>b. TypeOK /\ LockInv /\ SlotAccounting /\ QueueInv
  BY DEF SchedulerInv
<1>c. ASSUME At(Waiting)' = At(Waiting), At(Occupying)' = At(Occupying)
      PROVE  UNCHANGED <<NamesIn(Waiting), NamesIn(Occupying)>>
  BY <1>c DEF NamesIn
<1> HIDE DEF n
<1>1. CASE Launch(r)
  BY <1>1, <1>b, <1>c, Moved DEF Launch
<1>2. CASE Enter(r)
  BY <1>2, <1>b, <1>c, Moved DEF Enter
<1>3. CASE TryLock(r)
  <2>1. At(Waiting)' = At(Waiting) \cup {r} /\ At(Occupying)' = At(Occupying)
    BY <1>3, <1>b, Moved DEF TryLock
  <2>2. \A q \in At(HoldingLock) : NameOf[q] # NameOf[r]
    BY <1>3, <1>a, <1>b DEF TryLock, LockInv, n
  <2>3. n \notin NamesIn(Waiting) \cup NamesIn(Occupying)
    BY <2>2 DEF NamesIn, At, n
  <2>4. NamesIn(Waiting)' = NamesIn(Waiting) \cup {n}
    BY <2>1, NamesAdded DEF n
  <2>5. NamesIn(Occupying)' = NamesIn(Occupying)
    BY <2>1 DEF NamesIn
  <2>6. Abstract!Claim(n)
    BY <2>3, <2>4, <2>5 DEF Abstract!Claim, NamesIn
  <2>. QED
    BY <1>a, <2>6 DEF Abstract!SlotsNext
<1>4. CASE Skip(r)
  BY <1>4, <1>b, <1>c, Moved DEF Skip
<1>5. CASE AcquireSlot(r)
  <2>1. /\ At(Waiting)' = At(Waiting) \ {r}
        /\ r \in At(Waiting)
        /\ At(Occupying)' = At(Occupying) \cup {r}
    BY <1>5, <1>b, Moved DEF AcquireSlot
  <2>2. r \in At(HoldingLock)
    BY <2>1 DEF At
  <2>3. NamesIn(Waiting)' = NamesIn(Waiting) \ {n}
    BY <1>b, <2>1, <2>2, NamesRemoved DEF n
  <2>4. NamesIn(Occupying)' = NamesIn(Occupying) \cup {n}
    BY <2>1, NamesAdded DEF n
  <2>5. n \in NamesIn(Waiting)
    BY <2>1 DEF NamesIn, n
  <2>6. tokens < Slots /\ tokens \in Int /\ Slots \in Int
    BY <1>5, <1>b, SchedulerAssumption DEF SchedulerAssumption, AcquireSlot, TypeOK
  <2>7. Cardinality(NamesIn(Occupying)) \in Nat
    <3> DEFINE f == [q \in At(Occupying) |-> NameOf[q]]
    <3>1. IsFiniteSet(At(Occupying))
      BY SchedulerAssumption, FS_Subset DEF SchedulerAssumption, At
    <3>2. f \in Surjection(At(Occupying), NamesIn(Occupying))
      BY DEF NamesIn, Surjection
    <3>. QED
      BY <3>1, <3>2, FS_Surjection, FS_CardinalityType
  <2>8. Cardinality(NamesIn(Occupying)) < Slots
    BY <1>b, <2>6, <2>7, NamesBounded
  <2>9. Abstract!Begin(n)
    <3>1. Abstract!Cardinality(NamesIn(Occupying)) = Cardinality(NamesIn(Occupying))
      BY DEF Cardinality, Abstract!Cardinality, IsFiniteSet, Abstract!IsFiniteSet
    <3>. QED
      BY <2>3, <2>4, <2>5, <2>8, <3>1 DEF Abstract!Begin, NamesIn
  <2>. QED
    BY <1>a, <2>9 DEF Abstract!SlotsNext
<1>6. CASE JoinQueue(r)
  BY <1>6, <1>b, <1>c, Moved DEF JoinQueue
<1>7. CASE RecordSuccessWatchdog(r)
  BY <1>7, <1>b, <1>c, Moved DEF RecordSuccessWatchdog
<1>8. CASE RecordSuccessHealth(r)
  BY <1>8, <1>b, <1>c, Moved DEF RecordSuccessHealth
<1>9. CASE ReturnNil(r)
  BY <1>9, <1>b, <1>c, Moved DEF ReturnNil
<1>10. CASE ReturnError(r)
  BY <1>10, <1>b, <1>c, Moved DEF ReturnError
<1>11. CASE RecordFailureWatchdog(r)
  BY <1>11, <1>b, <1>c, Moved DEF RecordFailureWatchdog
<1>12. CASE RecordFailureHealth(r)
  BY <1>12, <1>b, <1>c, Moved DEF RecordFailureHealth
<1>13. CASE NotifyFailure(r)
  BY <1>13, <1>b, <1>c, Moved DEF NotifyFailure
<1>14. CASE ReleaseSlot(r)
  <2>1. /\ At(Waiting)' = At(Waiting)
        /\ r \in At(Occupying)
        /\ At(Occupying)' = At(Occupying) \ {r}
    BY <1>14, <1>b, Moved DEF ReleaseSlot
  <2>2. r \in At(HoldingLock)
    BY <2>1 DEF At
  <2>3. NamesIn(Occupying)' = NamesIn(Occupying) \ {n}
    BY <1>b, <2>1, <2>2, NamesRemoved DEF n
  <2>4. NamesIn(Waiting)' = NamesIn(Waiting)
    BY <2>1 DEF NamesIn
  <2>5. n \in NamesIn(Occupying)
    BY <2>1 DEF NamesIn, n
  <2>6. Abstract!Finish(n)
    BY <2>3, <2>4, <2>5 DEF Abstract!Finish, NamesIn
  <2>. QED
    BY <1>a, <2>6 DEF Abstract!SlotsNext
<1>15. CASE PassSlot(r)
  <2>0. PICK h \in Runs : h = Head(sendq)
    BY <1>15, <1>b, PassSlotEffect
  <2>1. /\ pc[h] = "queued" /\ h # r /\ pc[r] = "releasing"
        /\ pc' = [pc EXCEPT ![r] = "unlocking", ![h] = "working"]
    BY <1>15, <1>b, <2>0, PassSlotEffect DEF PassSlot
  <2>2. At(Waiting)' = At(Waiting) \ {h} /\ At(Occupying)' = (At(Occupying) \ {r}) \cup {h}
    BY <1>b, <2>1 DEF At, TypeOK
  <2>3. /\ r \in At(HoldingLock) /\ h \in At(HoldingLock)
        /\ r \in At(Occupying) /\ h \in At(Waiting)
        /\ At(Occupying) \subseteq At(HoldingLock)
        /\ At(HoldingLock) \subseteq Runs
    BY <2>1 DEF At
  <2>4. NamesIn(Waiting)' = NamesIn(Waiting) \ {NameOf[h]}
    BY <1>b, <2>1, <2>2, <2>3, NamesRemoved
  <2>5. \A q \in At(Occupying) : q # r => NameOf[q] # n
    BY <1>b, <2>3 DEF LockInv, JobMutex, n
  <2>6. NamesIn(Occupying)' = (NamesIn(Occupying) \ {n}) \cup {NameOf[h]}
    BY <2>2, <2>5 DEF NamesIn, n
  <2>7. n \in NamesIn(Occupying) /\ NameOf[h] \in NamesIn(Waiting)
    BY <2>3 DEF NamesIn, n
  <2>8. NameOf[h] \in Names
    BY SchedulerAssumption DEF SchedulerAssumption
  <2>9. Abstract!HandOver(n, NameOf[h])
    BY <2>4, <2>6, <2>7 DEF Abstract!HandOver, NamesIn
  <2>10. \E i, j \in Names : Abstract!HandOver(i, j)
    BY <1>a, <2>8, <2>9
  <2>11. Abstract!SlotsNext
    BY <2>10, Zenon DEF Abstract!SlotsNext
  <2>. QED
    BY <2>11
<1>16. CASE Unlock(r)
  BY <1>16, <1>b, <1>c, Moved DEF Unlock
<1>17. CASE Leave(r)
  <2>1. Step(r, "leaving", IF wg = 1 /\ waiter = "blocked" THEN "waking" ELSE "done")
    BY <1>17 DEF Leave
  <2>2. (IF wg = 1 /\ waiter = "blocked" THEN "waking" ELSE "done")
          \notin Waiting \cup Occupying
    OBVIOUS
  <2>. QED
    BY <1>b, <1>c, <2>1, <2>2, Moved
<1>18. CASE WakeWaiter(r)
  BY <1>18, <1>b, <1>c, Moved DEF WakeWaiter
<1>. QED
  BY <1>1, <1>2, <1>3, <1>4, <1>5, <1>6, <1>7, <1>8, <1>9, <1>10, <1>11, <1>12,
     <1>13, <1>14, <1>15, <1>16, <1>17, <1>18 DEF RunStep

(* The goroutines, the mutexes and the channel implement BackupSlots: per name at most one
   backup waits or runs, and at most Slots run (scheduler.go:262-293). *)
THEOREM SchedulerImplementsBackupSlots == Spec => ImplementsBackupSlots
<1>1. Init => Abstract!SlotsInit
  BY DEF Init, Abstract!SlotsInit, At
<1>2. SchedulerInv /\ [Next]_vars => [Abstract!SlotsNext]_(Abstract!slotVars)
  <2> SUFFICES ASSUME SchedulerInv, [Next]_vars
               PROVE  Abstract!SlotsNext \/ UNCHANGED Abstract!slotVars
    OBVIOUS
  <2>1. ASSUME NEW r \in Runs, RunStep(r)
        PROVE  Abstract!SlotsNext \/ UNCHANGED Abstract!slotVars
    BY <2>1, SlotsRefinementStep DEF Abstract!slotVars, NamesIn
  <2>2. CASE UNCHANGED runVars
    BY <2>2 DEF runVars, At, Abstract!slotVars
  <2>. QED
    BY <2>1, <2>2 DEF Next, Ended, vars, Signal, DaemonStep, Refuse, StartCron, StopCron,
       BeginDrain, ReturnClean, ReturnTimeout, Exit, WaiterStep, CallWait, ResumeWait,
       CloseDone
<1>. QED
  BY <1>1, <1>2, SchedulerInvariant, PTL DEF Spec, ImplementsBackupSlots, Abstract!SlotsSpec

==============================================================================
