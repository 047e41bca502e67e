---------------------------- MODULE MonitorsProofs ----------------------------
(***************************************************************************)
(* Proofs about Monitors for every finite set of backups and of clients,   *)
(* every window and every number of runs.                                  *)
(***************************************************************************)
EXTENDS Monitors, SequenceLemmas

USE DEF Recording

------------------------------------------------------------------------------
(* The log of a backup and the record its entries make. *)

\* The entries of one kind are among the first n.
LEMMA EntriesFinite ==
  ASSUME NEW j, NEW n \in Nat, NEW what
  PROVE  /\ IsFiniteSet(EntriesAt(j, n, what)) /\ EntriesAt(j, n, what) \subseteq 1..n
         /\ Cardinality(EntriesAt(j, n, what)) \in Nat
<1>1. EntriesAt(j, n, what) \subseteq 1..n
  BY DEF EntriesAt
<1>2. 1 \in Int /\ n \in Int
  OBVIOUS
<1>. QED
  BY <1>1, <1>2, FS_Interval, FS_Subset, FS_CardinalityType

\* The last success is one of the entries, or 0 if there is none.
LEMMA LastGoodBounds ==
  ASSUME NEW j, NEW n \in Nat
  PROVE  LastGood(j, n) \in 0..n
<1>1. {0} \cup EntriesAt(j, n, "success") \subseteq 0..n
  BY EntriesFinite
<1>. QED
  BY <1>1, MaxIsGreatest DEF LastGood

\* A set of numbers up to n + 1 that has n + 1 has it as its greatest.
LEMMA MaxIsLast ==
  ASSUME NEW n \in Nat, NEW S, S \subseteq 0..n
  PROVE  Max(S \cup {n + 1}) = n + 1
<1>1. S \cup {n + 1} \subseteq 0..(n + 1) /\ n + 1 \in Nat
  OBVIOUS
<1>2. PICK m \in S \cup {n + 1} : m = Max(S \cup {n + 1}) /\ n + 1 <= m
  BY <1>1, MaxIsGreatest
<1>3. m \in 0..(n + 1)
  BY <1>1
<1>. QED
  BY <1>2, <1>3

\* A log without entries makes an empty record.
LEMMA RecordOfNothing ==
  ASSUME NEW j
  PROVE  RecordAt(j, 0) = NoRecord /\ RecordAt(j, 0)' = NoRecord
<1>1. \A what : EntriesAt(j, 0, what) = {} /\ EntriesAt(j, 0, what)' = {}
  BY DEF EntriesAt
<1>2. Cardinality({}) = 0
  BY FS_EmptySet
<1>3. \A S : {i \in {} : i > S} = {}
  OBVIOUS
<1>. QED
  BY <1>1, <1>2, <1>3 DEF RecordAt, NoRecord

\* What an entry does to a record (health.go:81-117).
AfterEntry(rec, what, size) ==
  CASE what = "success" -> [rec EXCEPT !.runs = @ + 1, !.consecutive = 0]
    [] what = "failure" ->
         [rec EXCEPT !.runs = @ + 1, !.fails = @ + 1, !.consecutive = @ + 1]
    [] what = "size" -> [rec EXCEPT !.size = size]

\* A log that has one more entry, and its entries of one kind.
LEMMA LogNext ==
  ASSUME NEW l \in Seq(Events), NEW e, NEW n \in Nat, n = Len(l)
  PROVE  /\ Append(l, e)[n + 1] = e /\ Len(Append(l, e)) = n + 1
         /\ \A i \in 1..n : Append(l, e)[i] = l[i]
OBVIOUS

LEMMA EntriesNext ==
  ASSUME NEW j \in Jobs, NEW e \in Events, NEW n \in Nat, NEW what,
         log \in [Jobs -> Seq(Events)], n = Len(log[j]), log'[j] = Append(log[j], e)
  PROVE  EntriesAt(j, n + 1, what)'
           = EntriesAt(j, n, what) \cup (IF e.what = what THEN {n + 1} ELSE {})
<1>1. log[j] \in Seq(Events)
  OBVIOUS
<1>2. log'[j][n + 1] = e /\ \A i \in 1..n : log'[j][i] = log[j][i]
  BY <1>1, LogNext
<1>3. 1..(n + 1) = 1..n \cup {n + 1}
  OBVIOUS
<1>. QED
  BY <1>2, <1>3 DEF EntriesAt

\* A set of entries grows by one.
LEMMA OneMore ==
  ASSUME NEW n \in Nat, NEW S, IsFiniteSet(S), S \subseteq 1..n
  PROVE  /\ Cardinality(S) \in Nat
         /\ Cardinality(S \cup {n + 1}) = Cardinality(S) + 1
<1>1. n + 1 \notin S
  OBVIOUS
<1>. QED
  BY <1>1, FS_AddElement, FS_CardinalityType

\* The record of a log that has one more entry is what that entry makes of the record.
LEMMA RecordNext ==
  ASSUME NEW j \in Jobs, NEW e \in Events, NEW n \in Nat,
         log \in [Jobs -> Seq(Events)], n = Len(log[j]), log'[j] = Append(log[j], e)
  PROVE  RecordAt(j, n + 1)' = AfterEntry(RecordAt(j, n), e.what, e.size)
<1> DEFINE good == EntriesAt(j, n, "success")
           bad  == EntriesAt(j, n, "failure")
           size == EntriesAt(j, n, "size")
           since == {i \in bad : i > LastGood(j, n)}
<1>1. /\ IsFiniteSet(good) /\ IsFiniteSet(bad) /\ IsFiniteSet(size)
      /\ good \subseteq 1..n /\ bad \subseteq 1..n /\ size \subseteq 1..n
  BY EntriesFinite
<1>2. IsFiniteSet(good \cup bad) /\ good \cup bad \subseteq 1..n
  BY <1>1, FS_Union
<1>3. IsFiniteSet(since) /\ since \subseteq 1..n
  BY <1>1, FS_Subset
<1>4. /\ EntriesAt(j, n + 1, "success")' = IF e.what = "success" THEN good \cup {n + 1} ELSE good
      /\ EntriesAt(j, n + 1, "failure")' = IF e.what = "failure" THEN bad \cup {n + 1} ELSE bad
      /\ EntriesAt(j, n + 1, "size")' = IF e.what = "size" THEN size \cup {n + 1} ELSE size
      /\ \A i \in 1..n : log'[j][i] = log[j][i]
      /\ log'[j][n + 1] = e
  <2>1. EntriesAt(j, n + 1, "success")'
          = good \cup (IF e.what = "success" THEN {n + 1} ELSE {})
    BY EntriesNext
  <2>2. EntriesAt(j, n + 1, "failure")'
          = bad \cup (IF e.what = "failure" THEN {n + 1} ELSE {})
    BY EntriesNext
  <2>3. EntriesAt(j, n + 1, "size")'
          = size \cup (IF e.what = "size" THEN {n + 1} ELSE {})
    BY EntriesNext
  <2>4. log'[j][n + 1] = e /\ \A i \in 1..n : log'[j][i] = log[j][i]
    <3>1. log[j] \in Seq(Events)
      OBVIOUS
    <3>. QED
      BY <3>1, LogNext
  <2>. QED
    BY <2>1, <2>2, <2>3, <2>4
<1>5. LastGood(j, n) \in 0..n
  BY LastGoodBounds
<1>6. e.what # "success" => LastGood(j, n + 1)' = LastGood(j, n)
  BY <1>4 DEF LastGood
<1>7. e.what # "size" =>
        /\ EntriesAt(j, n + 1, "size")' = size
        /\ size # {} => log'[j][Max(size)].size = log[j][Max(size)].size
  <2>1. size # {} => Max(size) \in 1..n
    <3>1. size \subseteq 0..n
      BY <1>1
    <3>2. size # {} => Max(size) \in size
      BY <3>1, MaxIsGreatest
    <3>. QED
      BY <1>1, <3>2
  <2>. QED
    BY <1>4, <2>1
<1>8. CASE e.what = "success"
  <2>1. EntriesAt(j, n + 1, "success")' = good \cup {n + 1} /\ EntriesAt(j, n + 1, "failure")' = bad
    BY <1>4, <1>8
  <2>2. LastGood(j, n + 1)' = n + 1
    <3>1. {0} \cup (good \cup {n + 1}) = ({0} \cup good) \cup {n + 1} /\ {0} \cup good \subseteq 0..n
      BY <1>1
    <3>2. Max(({0} \cup good) \cup {n + 1}) = n + 1
      BY <3>1, MaxIsLast
    <3>. QED
      BY <2>1, <3>1, <3>2 DEF LastGood
  <2>3. {i \in bad : i > n + 1} = {} /\ Cardinality({}) = 0
    BY <1>1, FS_EmptySet
  <2>4. /\ Cardinality((good \cup {n + 1}) \cup bad) = Cardinality(good \cup bad) + 1
    <3>1. (good \cup {n + 1}) \cup bad = (good \cup bad) \cup {n + 1}
      OBVIOUS
    <3>. QED
      BY <1>2, <3>1, OneMore
  <2>5. RecordAt(j, n + 1)' = [runs |-> Cardinality(good \cup bad) + 1,
                               fails |-> Cardinality(bad), consecutive |-> 0,
                               size |-> IF size = {} THEN 0 ELSE log[j][Max(size)].size]
    BY <1>7, <1>8, <2>1, <2>2, <2>3, <2>4 DEF RecordAt
  <2>. QED
    BY <1>8, <2>5 DEF RecordAt, AfterEntry
<1>9. CASE e.what = "failure"
  <2>1. EntriesAt(j, n + 1, "success")' = good /\ EntriesAt(j, n + 1, "failure")' = bad \cup {n + 1}
    BY <1>4, <1>9
  <2>2. LastGood(j, n + 1)' = LastGood(j, n)
    BY <1>6, <1>9
  <2>3. {i \in EntriesAt(j, n + 1, "failure")' : i > LastGood(j, n + 1)'} = since \cup {n + 1}
    BY <1>5, <2>1, <2>2
  <2>4. /\ Cardinality(good \cup (bad \cup {n + 1})) = Cardinality(good \cup bad) + 1
        /\ Cardinality(bad \cup {n + 1}) = Cardinality(bad) + 1
        /\ Cardinality(since \cup {n + 1}) = Cardinality(since) + 1
    <3>1. good \cup (bad \cup {n + 1}) = (good \cup bad) \cup {n + 1}
      OBVIOUS
    <3>2. Cardinality((good \cup bad) \cup {n + 1}) = Cardinality(good \cup bad) + 1
      BY <1>2, OneMore
    <3>3. Cardinality(bad \cup {n + 1}) = Cardinality(bad) + 1
      BY <1>1, OneMore
    <3>4. Cardinality(since \cup {n + 1}) = Cardinality(since) + 1
      BY <1>3, OneMore
    <3>. QED
      BY <3>1, <3>2, <3>3, <3>4
  <2>5. RecordAt(j, n + 1)' = [runs |-> Cardinality(good \cup bad) + 1,
                               fails |-> Cardinality(bad) + 1,
                               consecutive |-> Cardinality(since) + 1,
                               size |-> IF size = {} THEN 0 ELSE log[j][Max(size)].size]
    BY <1>7, <1>9, <2>1, <2>2, <2>3, <2>4 DEF RecordAt
  <2>. QED
    BY <1>9, <2>5 DEF RecordAt, AfterEntry
<1>10. CASE e.what = "size"
  <2>1. /\ EntriesAt(j, n + 1, "success")' = good /\ EntriesAt(j, n + 1, "failure")' = bad
        /\ EntriesAt(j, n + 1, "size")' = size \cup {n + 1}
    BY <1>4, <1>10
  <2>2. LastGood(j, n + 1)' = LastGood(j, n)
    BY <1>6, <1>10
  <2>3. size \cup {n + 1} # {} /\ Max(size \cup {n + 1}) = n + 1
    <3>1. size \subseteq 0..n
      BY <1>1
    <3>. QED
      BY <3>1, MaxIsLast
  <2>4. log'[j][n + 1].size = e.size
    BY <1>4
  <2>. QED
    BY <1>10, <2>1, <2>2, <2>3, <2>4 DEF RecordAt, AfterEntry
<1>. QED
  BY <1>8, <1>9, <1>10 DEF Events

\* A record depends on its own log only.
LEMMA RecordSame ==
  ASSUME NEW j, NEW n, log'[j] = log[j]
  PROVE  RecordAt(j, n)' = RecordAt(j, n)
<1>1. \A what : EntriesAt(j, n, what)' = EntriesAt(j, n, what)
  BY DEF EntriesAt
<1>. QED
  BY <1>1 DEF RecordAt, LastGood

\* An entry makes a record of a record.
LEMMA AfterEntryTyped ==
  ASSUME NEW rec \in Records, NEW what \in Recording, NEW size \in Nat
  PROVE  AfterEntry(rec, what, size) \in Records
<1>0. PICK runs \in Nat, fails \in Nat, row \in Nat, last \in Nat :
        rec = [runs |-> runs, fails |-> fails, consecutive |-> row, size |-> last]
  BY DEF Records
<1>1. CASE what = "success"
  <2>1. AfterEntry(rec, what, size)
          = [runs |-> runs + 1, fails |-> fails, consecutive |-> 0, size |-> last]
    BY <1>0, <1>1 DEF AfterEntry
  <2>. QED
    BY <2>1 DEF Records
<1>2. CASE what = "failure"
  <2>1. AfterEntry(rec, what, size)
          = [runs |-> runs + 1, fails |-> fails + 1, consecutive |-> row + 1, size |-> last]
    BY <1>0, <1>2 DEF AfterEntry
  <2>. QED
    BY <2>1 DEF Records
<1>3. CASE what = "size"
  BY <1>3 DEF AfterEntry, Records
<1>. QED
  BY <1>1, <1>2, <1>3

------------------------------------------------------------------------------
(* The window of the tracker (tracker.go:65-92). *)

\* How many sizes of n the tracker remembers.
Kept(n) == IF n > Window THEN Window ELSE n

\* The window holds the last sizes, in order.
LEMMA TrimmedIs ==
  ASSUME NEW T, NEW z \in Seq(T)
  PROVE  /\ Kept(Len(z)) \in 0..Len(z) /\ Kept(Len(z)) <= Window
         /\ Trimmed(z) \in Seq(T)
         /\ Len(Trimmed(z)) = Kept(Len(z))
         /\ \A i \in 1..Kept(Len(z)) : Trimmed(z)[i] = z[Len(z) - Kept(Len(z)) + i]
<1>1. Window \in Nat \ {0} /\ Len(z) \in Nat
  BY MonitorsAssumption DEF MonitorsAssumption
<1>2. PICK k \in Nat : k = Kept(Len(z)) /\ k <= Len(z) /\ k <= Window
  BY <1>1 DEF Kept
<1>3. Trimmed(z) = SubSeq(z, Len(z) - k + 1, Len(z))
  BY <1>2 DEF Trimmed, Kept
<1>4. PICK d \in Nat : d = Len(z) - k
  BY <1>1, <1>2
<1>5. /\ SubSeq(z, d + 1, Len(z)) \in Seq(T)
      /\ Len(SubSeq(z, d + 1, Len(z))) = k
      /\ \A i \in 1..k : SubSeq(z, d + 1, Len(z))[i] = z[d + i]
  BY SMTT(30), <1>1, <1>2, <1>4
<1>6. \A i \in 1..k : Len(z) - k + i = d + i
  BY <1>1, <1>4
<1>7. Trimmed(z) = SubSeq(z, d + 1, Len(z)) /\ k \in 0..Len(z)
  BY <1>1, <1>2, <1>3, <1>4
<1>8. \A i \in 1..k : Trimmed(z)[i] = z[Len(z) - k + i]
  BY <1>5, <1>6, <1>7
<1>. QED
  BY <1>2, <1>5, <1>7, <1>8

\* Sequences of the same elements are equal.
LEMMA SameSeq ==
  ASSUME NEW T, NEW u \in Seq(T), NEW v \in Seq(T), NEW n, Len(u) = n, Len(v) = n,
         \A i \in 1..n : u[i] = v[i]
  PROVE  u = v
OBVIOUS

\* Trimming after each size is trimming all sizes at the end.
LEMMA TrimmedNext ==
  ASSUME NEW T, NEW z \in Seq(T), NEW x \in T
  PROVE  Trimmed(Append(Trimmed(z), x)) = Trimmed(Append(z, x))
<1>1. Window \in Nat \ {0} /\ Len(z) \in Nat
  BY MonitorsAssumption DEF MonitorsAssumption
<1> DEFINE k == Kept(Len(z))
           a == Append(Trimmed(z), x)
           b == Append(z, x)
<1>2. /\ k \in 0..Len(z) /\ Trimmed(z) \in Seq(T) /\ Len(Trimmed(z)) = k
      /\ \A i \in 1..k : Trimmed(z)[i] = z[Len(z) - k + i]
  BY TrimmedIs
<1>3. /\ a \in Seq(T) /\ b \in Seq(T) /\ Len(a) = k + 1 /\ Len(b) = Len(z) + 1
  BY <1>2
<1>4. \A i \in 1..Len(a) : a[i] = b[Len(b) - Len(a) + i]
  BY <1>1, <1>2, <1>3
<1>5. Kept(Len(a)) = Kept(Len(b)) /\ Kept(Len(a)) \in 0..Len(a)
  BY <1>1, <1>3 DEF Kept
<1>6. /\ Trimmed(a) \in Seq(T) /\ Len(Trimmed(a)) = Kept(Len(a))
      /\ \A i \in 1..Kept(Len(a)) : Trimmed(a)[i] = a[Len(a) - Kept(Len(a)) + i]
  BY <1>3, TrimmedIs
<1>7. /\ Trimmed(b) \in Seq(T) /\ Len(Trimmed(b)) = Kept(Len(b))
      /\ \A i \in 1..Kept(Len(b)) : Trimmed(b)[i] = b[Len(b) - Kept(Len(b)) + i]
  BY <1>3, TrimmedIs
<1>8. \A i \in 1..Kept(Len(a)) : Trimmed(a)[i] = Trimmed(b)[i]
  <2> SUFFICES ASSUME NEW i \in 1..Kept(Len(a)) PROVE Trimmed(a)[i] = Trimmed(b)[i]
    OBVIOUS
  <2>1. PICK m \in Nat : m = Kept(Len(a)) /\ m <= Len(a)
    BY <1>3, <1>5
  <2>2. PICK p \in 1..Len(a) : p = Len(a) - m + i
    BY <1>1, <1>2, <1>3, <2>1
  <2>3. Len(b) - Len(a) + p = Len(b) - m + i
    <3>1. PICK l \in Nat, g \in Nat : l = Len(a) /\ g = Len(b)
      BY <1>1, <1>2, <1>3
    <3>2. i \in Nat /\ p = l - m + i
      BY <2>1, <2>2, <3>1
    <3>3. g - l + p = g - m + i
      BY <3>2
    <3>. QED
      BY <3>1, <3>3
  <2>4. a[p] = b[Len(b) - m + i]
    BY <1>4, <2>3
  <2>. QED
    BY <1>5, <1>6, <1>7, <2>1, <2>2, <2>4
<1>9. Trimmed(a) = Trimmed(b)
  <2> HIDE DEF a, b
  <2>1. PICK u \in Seq(T), v \in Seq(T), n \in Nat :
          u = Trimmed(a) /\ v = Trimmed(b) /\ n = Kept(Len(a))
    BY <1>1, <1>3, <1>6, <1>7 DEF Kept
  <2>2. Len(u) = n /\ Len(v) = n /\ \A i \in 1..n : u[i] = v[i]
    BY <1>5, <1>6, <1>7, <1>8, <2>1
  <2>3. u = v
    BY <2>2, SameSeq
  <2>. QED
    BY <2>1, <2>3
<1>. QED
  BY <1>9

------------------------------------------------------------------------------
(* What a step of a run records. *)

\* The size a run reports is a number.
LEMMA TrackedIsNat ==
  ASSUME TypeOK, TrackerInv, NEW j \in Jobs
  PROVE  TrackedSize(j) \in Nat
<1>1. CASE step[j] = "size"
  <2>1. sizes[j] # <<>> /\ sizes[j] \in Seq(Nat) /\ history[j] = Trimmed(sizes[j])
    BY <1>1 DEF TypeOK, TrackerInv
  <2>2. Window \in Nat \ {0} /\ Len(sizes[j]) \in Nat \ {0}
    BY <2>1, MonitorsAssumption DEF MonitorsAssumption
  <2>3. Kept(Len(sizes[j])) \in Nat \ {0}
    BY <2>2 DEF Kept
  <2>4. history[j] \in Seq(Nat) /\ Len(history[j]) \in Nat \ {0}
    BY <2>1, <2>3, TrimmedIs
  <2>. QED
    BY <1>1, <2>4 DEF TrackedSize, Last
<1>2. CASE step[j] # "size"
  BY <1>2 DEF TrackedSize
<1>. QED
  BY <1>1, <1>2

\* A write adds one entry to one log and does to that record what the entry says.
LEMMA WriteEffect ==
  ASSUME TypeOK, LockInv, TrackerInv, NEW j \in Jobs, Write(j)
  PROVE  \E e \in Events :
           /\ e.what \in Recording /\ e.size \in Nat
           /\ log' = [log EXCEPT ![j] = Append(@, e)]
           /\ status' = [status EXCEPT ![j] = AfterEntry(status[j], e.what, e.size)]
<1> DEFINE e == [what |-> step[j], size |-> TrackedSize(j)]
<1>1. step[j] \in Recording
  BY MonitorsAssumption DEF MonitorsAssumption, LockInv, Write
<1>2. TrackedSize(j) \in Nat
  BY TrackedIsNat
<1>3. e \in Events
  BY <1>1, <1>2 DEF Events
<1>4. log' = [log EXCEPT ![j] = Append(@, e)]
  BY DEF Write
<1>5. Recorded(j) = AfterEntry(status[j], step[j], TrackedSize(j))
  BY <1>1 DEF Recorded, AfterEntry
<1>6. status' = [status EXCEPT ![j] = AfterEntry(status[j], step[j], TrackedSize(j))]
  BY <1>5 DEF Write
<1>. QED
  BY <1>1, <1>2, <1>3, <1>4, <1>6

------------------------------------------------------------------------------
(* Every variable keeps its type. *)

\* The initial values, which are also those the end of the process leaves behind.
LEMMA FreshTyped ==
  /\ NoRuns \in [Jobs -> {"idle", "tracking"} \cup Recording]
  /\ NoAlarms \in [Jobs -> BOOLEAN]
  /\ NoRecords \in [Jobs -> Records]
  /\ Nothing \in [Jobs -> Seq(Nat)] /\ Nothing \in [Jobs -> Seq(Events)]
  /\ \A j \in Jobs : Len(Nothing[j]) <= Window /\ Nothing[j] \in Seq(Sizes[j])
<1>1. Window \in Nat
  BY MonitorsAssumption DEF MonitorsAssumption
<1>2. NoRecord \in Records
  BY DEF NoRecord, Records
<1>3. NoRecords \in [Jobs -> Records]
  BY <1>2 DEF NoRecords
<1>. QED
  BY <1>1, <1>3 DEF NoRuns, NoAlarms, Nothing

\* The initial state is well typed (health.go:53-70, tracker.go:36-45).
LEMMA TypeInit == Init => TypeOK
<1> SUFFICES ASSUME Init PROVE TypeOK
  OBVIOUS
<1>1. copy = [c \in Clients |-> copy[c]]
  BY DEF Init
<1>2. \A c \in Clients : \E S \in SUBSET Jobs : copy[c] \in [S -> Records]
  <2> SUFFICES ASSUME NEW c \in Clients PROVE copy[c] \in [{} -> Records]
    OBVIOUS
  <2>1. copy[c] = <<>>
    BY DEF Init
  <2>2. <<>> \in [{} -> Records]
    OBVIOUS
  <2>. QED
    BY <2>1, <2>2
<1>3. /\ handler \in [Clients -> {"none", "blocked", "reading"}]
      /\ shown \in [Clients -> {"asking", "NOT RUNNING", "RUNNING", "DEGRADED"}]
      /\ seen \in [Clients -> SUBSET [Jobs -> Nat]]
  BY DEF Init
<1>. QED
  BY <1>1, <1>2, <1>3, FreshTyped DEF Init, TypeOK

\* The lengths of the logs are a moment.
LEMMA MomentTyped ==
  ASSUME log \in [Jobs -> Seq(Events)]
  PROVE  /\ Moment \in [Jobs -> Nat]
         /\ \A j \in Jobs : [Moment EXCEPT ![j] = @ + 1] \in [Jobs -> Nat]
<1>1. \A j \in Jobs : Len(log[j]) \in Nat
  OBVIOUS
<1>. QED
  BY <1>1 DEF Moment

\* A run that announces itself keeps the type of the writer.
LEMMA LockTyped ==
  ASSUME NEW j \in Jobs, writer \in Jobs \cup {Nobody}, Lock(j)
  PROVE  writer' \in Jobs \cup {Nobody}
  BY DEF Lock

\* A step of a run keeps the types (health.go:81-117, scheduler.go:533-567).
LEMMA TypeRunStep ==
  ASSUME TypeOK, LockInv, TrackerInv, NEW j \in Jobs, EndPipeline(j) \/ GoOn(j)
  PROVE  TypeOK'
<1>1. CASE EndPipeline(j)
  <2>1. /\ step' \in [Jobs -> {"idle", "tracking"} \cup Recording]
        /\ writer' \in Jobs \cup {Nobody}
    BY <1>1, LockTyped DEF TypeOK, EndPipeline
  <2>. QED
    BY <1>1, <2>1 DEF TypeOK, EndPipeline, httpVars
<1>2. CASE Announce(j)
  <2>1. writer' \in Jobs \cup {Nobody}
    BY <1>2, LockTyped DEF TypeOK, Announce
  <2>. QED
    BY <1>2, <2>1 DEF TypeOK, Announce, runVars, httpVars
<1>3. CASE Write(j)
  <2>1. PICK e \in Events :
          /\ e.what \in Recording /\ e.size \in Nat
          /\ log' = [log EXCEPT ![j] = Append(@, e)]
          /\ status' = [status EXCEPT ![j] = AfterEntry(status[j], e.what, e.size)]
    BY <1>3, WriteEffect
  <2>2. log' \in [Jobs -> Seq(Events)]
    <3>1. log \in [Jobs -> Seq(Events)]
      BY DEF TypeOK
    <3>2. Append(log[j], e) \in Seq(Events)
      BY <3>1
    <3>. QED
      BY <2>1, <3>1, <3>2
  <2>3. status' \in [Jobs -> Records]
    <3>1. status[j] \in Records
      BY DEF TypeOK
    <3>2. AfterEntry(status[j], e.what, e.size) \in Records
      BY <2>1, <3>1, AfterEntryTyped
    <3>. QED
      BY <2>1, <3>2 DEF TypeOK
  <2>4. seen' \in [Clients -> SUBSET [Jobs -> Nat]]
    <3>1. PICK m \in [Jobs -> Nat] : m = [Moment EXCEPT ![j] = @ + 1]
      BY MomentTyped DEF TypeOK
    <3>2. seen' = [c \in Clients |-> IF handler[c] = "none" THEN {} ELSE seen[c] \cup {m}]
      BY <1>3, <3>1 DEF Write
    <3>. QED
      BY <3>2 DEF TypeOK
  <2>5. /\ step' \in [Jobs -> {"idle", "tracking"} \cup Recording]
        /\ writer' \in Jobs \cup {Nobody}
        /\ handler' \in [Clients -> {"none", "blocked", "reading"}]
    BY <1>3 DEF TypeOK, Write
  <2>. QED
    BY <1>3, <2>2, <2>3, <2>4, <2>5 DEF TypeOK, Write
<1>4. CASE Track(j)
  <2>1. /\ step' \in [Jobs -> {"idle", "tracking"} \cup Recording]
        /\ writer' \in Jobs \cup {Nobody}
    BY <1>4, LockTyped DEF TypeOK, Track
  <2>2. CASE UNCHANGED <<history, alarm, sizes, writer>>
    BY <1>4, <2>1, <2>2 DEF TypeOK, Track, httpVars
  <2>3. ASSUME NEW s \in Sizes[j],
               alarm' = [alarm EXCEPT ![j] = Anomalous(j, s)],
               history' = [history EXCEPT ![j] = Trimmed(Append(@, s))],
               sizes' = [sizes EXCEPT ![j] = Append(@, s)]
        PROVE  TypeOK'
    <3>1. s \in Nat /\ Sizes[j] \subseteq Nat
      BY MonitorsAssumption DEF MonitorsAssumption
    <3>2. alarm' \in [Jobs -> BOOLEAN]
      BY <2>3 DEF TypeOK, Anomalous
    <3>3. Append(history[j], s) \in Seq(Nat)
      <4>1. history[j] \in Seq(Nat)
        BY DEF TypeOK
      <4>. QED
        BY <3>1, <4>1
    <3>4. /\ Trimmed(Append(history[j], s)) \in Seq(Nat)
          /\ Len(Trimmed(Append(history[j], s))) <= Window
      BY <3>3, TrimmedIs
    <3>5. /\ history' \in [Jobs -> Seq(Nat)]
          /\ \A i \in Jobs : Len(history'[i]) <= Window
      BY <2>3, <3>4 DEF TypeOK
    <3>6. /\ sizes' \in [Jobs -> Seq(Nat)]
          /\ \A i \in Jobs : sizes'[i] \in Seq(Sizes[i])
      <4>1. sizes \in [Jobs -> Seq(Nat)] /\ \A i \in Jobs : sizes[i] \in Seq(Sizes[i])
        BY DEF TypeOK
      <4>2. sizes[j] \in Seq(Nat) /\ sizes[j] \in Seq(Sizes[j])
        BY <4>1
      <4>3. Append(sizes[j], s) \in Seq(Nat) /\ Append(sizes[j], s) \in Seq(Sizes[j])
        <5>1. \A T : \A q \in Seq(T) : \A x \in T : Append(q, x) \in Seq(T)
          OBVIOUS
        <5>. QED
          BY <3>1, <4>2, <5>1
      <4>. QED
        BY <2>3, <4>1, <4>3
    <3>. QED
      BY <1>4, <2>1, <3>2, <3>5, <3>6 DEF TypeOK, Track, httpVars
  <2>. QED
    BY <1>4, <2>2, <2>3 DEF Track
<1>. QED
  BY <1>1, <1>2, <1>3, <1>4 DEF GoOn

\* A handler that ends leaves nothing behind.
LEMMA EndTyped ==
  ASSUME TypeOK, NEW c \in Clients, EndHandler(c)
  PROVE  /\ copy' = [d \in Clients |-> copy'[d]]
         /\ \A d \in Clients : \E S \in SUBSET Jobs : copy'[d] \in [S -> Records]
         /\ handler' \in [Clients -> {"none", "blocked", "reading"}]
         /\ seen' \in [Clients -> SUBSET [Jobs -> Nat]]
<1>1. copy' = [copy EXCEPT ![c] = <<>>] /\ copy = [d \in Clients |-> copy[d]]
  BY DEF EndHandler, TypeOK
<1>2. <<>> \in [{} -> Records]
  OBVIOUS
<1>3. \A d \in Clients : \E S \in SUBSET Jobs : copy'[d] \in [S -> Records]
  BY <1>1, <1>2 DEF TypeOK
<1>4. /\ handler' \in [Clients -> {"none", "blocked", "reading"}]
      /\ seen' \in [Clients -> SUBSET [Jobs -> Nat]]
  BY DEF EndHandler, TypeOK
<1>. QED
  BY <1>1, <1>3, <1>4

\* A step of a request or of the shutdown keeps the types (health.go:155-208,
\* status.go:76-125).
LEMMA TypeClientStep ==
  ASSUME TypeOK, NEW c \in Clients, Ask(c) \/ Handle(c) \/ GiveUp(c)
  PROVE  TypeOK'
<1>1. CASE Ask(c)
  <2>1. seen' \in [Clients -> SUBSET [Jobs -> Nat]]
    <3>1. PICK m \in [Jobs -> Nat] : m = Moment
      BY MomentTyped DEF TypeOK
    <3>2. seen' = [seen EXCEPT ![c] = {m}] \/ seen' = seen
      BY <1>1, <3>1 DEF Ask
    <3>3. seen \in [Clients -> SUBSET [Jobs -> Nat]] /\ {m} \in SUBSET [Jobs -> Nat]
      BY DEF TypeOK
    <3>4. CASE seen' = [seen EXCEPT ![c] = {m}]
      <4> HIDE DEF Moment
      <4>. QED
        BY <3>3, <3>4
    <3>. QED
      BY <3>2, <3>3, <3>4
  <2>2. /\ handler' \in [Clients -> {"none", "blocked", "reading"}]
        /\ shown' \in [Clients -> {"asking", "NOT RUNNING", "RUNNING", "DEGRADED"}]
    BY <1>1 DEF TypeOK, Ask
  <2>. QED
    BY <1>1, <2>1, <2>2 DEF TypeOK, Ask, runVars
<1>2. CASE Copy(c)
  <2>1. PICK j \in Jobs :
          copy' = [copy EXCEPT ![c] = [i \in DOMAIN @ \cup {j} |-> IF i = j THEN status[j] ELSE @[i]]]
    BY <1>2 DEF Copy
  <2>2. PICK S \in SUBSET Jobs : copy[c] \in [S -> Records]
    BY DEF TypeOK
  <2>3. copy'[c] \in [S \cup {j} -> Records] /\ \A d \in Clients : d # c => copy'[d] = copy[d]
    BY <2>1, <2>2 DEF TypeOK
  <2>4. copy' = [d \in Clients |-> copy'[d]]
    BY <2>1 DEF TypeOK
  <2>5. \A d \in Clients : \E T \in SUBSET Jobs : copy'[d] \in [T -> Records]
    BY ZenonT(60), <2>2, <2>3 DEF TypeOK
  <2>. QED
    BY <1>2, <2>4, <2>5 DEF TypeOK, Copy, runVars
<1>3. CASE Answer(c)
  <2>1. shown' \in [Clients -> {"asking", "NOT RUNNING", "RUNNING", "DEGRADED"}]
    BY <1>3 DEF TypeOK, Answer, Report
  <2>. QED
    BY <1>3, <2>1, EndTyped DEF TypeOK, Answer, EndHandler, runVars
<1>4. CASE WriteTimeout(c)
  <2>1. shown' \in [Clients -> {"asking", "NOT RUNNING", "RUNNING", "DEGRADED"}]
    BY <1>4 DEF TypeOK, WriteTimeout
  <2>. QED
    BY <1>4, <2>1, EndTyped DEF TypeOK, WriteTimeout, EndHandler, runVars
<1>5. CASE GiveUp(c)
  <2>1. shown' \in [Clients -> {"asking", "NOT RUNNING", "RUNNING", "DEGRADED"}]
    BY <1>5 DEF TypeOK, GiveUp
  <2>. QED
    BY <1>5, <2>1 DEF TypeOK, GiveUp, runVars
<1>. QED
  BY <1>1, <1>2, <1>3, <1>4, <1>5 DEF Handle

LEMMA TypeStopStep ==
  ASSUME TypeOK, BeginStop \/ EndStop
  PROVE  TypeOK'
<1>1. CASE BeginStop
  BY <1>1 DEF TypeOK, BeginStop, runVars, httpVars
<1>2. CASE EndStop
  BY <1>2, FreshTyped DEF TypeOK, EndStop, httpVars
<1>. QED
  BY <1>1, <1>2

------------------------------------------------------------------------------
(* The lock, the readers, the records and the window. *)

\* A step of a run keeps what is said of the lock (health.go:81-117).
LEMMA LockRunStep ==
  ASSUME TypeOK, LockInv, NEW j \in Jobs, EndPipeline(j) \/ GoOn(j)
  PROVE  LockInv'
<1>0. Nobody \notin Jobs
  BY MonitorsAssumption DEF MonitorsAssumption
<1>1. CASE EndPipeline(j)
  BY <1>0, <1>1 DEF TypeOK, LockInv, EndPipeline, Lock, httpVars
<1>2. CASE Announce(j)
  BY <1>0, <1>2 DEF TypeOK, LockInv, Announce, Lock, runVars, httpVars
<1>3. CASE Write(j)
  BY <1>0, <1>3 DEF TypeOK, LockInv, Write
<1>4. CASE Track(j)
  <2>1. /\ handler' = handler /\ step[j] = "tracking"
        /\ \A i \in Jobs : i # j => step'[i] = step[i]
        /\ \/ writer' = writer
           \/ writer' = j /\ step'[j] = "size"
    BY <1>4 DEF TypeOK, Track, Lock, httpVars
  <2>2. writer # Nobody => writer \in Jobs /\ writer # j /\ step[writer] \in Recording
    BY <2>1 DEF TypeOK, LockInv
  <2>3. writer' # Nobody => step'[writer'] \in Recording
    BY <2>1, <2>2
  <2>4. \A c \in Clients : handler'[c] = "blocked" => writer' # Nobody
    BY <1>0, <2>1 DEF LockInv
  <2>. QED
    BY <2>3, <2>4 DEF LockInv
<1>. QED
  BY <1>1, <1>2, <1>3, <1>4 DEF GoOn

\* A step of a request or of the shutdown keeps what is said of the lock.
LEMMA LockOtherStep ==
  ASSUME TypeOK, LockInv,
         (\E c \in Clients : Ask(c) \/ Handle(c) \/ GiveUp(c)) \/ BeginStop \/ EndStop
  PROVE  LockInv'
<1>1. ASSUME NEW c \in Clients, Ask(c)
      PROVE  LockInv'
  <2>1. step' = step /\ writer' = writer
    BY <1>1 DEF Ask, runVars
  <2>2. \A d \in Clients : d # c => handler'[d] = handler[d]
    BY <1>1 DEF Ask, TypeOK
  <2>3. handler'[c] = "blocked" => handler[c] = "blocked" \/ writer # Nobody
    BY <1>1 DEF Ask, TypeOK
  <2>. QED
    BY <2>1, <2>2, <2>3 DEF LockInv
<1>2. ASSUME NEW c \in Clients, Handle(c) \/ GiveUp(c)
      PROVE  LockInv'
  <2>1. step' = step /\ writer' = writer
    BY <1>2 DEF Handle, Copy, Answer, WriteTimeout, EndHandler, GiveUp, runVars
  <2>2. handler' = handler \/ handler' = [handler EXCEPT ![c] = "none"]
    BY <1>2 DEF Handle, Copy, Answer, WriteTimeout, EndHandler, GiveUp
  <2>3. \A d \in Clients : handler'[d] = "blocked" => handler[d] = "blocked"
    BY <2>2 DEF TypeOK
  <2>. QED
    BY <2>1, <2>3 DEF LockInv
<1>3. CASE BeginStop \/ EndStop
  BY <1>3 DEF LockInv, BeginStop, EndStop, runVars, httpVars
<1>. QED
  BY <1>1, <1>2, <1>3

\* A step that neither writes a record nor serves a request keeps what is said of readers.
LEMMA ReadersFrame ==
  ASSUME ReadersInv, UNCHANGED <<httpVars, status, log>>
  PROVE  ReadersInv'
  BY DEF ReadersInv, httpVars, Moment

\* A writer has its turn when nobody reads, so no copy is left that its write could make
\* stale (health.go:81-117, 185-208).
LEMMA ReadersWrite ==
  ASSUME TypeOK, ReadersInv, NEW j \in Jobs, Write(j)
  PROVE  ReadersInv'
<1>1. \A c \in Clients : DOMAIN copy[c] = {} /\ copy' = copy /\ shown' = shown
  BY DEF Write, ReadersInv
<1>2. Moment' = [Moment EXCEPT ![j] = @ + 1]
  <2>1. \A i \in Jobs : Len(log'[i]) = IF i = j THEN Len(log[i]) + 1 ELSE Len(log[i])
    <3>1. /\ log'[j] = Append(log[j], [what |-> step[j], size |-> TrackedSize(j)])
          /\ \A i \in Jobs : i # j => log'[i] = log[i]
      BY DEF TypeOK, Write
    <3>2. Len(log'[j]) = Len(log[j]) + 1
      <4>1. PICK l \in Seq(Events) : l = log[j]
        BY DEF TypeOK
      <4>2. PICK e : e = [what |-> step[j], size |-> TrackedSize(j)]
        OBVIOUS
      <4>3. Len(Append(l, e)) = Len(l) + 1
        BY <4>1, LogNext
      <4>. QED
        BY <3>1, <4>1, <4>2, <4>3
    <3>. QED
      BY <3>1, <3>2
  <2>. QED
    BY <2>1 DEF Moment
<1>3. PICK m : m = [Moment EXCEPT ![j] = @ + 1]
  OBVIOUS
<1>4. \A c \in Clients : handler[c] # "none" => m \in seen'[c]
  BY <1>3 DEF Write
<1>5. \A c \in Clients : handler'[c] = IF handler[c] = "blocked" THEN "reading" ELSE handler[c]
  BY DEF Write
<1>6. \A c \in Clients : handler'[c] # "none" => handler[c] # "none"
  BY <1>5
<1>7. \A c \in Clients : handler'[c] # "none" => Moment' \in seen'[c]
  BY <1>2, <1>3, <1>4, <1>6
<1>8. \A c \in Clients : shown'[c] = "asking" => handler'[c] # "none"
  BY <1>1, <1>5 DEF ReadersInv
<1>9. \A c \in Clients : DOMAIN copy'[c] = {}
  BY <1>1
<1>. QED
  BY <1>7, <1>8, <1>9 DEF ReadersInv

\* A step of a request copies what the records are, or ends and leaves nothing
\* (health.go:185-208).
LEMMA ReadersClientStep ==
  ASSUME TypeOK, ReadersInv, NEW c \in Clients, Ask(c) \/ Handle(c) \/ GiveUp(c)
  PROVE  ReadersInv'
<1>0. /\ status' = status /\ Moment' = Moment
      /\ copy = [d \in Clients |-> copy[d]]
  BY DEF TypeOK, Moment, Ask, Handle, Copy, Answer, WriteTimeout, EndHandler, GiveUp
<1>1. CASE Ask(c)
  <2>1. PICK m : m = Moment
    OBVIOUS
  <2>2. CASE handler' = handler /\ seen' = seen
    <3>1. shown'[c] # "asking" /\ copy' = copy /\ \A d \in Clients : d # c => shown'[d] = shown[d]
      BY <1>1, <2>2 DEF Ask, TypeOK
    <3>. QED
      BY <1>0, <2>2, <3>1 DEF ReadersInv
  <2>3. CASE seen' = [seen EXCEPT ![c] = {m}] /\ handler'[c] # "none"
    <3>1. /\ copy' = copy /\ DOMAIN copy[c] = {}
          /\ \A d \in Clients : d # c => shown'[d] = shown[d] /\ handler'[d] = handler[d]
      BY <1>1 DEF Ask, TypeOK, ReadersInv
    <3>2. seen'[c] = {m} /\ \A d \in Clients : d # c => seen'[d] = seen[d]
      BY <2>3 DEF TypeOK
    <3>. QED
      BY <1>0, <2>1, <2>3, <3>1, <3>2 DEF ReadersInv
  <2>4. \/ handler' = handler /\ seen' = seen
        \/ seen' = [seen EXCEPT ![c] = {m}] /\ handler'[c] # "none"
    BY <1>1, <2>1 DEF Ask, TypeOK
  <2>. QED
    BY <2>2, <2>3, <2>4
<1>2. CASE Copy(c)
  <2>1. PICK j \in Jobs :
          copy' = [copy EXCEPT ![c] = [i \in DOMAIN @ \cup {j} |-> IF i = j THEN status[j] ELSE @[i]]]
    BY <1>2 DEF Copy
  <2>2. /\ copy'[c] = [i \in DOMAIN copy[c] \cup {j} |-> IF i = j THEN status[j] ELSE copy[c][i]]
        /\ \A d \in Clients : d # c => copy'[d] = copy[d]
    BY <1>0, <2>1
  <2>3. \A i \in DOMAIN copy'[c] : copy'[c][i] = status[i]
    BY <2>2 DEF ReadersInv
  <2>4. handler' = handler /\ seen' = seen /\ shown' = shown /\ handler[c] = "reading"
    BY <1>2 DEF Copy
  <2>. QED
    BY <1>0, <2>2, <2>3, <2>4 DEF ReadersInv
<1>3. CASE Answer(c) \/ WriteTimeout(c)
  <2>1. EndHandler(c)
    BY <1>3 DEF Answer, WriteTimeout
  <2>2. /\ copy'[c] = <<>> /\ \A d \in Clients : d # c => copy'[d] = copy[d]
        /\ handler'[c] = "none" /\ \A d \in Clients : d # c => handler'[d] = handler[d]
        /\ \A d \in Clients : d # c => seen'[d] = seen[d]
    BY <1>0, <2>1 DEF EndHandler, TypeOK
  <2>3. shown'[c] # "asking" /\ \A d \in Clients : d # c => shown'[d] = shown[d]
    BY <1>3 DEF Answer, WriteTimeout, Report, TypeOK
  <2>4. DOMAIN copy'[c] = {}
    BY <2>2
  <2>. QED
    BY <1>0, <2>2, <2>3, <2>4 DEF ReadersInv
<1>4. CASE GiveUp(c)
  <2>1. /\ shown'[c] # "asking" /\ \A d \in Clients : d # c => shown'[d] = shown[d]
        /\ handler' = handler /\ copy' = copy /\ seen' = seen
    BY <1>4 DEF GiveUp, TypeOK
  <2>. QED
    BY <1>0, <2>1 DEF ReadersInv
<1>. QED
  BY <1>1, <1>2, <1>3, <1>4 DEF Handle

\* The server is down once nobody reads.
LEMMA ReadersStop ==
  ASSUME ReadersInv, EndStop
  PROVE  ReadersInv'
  BY DEF ReadersInv, EndStop, httpVars

\* The record that is written is that of the longer log, and no other one changes.
LEMMA RecordsWrite ==
  ASSUME TypeOK, LockInv, TrackerInv, RecordsInv, NEW j \in Jobs, Write(j)
  PROVE  RecordsInv'
<1>1. PICK e \in Events :
        /\ e.what \in Recording /\ e.size \in Nat
        /\ log' = [log EXCEPT ![j] = Append(@, e)]
        /\ status' = [status EXCEPT ![j] = AfterEntry(status[j], e.what, e.size)]
  BY WriteEffect
<1>2. log \in [Jobs -> Seq(Events)] /\ status \in [Jobs -> Records]
  BY DEF TypeOK
<1>3. PICK n \in Nat : n = Len(log[j])
  BY <1>2
<1>4. log'[j] = Append(log[j], e) /\ \A i \in Jobs : i # j => log'[i] = log[i]
  BY <1>1, <1>2
<1>5. RecordAt(j, n + 1)' = AfterEntry(RecordAt(j, n), e.what, e.size)
  BY <1>2, <1>3, <1>4, RecordNext
<1>6. status[j] = RecordAt(j, n)
  BY <1>3 DEF RecordsInv
<1>7. status'[j] = AfterEntry(status[j], e.what, e.size)
  BY <1>1, <1>2
<1>8. Len(log'[j]) = n + 1
  BY <1>2, <1>3, <1>4, LogNext
<1>9. status'[j] = RecordAt(j, Len(log[j]))'
  BY <1>5, <1>6, <1>7, <1>8
<1>10. ASSUME NEW i \in Jobs, i # j
       PROVE  status'[i] = RecordAt(i, Len(log[i]))'
  <2>1. status'[i] = status[i] /\ log'[i] = log[i]
    BY <1>1, <1>2, <1>4, <1>10
  <2>2. PICK k : k = Len(log[i])
    OBVIOUS
  <2>3. RecordAt(i, k)' = RecordAt(i, k)
    BY <2>1, RecordSame
  <2>4. status[i] = RecordAt(i, k)
    BY <2>2 DEF RecordsInv
  <2>5. Len(log'[i]) = k
    BY <2>1, <2>2
  <2>. QED
    BY <2>1, <2>3, <2>4, <2>5
<1>. QED
  BY <1>9, <1>10 DEF RecordsInv

\* A step that records nothing leaves the records those of the logs.
LEMMA RecordsFrame ==
  ASSUME RecordsInv, UNCHANGED <<status, log>>
  PROVE  RecordsInv'
<1> SUFFICES ASSUME NEW j \in Jobs PROVE status'[j] = RecordAt(j, Len(log[j]))'
  BY DEF RecordsInv
<1>1. PICK k : k = Len(log[j])
  OBVIOUS
<1>2. RecordAt(j, k)' = RecordAt(j, k)
  BY RecordSame
<1>. QED
  BY <1>1, <1>2 DEF RecordsInv

\* A process that starts afresh has empty logs and empty records.
LEMMA RecordsFresh ==
  /\ status = NoRecords /\ log = Nothing => RecordsInv
  /\ status' = NoRecords /\ log' = Nothing => RecordsInv'
<1>1. \A j \in Jobs : NoRecords[j] = NoRecord /\ Len(Nothing[j]) = 0
  BY DEF NoRecords, Nothing
<1>2. \A j \in Jobs : RecordAt(j, 0) = NoRecord /\ RecordAt(j, 0)' = NoRecord
  BY RecordOfNothing
<1>. QED
  BY <1>1, <1>2 DEF RecordsInv

\* What the tracker knows of one backup: its window h of all sizes z, and the judgement a
\* of the last one.
Judged(j, at, h, a, z) ==
  /\ h = Trimmed(z)
  /\ at = "size" => z # <<>>
  /\ z # <<>> => (a <=> /\ Len(Trimmed(Front(z))) >= MinPoints
                       /\ Deviates(j, Trimmed(Front(z)), Last(z)))

LEMMA TrackerIsJudged ==
  /\ TrackerInv <=> \A j \in Jobs : Judged(j, step[j], history[j], alarm[j], sizes[j])
  /\ TrackerInv' <=> \A j \in Jobs : Judged(j, step'[j], history'[j], alarm'[j], sizes'[j])
BY DEF TrackerInv, Judged

\* A step that tracks no size keeps what is said of the tracker.
LEMMA TrackerFrame ==
  ASSUME TrackerInv, UNCHANGED <<history, alarm, sizes>>,
         \A j \in Jobs : step'[j] = "size" => step[j] = "size"
  PROVE  TrackerInv'
<1> SUFFICES ASSUME NEW j \in Jobs
             PROVE  Judged(j, step'[j], history'[j], alarm'[j], sizes'[j])
  BY TrackerIsJudged
<1>1. Judged(j, step[j], history[j], alarm[j], sizes[j])
  BY TrackerIsJudged
<1>. QED
  BY <1>1 DEF Judged

\* The window of no sizes is empty.
LEMMA TrackerFresh ==
  /\ history = Nothing /\ sizes = Nothing /\ step = NoRuns => TrackerInv
  /\ history' = Nothing /\ sizes' = Nothing /\ step' = NoRuns => TrackerInv'
<1>1. Trimmed(<<>>) = <<>>
  <2>1. Window \in Nat \ {0}
    BY MonitorsAssumption DEF MonitorsAssumption
  <2>2. <<>> \in Seq(Nat) /\ Len(<<>>) = 0
    OBVIOUS
  <2>3. Kept(0) = 0
    BY <2>1 DEF Kept
  <2>4. PICK w : w = Trimmed(<<>>)
    OBVIOUS
  <2>5. w \in Seq(Nat) /\ Len(w) = 0
    BY <2>2, <2>3, <2>4, TrimmedIs
  <2>6. w = <<>>
    BY <2>5
  <2>. QED
    BY <2>4, <2>6
<1>2. \A j \in Jobs : Nothing[j] = <<>> /\ NoRuns[j] = "idle"
  BY DEF Nothing, NoRuns
<1>3. \A j, a : Judged(j, "idle", <<>>, a, <<>>)
  BY <1>1 DEF Judged
<1>. QED
  BY <1>2, <1>3, TrackerIsJudged

\* The last of a sequence and those before it.
LEMMA FrontAndLast ==
  ASSUME NEW T, NEW z \in Seq(T), NEW x \in T
  PROVE  Append(z, x) # <<>> /\ Front(Append(z, x)) = z /\ Last(Append(z, x)) = x
<1>1. Len(Append(z, x)) = Len(z) + 1 /\ Append(z, x)[Len(z) + 1] = x /\ Len(z) \in Nat
  OBVIOUS
<1>2. PICK n \in Nat : n = Len(z)
  BY <1>1
<1>3. Front(Append(z, x)) = SubSeq(Append(z, x), 1, n)
  BY <1>1, <1>2 DEF Front
<1>4. SubSeq(Append(z, x), 1, n) = z
  BY <1>2
<1>. QED
  BY <1>1, <1>3, <1>4 DEF Last

\* A size that is tracked is judged by the window of those before it, and enters it
\* (tracker.go:59-119).
LEMMA TrackerTrack ==
  ASSUME TypeOK, TrackerInv, NEW j \in Jobs, NEW s \in Sizes[j],
         alarm' = [alarm EXCEPT ![j] = Anomalous(j, s)],
         history' = [history EXCEPT ![j] = Trimmed(Append(@, s))],
         sizes' = [sizes EXCEPT ![j] = Append(@, s)],
         step' = [step EXCEPT ![j] = "size"]
  PROVE  TrackerInv'
<1>1. s \in Nat
  BY MonitorsAssumption DEF MonitorsAssumption
<1>2. Judged(j, step[j], history[j], alarm[j], sizes[j]) /\ sizes[j] \in Seq(Nat)
  BY TrackerIsJudged DEF TypeOK
<1>3. PICK z \in Seq(Nat) : z = sizes[j] /\ history[j] = Trimmed(z)
  BY <1>2 DEF Judged
<1>4. sizes'[j] = Append(z, s) /\ history'[j] = Trimmed(Append(Trimmed(z), s))
  BY <1>3 DEF TypeOK
<1>5. alarm'[j] = Anomalous(j, s)
  BY DEF TypeOK
<1>6. step'[j] = "size"
  BY DEF TypeOK
<1>7. Trimmed(Append(Trimmed(z), s)) = Trimmed(Append(z, s))
  BY <1>1, TrimmedNext
<1>8. Append(z, s) # <<>> /\ Front(Append(z, s)) = z /\ Last(Append(z, s)) = s
  BY <1>1, FrontAndLast
<1>9. Anomalous(j, s) <=> Len(Trimmed(z)) >= MinPoints /\ Deviates(j, Trimmed(z), s)
  BY <1>3 DEF Anomalous
<1>10. Judged(j, step'[j], history'[j], alarm'[j], sizes'[j])
  BY <1>4, <1>5, <1>6, <1>7, <1>8, <1>9 DEF Judged
<1>11. ASSUME NEW i \in Jobs, i # j
       PROVE  Judged(i, step'[i], history'[i], alarm'[i], sizes'[i])
  <2>1. /\ sizes'[i] = sizes[i] /\ history'[i] = history[i]
        /\ alarm'[i] = alarm[i] /\ step'[i] = step[i]
    BY <1>11 DEF TypeOK
  <2>2. Judged(i, step[i], history[i], alarm[i], sizes[i])
    BY TrackerIsJudged
  <2>. QED
    BY <2>1, <2>2
<1>. QED
  BY <1>10, <1>11, TrackerIsJudged

------------------------------------------------------------------------------
(* The invariant. *)

LEMMA InvInit ==
  Init => MonitorsInv
<1> SUFFICES ASSUME Init PROVE MonitorsInv
  OBVIOUS
<1>1. TypeOK
  BY TypeInit
<1>2. LockInv
  BY DEF Init, LockInv
<1>3. ReadersInv
  <2>0. DOMAIN <<>> = {}
    OBVIOUS
  <2>1. \A c \in Clients : copy[c] = <<>> /\ handler[c] = "none" /\ shown[c] = "NOT RUNNING"
    BY DEF Init
  <2>. QED
    BY <2>0, <2>1 DEF ReadersInv
<1>4. RecordsInv /\ TrackerInv
  BY RecordsFresh, TrackerFresh DEF Init
<1>. QED
  BY <1>1, <1>2, <1>3, <1>4 DEF MonitorsInv

\* A step of a run keeps the invariant.
LEMMA InvRunStep ==
  ASSUME MonitorsInv, NEW j \in Jobs, EndPipeline(j) \/ GoOn(j)
  PROVE  MonitorsInv'
<1>0. TypeOK /\ LockInv /\ ReadersInv /\ RecordsInv /\ TrackerInv
  BY DEF MonitorsInv
<1>1. TypeOK' /\ LockInv'
  BY <1>0, TypeRunStep, LockRunStep
<1>2. CASE EndPipeline(j) \/ Announce(j)
  <2>1. UNCHANGED <<httpVars, status, log>> /\ UNCHANGED <<history, alarm, sizes>>
    BY <1>2 DEF EndPipeline, Announce, runVars
  <2>2. \A i \in Jobs : step'[i] = "size" => step[i] = "size"
    BY <1>0, <1>2 DEF TypeOK, EndPipeline, Announce, runVars
  <2>. QED
    BY <1>0, <1>1, <2>1, <2>2, ReadersFrame, RecordsFrame, TrackerFrame DEF MonitorsInv
<1>3. CASE Write(j)
  <2>1. UNCHANGED <<history, alarm, sizes>>
    BY <1>3 DEF Write
  <2>2. \A i \in Jobs : step'[i] = "size" => step[i] = "size"
    BY <1>0, <1>3 DEF TypeOK, Write
  <2>. QED
    BY <1>0, <1>1, <1>3, <2>1, <2>2, ReadersWrite, RecordsWrite, TrackerFrame DEF MonitorsInv
<1>4. CASE Track(j)
  <2>1. UNCHANGED <<httpVars, status, log>>
    BY <1>4 DEF Track
  <2>2. TrackerInv'
    <3>1. CASE UNCHANGED <<history, alarm, sizes>> /\ step' = [step EXCEPT ![j] = "idle"]
      <4>1. \A i \in Jobs : step'[i] = "size" => step[i] = "size"
        BY <1>0, <3>1 DEF TypeOK
      <4>. QED
        BY <1>0, <3>1, <4>1, TrackerFrame
    <3>2. ASSUME NEW s \in Sizes[j],
                 alarm' = [alarm EXCEPT ![j] = Anomalous(j, s)],
                 history' = [history EXCEPT ![j] = Trimmed(Append(@, s))],
                 sizes' = [sizes EXCEPT ![j] = Append(@, s)],
                 step' = [step EXCEPT ![j] = "size"]
          PROVE  TrackerInv'
      BY <1>0, <3>2, TrackerTrack
    <3>. QED
      BY <1>4, <3>1, <3>2 DEF Track
  <2>. QED
    BY <1>0, <1>1, <2>1, <2>2, ReadersFrame, RecordsFrame DEF MonitorsInv
<1>. QED
  BY <1>2, <1>3, <1>4 DEF GoOn

\* A step of a request keeps the invariant.
LEMMA InvClientStep ==
  ASSUME MonitorsInv, NEW c \in Clients, Ask(c) \/ Handle(c) \/ GiveUp(c)
  PROVE  MonitorsInv'
<1>0. TypeOK /\ LockInv /\ ReadersInv /\ RecordsInv /\ TrackerInv
  BY DEF MonitorsInv
<1>1. UNCHANGED <<status, log>> /\ UNCHANGED <<history, alarm, sizes>> /\ step' = step
  BY DEF Ask, Handle, Copy, Answer, WriteTimeout, EndHandler, GiveUp, runVars
<1>2. TypeOK' /\ LockInv' /\ ReadersInv'
  BY <1>0, TypeClientStep, LockOtherStep, ReadersClientStep
<1>3. RecordsInv' /\ TrackerInv'
  BY <1>0, <1>1, RecordsFrame, TrackerFrame
<1>. QED
  BY <1>2, <1>3 DEF MonitorsInv

\* A step of the shutdown keeps the invariant, and so does no step at all.
LEMMA InvStopStep ==
  ASSUME MonitorsInv, BeginStop \/ EndStop \/ UNCHANGED vars
  PROVE  MonitorsInv'
<1>0. TypeOK /\ LockInv /\ ReadersInv /\ RecordsInv /\ TrackerInv
  BY DEF MonitorsInv
<1>1. CASE EndStop
  <2>1. TypeOK' /\ LockInv' /\ ReadersInv'
    BY <1>0, <1>1, TypeStopStep, LockOtherStep, ReadersStop
  <2>2. RecordsInv' /\ TrackerInv'
    BY <1>1, RecordsFresh, TrackerFresh DEF EndStop
  <2>. QED
    BY <2>1, <2>2 DEF MonitorsInv
<1>2. CASE BeginStop \/ UNCHANGED vars
  <2>1. /\ UNCHANGED <<httpVars, status, log>> /\ UNCHANGED <<history, alarm, sizes>>
        /\ step' = step /\ writer' = writer
    BY <1>2 DEF BeginStop, vars, runVars, httpVars
  <2>2. TypeOK'
    <3>1. CASE BeginStop
      BY <1>0, <3>1, TypeStopStep
    <3>2. CASE UNCHANGED vars
      BY <1>0, <3>2 DEF TypeOK, vars, runVars, httpVars
    <3>. QED
      BY <1>2, <3>1, <3>2
  <2>3. LockInv'
    BY <1>0, <2>1 DEF LockInv, httpVars
  <2>4. ReadersInv' /\ RecordsInv' /\ TrackerInv'
    BY <1>0, <2>1, ReadersFrame, RecordsFrame, TrackerFrame
  <2>. QED
    BY <2>2, <2>3, <2>4 DEF MonitorsInv
<1>. QED
  BY <1>1, <1>2

LEMMA InvStep ==
  ASSUME MonitorsInv, [Next]_vars
  PROVE  MonitorsInv'
BY InvRunStep, InvClientStep, InvStopStep DEF Next

\* The records are those of the whole logs, a copy under way is what the records still
\* are, and the tracker has judged each size by those before it: for every finite set of
\* backups and requests (health.go:81-117, 185-208, tracker.go:59-119).
THEOREM MonitorsInvariant == Spec => []MonitorsInv
BY InvInit, InvStep, PTL DEF Spec

------------------------------------------------------------------------------
(* What may be relied on. *)

\* The reply that is printed is what all records were when the handler ended, although
\* runs have recorded while it was under way (health.go:185-208, status.go:76-125).
LEMMA ReplyStep ==
  ASSUME MonitorsInv, NEW c \in Clients, shown[c] = "asking",
         shown'[c] \in {"RUNNING", "DEGRADED"},
         \/ \E j \in Jobs : EndPipeline(j) \/ GoOn(j)
         \/ \E d \in Clients : Ask(d) \/ Handle(d) \/ GiveUp(d)
         \/ BeginStop \/ EndStop \/ UNCHANGED vars
  PROVE  \E m \in seen[c] :
           /\ copy[c] = [j \in Jobs |-> RecordAt(j, m[j])]
           /\ shown'[c] = "DEGRADED" <=> \E j \in Jobs : RecordAt(j, m[j]).consecutive >= 3
<1>0. TypeOK /\ ReadersInv /\ RecordsInv
  BY DEF MonitorsInv
<1>1. Answer(c)
  <2>1. shown'[c] # shown[c]
    OBVIOUS
  <2>2. shown' # shown
    BY <2>1
  <2>3. PICK d \in Clients : Ask(d) \/ Answer(d) \/ WriteTimeout(d) \/ GiveUp(d)
    BY <2>2 DEF EndPipeline, GoOn, Announce, Write, Track, Handle, Copy, BeginStop, EndStop,
                vars, httpVars
  <2>4. d = c
    BY <1>0, <2>1, <2>3 DEF TypeOK, Ask, Answer, WriteTimeout, GiveUp
  <2>. QED
    BY <1>0, <2>3, <2>4 DEF TypeOK, Ask, WriteTimeout, GiveUp
<1>2. handler[c] = "reading" /\ DOMAIN copy[c] = Jobs /\ shown'[c] = Report(copy[c])
  BY <1>0, <1>1 DEF TypeOK, Answer, EndHandler
<1>3. PICK m \in seen[c] : m = Moment
  BY <1>0, <1>2 DEF ReadersInv
<1>4. \A j \in Jobs : copy[c][j] = RecordAt(j, m[j])
  <2> SUFFICES ASSUME NEW j \in Jobs PROVE copy[c][j] = RecordAt(j, m[j])
    OBVIOUS
  <2>1. m[j] = Len(log[j])
    BY <1>3 DEF Moment
  <2>. QED
    BY <1>0, <1>2, <2>1 DEF ReadersInv, RecordsInv
<1>5. copy[c] = [j \in Jobs |-> RecordAt(j, m[j])]
  <2>1. PICK S \in SUBSET Jobs : copy[c] \in [S -> Records]
    BY <1>0 DEF TypeOK
  <2>. QED
    BY <1>2, <1>4, <2>1
<1>6. shown'[c] = "DEGRADED" <=> \E j \in Jobs : RecordAt(j, m[j]).consecutive >= 3
  BY <1>2, <1>4 DEF Report
<1>. QED
  BY <1>5, <1>6

\* What `status` prints is what all records were at one moment of its request, whatever
\* runs record meanwhile and in whatever order the records are copied.
THEOREM RepliesTrue == Spec => RepliesAreTrue
<1>1. MonitorsInv /\ [Next]_vars =>
        [\A c \in Clients : shown[c] = "asking" /\ shown'[c] \in {"RUNNING", "DEGRADED"} =>
           \E m \in seen[c] :
             /\ copy[c] = [j \in Jobs |-> RecordAt(j, m[j])]
             /\ shown'[c] = "DEGRADED" <=>
                  \E j \in Jobs : RecordAt(j, m[j]).consecutive >= 3]_vars
  BY ReplyStep DEF Next
<1>. QED
  BY <1>1, MonitorsInvariant, PTL DEF Spec, RepliesAreTrue

\* The sizes of the window are those of the last Window before the last one.
LEMMA WindowIs ==
  ASSUME NEW z \in Seq(Nat), z # <<>>
  PROVE  LET L == Len(z) - 1
             recent == {i \in 1..L : i > L - Window}
             p == Trimmed(Front(z))
         IN  /\ Cardinality(recent) = Len(p) /\ Len(p) \in Nat
             /\ L >= MinPoints <=> Len(p) >= MinPoints
             /\ Total(p) = MapThenSumSet(LAMBDA i : z[i], recent)
             /\ Total(p) \in Nat
<1>1. Len(z) \in Nat \ {0} /\ Window \in Nat \ {0} /\ MinPoints \in 1..Window
  BY MonitorsAssumption DEF MonitorsAssumption
<1>2. PICK L \in Nat : L = Len(z) - 1 /\ L + 1 = Len(z)
  BY <1>1
<1>3. /\ Front(z) \in Seq(Nat) /\ Len(Front(z)) = L
      /\ \A i \in 1..L : Front(z)[i] = z[i]
  <2>1. Front(z) = SubSeq(z, 1, L)
    BY <1>2 DEF Front
  <2>2. SubSeq(z, 1, L) \in Seq(Nat) /\ Len(SubSeq(z, 1, L)) = L
    BY <1>2
  <2>3. \A i \in 1..L : SubSeq(z, 1, L)[i] = z[i]
    BY <1>2
  <2>. QED
    BY <2>1, <2>2, <2>3
<1>4. PICK k \in Nat : k = Kept(L) /\ k <= L
  BY <1>1 DEF Kept
<1>5. PICK d \in Nat : d = L - k /\ d + k = L
  BY <1>4
<1>6. PICK p : p = Trimmed(Front(z))
  OBVIOUS
<1>7. /\ p \in Seq(Nat) /\ Len(p) = k
      /\ \A i \in 1..k : p[i] = Front(z)[L - k + i]
  BY <1>3, <1>4, <1>6, TrimmedIs
<1>8. \A i \in 1..k : p[i] = z[d + i]
  <2> SUFFICES ASSUME NEW i \in 1..k PROVE p[i] = z[d + i]
    OBVIOUS
  <2>1. L - k + i = d + i /\ d + i \in 1..L
    BY <1>5
  <2>. QED
    BY <1>3, <1>7, <2>1
<1>9. {i \in 1..L : i > L - Window} = (d + 1)..(d + k)
  <2>1. CASE L > Window
    <3>1. k = Window /\ d = L - Window
      BY <1>1, <1>4, <1>5, <2>1 DEF Kept
    <3>. QED
      BY <1>1, <1>5, <3>1
  <2>2. CASE ~(L > Window)
    <3>1. k = L /\ d = 0
      BY <1>1, <1>4, <1>5, <2>2 DEF Kept
    <3>. QED
      BY <1>1, <2>2, <3>1
  <2>. QED
    BY <2>1, <2>2
<1>10. Cardinality((d + 1)..(d + k)) = k
  <2>1. d + 1 \in Int /\ d + k \in Int
    OBVIOUS
  <2>2. Cardinality((d + 1)..(d + k)) = IF d + 1 > d + k THEN 0 ELSE (d + k) - (d + 1) + 1
    BY <2>1, FS_Interval
  <2>. QED
    BY <2>2
<1>11. L >= MinPoints <=> k >= MinPoints
  BY <1>1, <1>4 DEF Kept
<1>12. PICK D : D = (d + 1)..(d + k)
  OBVIOUS
<1>13. Total(p) = MapThenSumSet(LAMBDA i : z[i], D) /\ Total(p) \in Nat
  <2>1. D \in SUBSET DOMAIN z /\ DOMAIN p = 1..k
    BY SMTT(30), <1>2, <1>5, <1>7, <1>12
  <2>2. \A i \in DOMAIN p : p[i] = z[d + i]
    BY <1>8, <2>1
  <2>3. FoldLeft(+, 0, p) = MapThenSumSet(LAMBDA i : z[i], D)
    BY ZenonT(60), <1>7, <1>12, <2>1, <2>2, SumOfPart
  <2>4. FoldLeft(+, 0, p) \in Nat
    BY <1>7, FoldLeftCounts, UnitsFinite
  <2>. QED
    BY <2>3, <2>4 DEF Total
<1>. QED
  BY <1>2, <1>6, <1>7, <1>9, <1>10, <1>11, <1>12, <1>13

\* A deviation of more than t percent, told without a division.
LEMMA OutsideThreshold ==
  ASSUME NEW j \in Jobs, NEW p \in Seq(Nat), NEW x \in Nat, Len(p) >= 1, Total(p) \in Nat
  PROVE  Deviates(j, p, x) <=>
           100 * Len(p) * x \notin
             ((100 - ThresholdOf(j)) * Total(p))..((100 + ThresholdOf(j)) * Total(p))
<1>1. PICK t \in Nat : t = ThresholdOf(j)
  BY MonitorsAssumption DEF MonitorsAssumption, ThresholdOf, DefaultThreshold
<1>2. PICK n \in Nat : n = Len(p) /\ n >= 1
  OBVIOUS
<1>3. PICK T \in Nat : T = Total(p)
  OBVIOUS
<1>4. PICK a \in Nat : a = x * n
  OBVIOUS
<1>5. PICK q \in Nat : q = t * T
  OBVIOUS
<1>6. /\ 100 * n * x = 100 * a
      /\ (100 - t) * T = 100 * T - q
      /\ (100 + t) * T = 100 * T + q
  <2>1. \A u, v \in Int : (100 + u) * v = 100 * v + u * v /\ (100 - u) * v = 100 * v - u * v
    OBVIOUS
  <2>2. \A u, v \in Int : 100 * u * v = 100 * (v * u)
    OBVIOUS
  <2>. QED
    BY <1>4, <1>5, <2>1, <2>2
<1>7. CASE T = 0
  <2>1. q = 0
    BY <1>5, <1>7
  <2>2. x = 0 <=> a = 0
    BY <1>2, <1>4
  <2>3. Deviates(j, p, x) <=> x # 0
    BY <1>3, <1>7 DEF Deviates
  <2>4. 100 * a \notin (100 * T - q)..(100 * T + q) <=> a # 0
    BY <1>7, <2>1
  <2>. QED
    BY <1>1, <1>2, <1>3, <1>6, <2>2, <2>3, <2>4
<1>8. CASE T # 0
  <2>1. Deviates(j, p, x) <=> 100 * Distance(a, T) > q
    BY <1>1, <1>2, <1>3, <1>4, <1>5, <1>8 DEF Deviates
  <2>2. 100 * Distance(a, T) > q <=> 100 * a \notin (100 * T - q)..(100 * T + q)
    BY DEF Distance
  <2>. QED
    BY <1>1, <1>2, <1>3, <1>6, <2>1, <2>2
<1>. QED
  BY <1>7, <1>8

\* The tracker's window and its judgement give what is promised of anomalies: for every
\* window, threshold and history (tracker.go:59-119).
LEMMA JudgedIsTrue ==
  ASSUME MonitorsInv
  PROVE  AnomaliesAreTrue
<1> SUFFICES ASSUME NEW j \in Jobs, sizes[j] # <<>>
             PROVE  LET before == Len(sizes[j]) - 1
                        recent == {i \in 1..before : i > before - Window}
                        n      == Cardinality(recent)
                        sum    == MapThenSumSet(LAMBDA i : sizes[j][i], recent)
                        scaled == 100 * n * Last(sizes[j])
                        t      == ThresholdOf(j)
                    IN  alarm[j] <=> /\ before >= MinPoints
                                     /\ scaled \notin ((100 - t) * sum)..((100 + t) * sum)
  BY DEF AnomaliesAreTrue
<1>1. PICK z \in Seq(Nat) : z = sizes[j] /\ z # <<>>
  BY DEF MonitorsInv, TypeOK
<1>2. Judged(j, step[j], history[j], alarm[j], sizes[j])
  BY TrackerIsJudged DEF MonitorsInv
<1>3. PICK p : p = Trimmed(Front(z))
  OBVIOUS
<1>4. alarm[j] <=> Len(p) >= MinPoints /\ Deviates(j, p, Last(z))
  BY <1>1, <1>2, <1>3 DEF Judged
<1>5. PICK before : before = Len(z) - 1
  OBVIOUS
<1>6. PICK recent : recent = {i \in 1..before : i > before - Window}
  OBVIOUS
<1>7. /\ Cardinality(recent) = Len(p) /\ Len(p) \in Nat
      /\ before >= MinPoints <=> Len(p) >= MinPoints
      /\ Total(p) = MapThenSumSet(LAMBDA i : z[i], recent)
      /\ Total(p) \in Nat
  BY <1>1, <1>3, <1>5, <1>6, WindowIs
<1>8. p \in Seq(Nat) /\ Last(z) \in Nat
  <2>1. Len(z) \in Nat \ {0}
    BY <1>1
  <2>2. Front(z) \in Seq(Nat) /\ Last(z) \in Nat
    BY <2>1 DEF Front, Last
  <2>. QED
    BY <1>3, <2>2, TrimmedIs
<1>9. Len(p) >= MinPoints =>
        (Deviates(j, p, Last(z)) <=>
           100 * Len(p) * Last(z) \notin
             ((100 - ThresholdOf(j)) * Total(p))..((100 + ThresholdOf(j)) * Total(p)))
  <2>1. Len(p) >= MinPoints => Len(p) >= 1
    BY <1>7, MonitorsAssumption DEF MonitorsAssumption
  <2>. QED
    BY <1>7, <1>8, <2>1, OutsideThreshold
<1>10. PICK sum : sum = MapThenSumSet(LAMBDA i : z[i], recent)
  OBVIOUS
<1>11. alarm[j] <=> /\ before >= MinPoints
                    /\ 100 * Cardinality(recent) * Last(z) \notin
                         ((100 - ThresholdOf(j)) * sum)..((100 + ThresholdOf(j)) * sum)
  BY <1>4, <1>7, <1>9, <1>10
<1>. QED
  BY <1>1, <1>5, <1>6, <1>10, <1>11

\* The tracker's alarm tells of the last size exactly what all sizes before it say.
THEOREM AnomaliesTrue == Spec => []AnomaliesAreTrue
BY MonitorsInvariant, JudgedIsTrue, PTL

==============================================================================
