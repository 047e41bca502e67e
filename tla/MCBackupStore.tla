---------------------------- MODULE MCBackupStore ----------------------------
(***************************************************************************)
(* Instances of BackupStore for TLC.                                       *)
(***************************************************************************)
EXTENDS BackupStore, TLC

CONSTANTS a  \* a backup name

\* No retention, by age, by count, by either.
AllEntries == [days : {0, 1}, keepLast : {0, 1}]

TwoOfA == (a :> 2)
ThreeOfA == (a :> 3)

==============================================================================
