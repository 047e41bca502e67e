----------------------------- MODULE MCWatchdog -----------------------------
(***************************************************************************)
(* Instances of Watchdog for TLC.                                          *)
(***************************************************************************)
EXTENDS Watchdog, TLC

CONSTANTS a, b   \* backup names

\* a at every unit, b at two of four: their intervals are 1 and 3.
TwoSchedules == (a :> [cycle |-> 1, at |-> {0}]) @@ (b :> [cycle |-> 4, at |-> {0, 1}])

\* "0 9-17 * * *", in hours: nine runs of a day, then a gap of sixteen hours.
OfficeHours == (a :> [cycle |-> 24, at |-> 9..17])

\* An hour and a week, in hours.
Week == [least |-> 1, most |-> 168]

\* Failures matter to their own backup only: b fails until its alerts are CRITICAL.
FailuresOfOne == (a :> 0) @@ (b :> 6)
NoFailures == (a :> 0)

==============================================================================
