----------------------------- MODULE MCScheduler -----------------------------
(***************************************************************************)
(* Instances of Scheduler for TLC.                                         *)
(***************************************************************************)
EXTENDS Scheduler, TLC

CONSTANTS
  a, b, c,     \* backup names
  r1, r2, r3   \* run goroutines

\* Two overlapping ticks of a and one of b: one runs, one is queued, one is skipped.
SmallNameOf == (r1 :> a) @@ (r2 :> a) @@ (r3 :> b)

\* One run for each of three names: one works, one is queued, one asks for the slot.
ThreeNamesNameOf == (r1 :> a) @@ (r2 :> b) @@ (r3 :> c)

\* The two ticks of a name are interchangeable.
TwinTicks == Permutations({r1, r2})

==============================================================================
