----------------------------- MODULE MCMonitors -----------------------------
(***************************************************************************)
(* An instance of Monitors for TLC.                                        *)
(***************************************************************************)
EXTENDS Monitors, TLC

CONSTANTS a, b   \* names of backups

\* a has a threshold of its own.
OneThreshold == (a :> 60) @@ (b :> 0)

\* a runs often enough to fill the window and to fail three times; b is there besides.
ThreeAndOne == (a :> {0, 3, 5}) @@ (b :> {1})

ManyAndOne == (a :> 4) @@ (b :> 1)

==============================================================================
