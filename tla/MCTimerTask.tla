---------------------------- MODULE MCTimerTask ----------------------------
(***************************************************************************)
(* An instance of TimerTask for TLC: timers are alike.                     *)
(***************************************************************************)
EXTENDS TimerTask, TLC

CONSTANTS k1, k2    \* timers

Symmetry == Permutations(Timers)
=============================================================================
