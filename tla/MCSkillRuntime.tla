--------------------------- MODULE MCSkillRuntime ---------------------------
(***************************************************************************)
(* An instance of SkillRuntime for TLC: two workers, two versions of which *)
(* the second has lost its script, four calls, two failures.               *)
(***************************************************************************)
EXTENDS SkillRuntime, TLC

CONSTANTS w1, w2

Symmetry == Permutations(Workers)
=============================================================================
