------------------------------ MODULE TaskKeys ------------------------------
(***************************************************************************)
(* What the modules of a task's execution have in common: the tasks, a     *)
(* worker each, and what the orchestrator and the context store call the   *)
(* keys of an agent in a session.                                          *)
(***************************************************************************)
EXTENDS Integers, Sequences, FiniteSets

CONSTANTS
    Tasks,          \* tasks executed by workers of their own
    Keys, NoKey     \* an agent in a session of a user, and none

ASSUME KeyAssumption == NoKey \notin Keys
=============================================================================
