--------------------------- MODULE MCAgentRuntime ---------------------------
(***************************************************************************)
(* Instances of AgentRuntime for TLC: two agents that are configured and a *)
(* name that is not.                                                       *)
(***************************************************************************)
EXTENDS AgentRuntime

CONSTANTS main, tool, ghost

\* A reply without directives, to which the others add theirs.
Plain == [shell |-> FALSE, call |-> Nobody, tool |-> "none", switch |-> Nobody, pure |-> FALSE,
          timer |-> FALSE, question |-> "none", empty |-> FALSE]

Calls(a) == [Plain EXCEPT !.call = a]
PureSwitch(a) == [Plain EXCEPT !.switch = a, !.pure = TRUE]

MCReplies ==
    {Plain, Calls(User), Calls(tool), Calls(ghost), PureSwitch(tool), PureSwitch(ghost), PureSwitch(User),
     [Plain EXCEPT !.empty = TRUE],
     [Plain EXCEPT !.question = "asked"],
     [Plain EXCEPT !.question = "blank"],
     [Plain EXCEPT !.timer = TRUE, !.question = "asked"],
     [Plain EXCEPT !.tool = "named", !.switch = ghost],
     [Calls(User) EXCEPT !.tool = "named"],
     [Calls(main) EXCEPT !.tool = "void"],
     [Plain EXCEPT !.tool = "void", !.question = "asked"],
     [Plain EXCEPT !.tool = "void"],
     [Calls(User) EXCEPT !.shell = TRUE, !.switch = ghost]}
=============================================================================
