----------------------------- MODULE MCSession -----------------------------
(***************************************************************************)
(* An instance of Session for TLC: two tasks, of one session or of two, a  *)
(* cache for one agent, which is another at first, and two model lists.    *)
(***************************************************************************)
EXTENDS Session, TLC

CONSTANTS s1, s2, a1, a2, p1, p2, p3

KeysOfSessions == Sessions \X Agents

OneOrTwo == {1 :> s1 @@ 2 :> s1, 1 :> s1 @@ 2 :> s2}

Others == <<<<s2, a2>>>>

TurnSizes == 1 :> 3 @@ 2 :> 1

\* p2 is an alias of p1 where there are aliases.
Named == [p \in Profiles |-> IF p = p2 THEN p1 ELSE p]

ModelLists ==
    {[format |-> "models", entries |-> {p1}, aliases |-> Named, default |-> p2],
     [format |-> "profiles", entries |-> {p1, p2}, aliases |-> Named, default |-> p1],
     [format |-> "flat", entries |-> {p2, p3}, aliases |-> Named, default |-> p3]}
=============================================================================
