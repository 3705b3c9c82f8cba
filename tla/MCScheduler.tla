---------------------------- MODULE MCScheduler ----------------------------
(***************************************************************************)
(* Instances of Scheduler for TLC: up to four requests of two users.       *)
(***************************************************************************)
EXTENDS Scheduler, TLC

CONSTANTS ann, bob,              \* users
          a1, a2, a3, b1,        \* requests, named after their users
          k1                     \* an idempotency key of ann's

\* a1 and a2 are one message of ann's sent twice, a3 another, without a key.
MCUserOf == [t \in Tasks |-> IF t = b1 THEN bob ELSE ann]
MCKeyOf == [t \in Tasks |-> IF t \in {a1, a2} THEN k1 ELSE NoKey]

SameMessage == Permutations({a1, a2})

NoProgress == [t \in Tasks |-> 0]
OneIfFlaky == [t \in Tasks |-> IF t \in Flaky THEN 1 ELSE 0]
=============================================================================
