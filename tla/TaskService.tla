---------------------------- MODULE TaskService ----------------------------
(***************************************************************************)
(* What task-scheduler-service promises to the gateways that call it,      *)
(* without its locks, threads and loops (README.md:12 and :143-149 of the  *)
(* service): a user's tasks run one at a time, in the order in which they  *)
(* were accepted, each at most once; at most BatchSize tasks run at the    *)
(* same time; and of the requests that carry one idempotency key only one  *)
(* is ever accepted.                                                       *)
(*                                                                         *)
(* Scheduler.tla is the code; it implements this module under the mapping  *)
(* given there.                                                            *)
(***************************************************************************)
EXTENDS Naturals, Sequences, FiniteSets

CONSTANTS
    Users,       \* user_id values
    Tasks,       \* one element per CreateTask request
    NoKey,       \* the key of a request without client_message_id
    UserOf,      \* the user of a task
    KeyOf,       \* the idempotency key of a task, or NoKey
    BatchSize    \* SCHEDULER_BATCH_SIZE

VARIABLES
    pending,     \* accepted and not begun: a queue per user
    running,     \* begun and not finished
    finished

serviceVars == <<pending, running, finished>>

\* Tasks that were accepted, whatever became of them since.
Accepted == (UNION {{pending[u][i] : i \in 1..Len(pending[u])} : u \in Users})
                \cup running \cup finished

Init ==
    /\ pending = [u \in Users |-> <<>>]
    /\ running = {}
    /\ finished = {}

\* A request enters its user's queue, unless its key was seen before.
Accept(t) ==
    /\ t \notin Accepted
    /\ KeyOf[t] # NoKey => \A s \in Accepted : KeyOf[s] # KeyOf[t]
    /\ pending' = [pending EXCEPT ![UserOf[t]] = Append(@, t)]
    /\ UNCHANGED <<running, finished>>

\* The oldest pending task of a user who has nothing running begins.
Begin(u) ==
    /\ pending[u] # <<>>
    /\ \A t \in running : UserOf[t] # u
    /\ Cardinality(running) < BatchSize
    /\ running' = running \cup {Head(pending[u])}
    /\ pending' = [pending EXCEPT ![u] = Tail(@)]
    /\ UNCHANGED finished

Finish(t) ==
    /\ t \in running
    /\ running' = running \ {t}
    /\ finished' = finished \cup {t}
    /\ UNCHANGED pending

Next ==
    \/ \E t \in Tasks : Accept(t) \/ Finish(t)
    \/ \E u \in Users : Begin(u)

Spec == Init /\ [][Next]_serviceVars
=============================================================================
