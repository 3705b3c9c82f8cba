------------------------------ MODULE Session ------------------------------
(***************************************************************************)
(* What the gRPC workers of agent-orchestrator-service share when they     *)
(* execute tasks (server.py, agent_runtime.py): the cache of agents, the   *)
(* model proxy, the context store and the default agents of the sessions;  *)
(* the decisions of a reply are in AgentRuntime and come down to one model *)
(* call here, and to further agents that are called.  The scheduler starts *)
(* a task of a session when it has done with the one before: because that  *)
(* has ended, or because the deadline of its RPC has passed while the      *)
(* worker goes on.                                                         *)
(***************************************************************************)
EXTENDS AgentCache, ContextStore, ModelProxy

CONSTANTS
    Sessions,
    Agents, Default, NoAgent,
    Submissions,     \* bound: which sessions the tasks may be of
    MaxNamed         \* bound: agents that replies switch to or call

VARIABLES
    session,      \* session of a task
    default,      \* default_agent of a session
    picked,       \* agent_id of first_call, while it is held there
    kept,         \* tasks whose first_call has written it back
    named,        \* agents that replies have named
    over,         \* the worker has done with the task
    given         \* its deadline has passed for the scheduler

ownVars == <<session, default, picked, kept, named, over, given>>
vars == <<ownVars, cacheVars, storeVars, proxyVars>>

ASSUME SessionAssumption ==
    /\ Tasks \subseteq Nat    \* in the order of their submission
    /\ Keys = Sessions \X Agents
    /\ Default \in Agents /\ NoAgent \notin Agents
    /\ Submissions \subseteq [Tasks -> Sessions]
    /\ MaxNamed \in Nat

Init ==
    /\ session \in Submissions
    /\ default = [s \in Sessions |-> Default]
    /\ picked = [t \in Tasks |-> NoAgent]
    /\ kept = {}
    /\ named = 0
    /\ over = {}
    /\ given = {}
    /\ CacheInit /\ StoreInit /\ ProxyInit

-----------------------------------------------------------------------------
Before(t) == {u \in Tasks : u < t /\ session[u] = session[t]}

\* Mutant: tasks of a session are executed as they come.
NonePending(t) == {}

Pending(t) == Before(t) \ (over \cup given)

Begun(t) == picked[t] # NoAgent \/ at[t] # "idle"

\* In process_task and in no call of get_agent.
Free(t) == at[t] \in {"have", "failed"} /\ t \notin over

\* A thread of the pool takes up ExecuteTask; first_call reads the default agent of the
\* session, ...
StartTask(t) ==
    /\ ~ Begun(t) /\ Pending(t) = {}
    /\ Cardinality({u \in Tasks \ over : Begun(u)}) < MaxWorkers
    /\ picked' = [picked EXCEPT ![t] = default[session[t]]]
    /\ UNCHANGED <<session, default, kept, named, over, given, cacheVars, storeVars, proxyVars>>

\* ... writes it back, ...
KeepDefault(t) ==
    /\ picked[t] # NoAgent /\ t \notin kept
    /\ default' = [default EXCEPT ![session[t]] = picked[t]]
    /\ kept' = kept \cup {t}
    /\ UNCHANGED <<session, picked, named, over, given, cacheVars, storeVars, proxyVars>>

\* ... and asks the cache for it.
FirstCall(t) ==
    /\ picked[t] # NoAgent /\ t \in kept
    /\ LookUp(t, <<session[t], picked[t]>>)
    /\ picked' = [picked EXCEPT ![t] = NoAgent]
    /\ UNCHANGED <<session, default, kept, named, over, given, storeVars, proxyVars>>

\* send: the context, and then the model.
Search(t) ==
    /\ at[t] = "have" /\ Free(t)
    /\ SearchContext(t, key[t])
    /\ UNCHANGED <<ownVars, cacheVars, proxyVars>>

Ask(t) ==
    /\ log[t] # NoKey /\ Free(t)
    /\ SendCall(t)
    /\ UNCHANGED <<ownVars, cacheVars, storeVars>>

\* What was answered may be acted on until the turn is stored.
Acting(t) ==
    /\ Free(t) /\ reply[t] = "text" /\ client[t] = "idle"
    /\ named < MaxNamed /\ named' = named + 1

\* A reply may switch the default agent of the session ...
Switch(t) ==
    /\ Acting(t)
    /\ \E a \in Agents : default' = [default EXCEPT ![session[t]] = a]
    /\ UNCHANGED <<session, picked, kept, over, given, cacheVars, storeVars, proxyVars>>

\* ... or call another one, and another.
CallAgent(t) ==
    /\ Acting(t)
    /\ \E a \in Agents : LookUp(t, <<session[t], a>>)
    /\ UNCHANGED <<session, default, picked, kept, over, given, storeVars, proxyVars>>

\* process_task stores the turn with an answer, which may be the text of an error.
Remember(t) ==
    /\ reply[t] \in {"text", "error"} /\ Free(t)
    /\ AppendTurn(t)
    /\ UNCHANGED <<ownVars, cacheVars, proxyVars>>

\* Whatever append_turn came to; or without it, where something raised, where there were
\* too many steps or no answer in the end.
EndTask(t) ==
    /\ Free(t)
    /\ reply[t] # "waiting" /\ client[t] # "waiting"
    /\ over' = over \cup {t}
    /\ UNCHANGED <<session, default, picked, kept, named, given, cacheVars, storeVars, proxyVars>>

\* DEADLINE_EXCEEDED in the scheduler.
GiveUp(t) ==
    /\ Begun(t) /\ t \notin over \cup given
    /\ given' = given \cup {t}
    /\ UNCHANGED <<session, default, picked, kept, named, over, cacheVars, storeVars, proxyVars>>

\* The steps of the cache, the store and the proxy.
CacheStep(t) == GetAgent(t) /\ UNCHANGED <<ownVars, storeVars, proxyVars>>
MemoryStep(t) == StoreStep(t) /\ UNCHANGED <<ownVars, cacheVars, proxyVars>>
ModelStep(t) == ProxyStep(t) /\ UNCHANGED <<ownVars, cacheVars, storeVars>>
RestartStore == StoreRestart /\ UNCHANGED <<ownVars, cacheVars, proxyVars>>

Next ==
    \/ \E t \in Tasks : \/ StartTask(t) \/ KeepDefault(t) \/ FirstCall(t)
                        \/ Search(t) \/ Ask(t) \/ Switch(t) \/ CallAgent(t) \/ Remember(t)
                        \/ EndTask(t) \/ GiveUp(t)
                        \/ CacheStep(t) \/ MemoryStep(t) \/ ModelStep(t)
    \/ RestartStore

Spec == Init /\ [][Next]_vars

-----------------------------------------------------------------------------
TypeOK ==
    /\ session \in Submissions
    /\ default \in [Sessions -> Agents]
    /\ picked \in [Tasks -> Agents \cup {NoAgent}]
    /\ kept \subseteq Tasks
    /\ named \in 0..MaxNamed
    /\ over \subseteq Tasks
    /\ given \subseteq Tasks
    /\ CacheTypeOK /\ StoreTypeOK /\ ProxyTypeOK

\* Not waited for any more while it may go on.
Loose(t) == t \in given \/ client[t] = "late"

\* The turns of a session follow one another in its memory: no message and no commit
\* comes between two messages of a turn, unless it is of a turn nobody waits for any
\* more, because the client of the context service or the scheduler has given it up.
TurnsWhole ==
    \A id \in Keys : \A i, j \in DOMAIN stored[id] :
        (i < j /\ stored[id][i][1] = stored[id][j][1] /\ ~ Loose(stored[id][i][1])) =>
            /\ \A k \in i..j : stored[id][k][1] = stored[id][i][1] \/ Loose(stored[id][k][1])
            /\ base[id] \in i..(j - 1) => \E t \in Tasks : log[t] = id /\ Loose(t)

\* The default agent a session was switched to is the one its next task begins with, and
\* the value that first_call writes back has not been overtaken by another: unless the
\* task, or one before it in the session, has been given up and goes on beside the next.
DefaultIsKept ==
    [][\A t \in Tasks : ({t} \cup Before(t)) \cap given = {} =>
           /\ t \in kept' \ kept => default' = default
           /\ key[t] = NoKey /\ key'[t] # NoKey => key'[t] = <<session[t], default[session[t]]>>]_vars

\* A task is told of the turn before it: when the append of an earlier task of the
\* session with the same agent was acknowledged, a successful search returns its last
\* message, unless later turns or a commit have pushed it out.
SeesLastTurn ==
    [][\A t \in Tasks : read'[t] # read[t] =>
           \A u \in Before(t) : (client[u] = "true" /\ answer[u] = "acked" /\ log[u] = key[t]) =>
               LET Held == {i \in DOMAIN stored[log[u]] : stored[log[u]][i] = <<u, Parts[u]>>} IN
               \E i \in Held : \/ i \in read'[t].from .. read'[t].to
                               \/ i <= base[log[u]]
                               \/ i <= Len(stored[log[u]]) - Window]_vars
=============================================================================
