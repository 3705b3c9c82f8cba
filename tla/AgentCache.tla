----------------------------- MODULE AgentCache -----------------------------
(***************************************************************************)
(* The cache of agent instances that the gRPC workers of the orchestrator  *)
(* share without a lock: AgentRuntime.get_agent                            *)
(* (agent-orchestrator-service/app/agent_runtime.py).  Each statement that *)
(* reads or changes the ordered dictionary is a step; building an instance *)
(* reads files, so that others may come in between.  A worker gets its     *)
(* agents one after the other: the one a task begins with, then those that *)
(* are called.                                                             *)
(***************************************************************************)
EXTENDS TaskKeys

CONSTANTS
    Earlier,         \* keys that tasks before these have left in the cache
    MaxInstances,    \* MAX_INSTANCES
    MaxWorkers       \* threads of the gRPC server

ASSUME CacheAssumption ==
    /\ IsFiniteSet(Tasks) /\ Tasks # {}
    /\ {MaxInstances, MaxWorkers} \subseteq Nat \ {0}
    /\ Earlier \in Seq(Keys) /\ Len(Earlier) <= MaxInstances
    /\ \A i, j \in DOMAIN Earlier : Earlier[i] = Earlier[j] => i = j

VARIABLES
    cache,      \* keys of _agent_instances, the longest unused first
    at,         \* place of get_agent
    key,        \* the key it was last called for
    oldest      \* oldest_key

cacheVars == <<cache, at, key, oldest>>

Cached(k) == \E i \in DOMAIN cache : cache[i] = k
Position(k) == CHOOSE i \in DOMAIN cache : cache[i] = k
Without(k) ==
    [i \in 1..(Len(cache) - 1) |-> IF i < Position(k) THEN cache[i] ELSE cache[i + 1]]

CacheInit ==
    /\ cache = Earlier
    /\ at = [t \in Tasks |-> "idle"]
    /\ key = [t \in Tasks |-> NoKey]
    /\ oldest = [t \in Tasks |-> NoKey]

\* Tasks whose threads are in get_agent.
Getting == {t \in Tasks : at[t] \notin {"idle", "have", "failed"}}

Goes(t, place) == at' = [at EXCEPT ![t] = place]

\* Mutant: the limit is exceeded by one before anything is evicted.
OverFull == Len(cache) > MaxInstances

Full == Len(cache) >= MaxInstances

\* For the first agent of a task or for a further one.
LookUp(t, k) ==
    /\ t \notin Getting
    /\ Cardinality(Getting) < MaxWorkers
    /\ key' = [key EXCEPT ![t] = k]
    /\ IF Cached(k) THEN Goes(t, "touch")
       ELSE IF Full THEN Goes(t, "evict")
       ELSE Goes(t, "insert")
    /\ UNCHANGED <<cache, oldest>>

\* move_to_end, a KeyError if the entry was evicted since.
Touch(t) ==
    /\ at[t] = "touch"
    /\ IF Cached(key[t])
       THEN cache' = Append(Without(key[t]), key[t]) /\ Goes(t, "fetch")
       ELSE UNCHANGED cache /\ Goes(t, "failed")
    /\ UNCHANGED <<key, oldest>>

Fetch(t) ==
    /\ at[t] = "fetch"
    /\ Goes(t, IF Cached(key[t]) THEN "have" ELSE "failed")
    /\ UNCHANGED <<cache, key, oldest>>

\* next(iter(...)): StopIteration if others have evicted every entry.
PickOldest(t) ==
    /\ at[t] = "evict"
    /\ IF cache = <<>>
       THEN UNCHANGED oldest /\ Goes(t, "failed")
       ELSE oldest' = [oldest EXCEPT ![t] = cache[1]] /\ Goes(t, "delete")
    /\ UNCHANGED <<cache, key>>

\* A KeyError if another worker has deleted the same entry.
DeleteOldest(t) ==
    /\ at[t] = "delete"
    /\ IF Cached(oldest[t])
       THEN cache' = Without(oldest[t]) /\ Goes(t, "insert")
       ELSE UNCHANGED cache /\ Goes(t, "failed")
    /\ oldest' = [oldest EXCEPT ![t] = NoKey]
    /\ UNCHANGED key

\* An entry another worker has made meanwhile is replaced where it stands.
Insert(t) ==
    /\ at[t] = "insert"
    /\ cache' = IF Cached(key[t]) THEN cache ELSE Append(cache, key[t])
    /\ Goes(t, "have")
    /\ UNCHANGED <<key, oldest>>

\* __init__ raises: the agent is not configured or its files cannot be read.
BuildFails(t) ==
    /\ at[t] = "insert"
    /\ Goes(t, "failed")
    /\ UNCHANGED <<cache, key, oldest>>

GetAgent(t) ==
    Touch(t) \/ Fetch(t) \/ PickOldest(t) \/ DeleteOldest(t) \/ Insert(t) \/ BuildFails(t)

CacheNext == \E t \in Tasks : (\E k \in Keys : LookUp(t, k)) \/ GetAgent(t)

CacheSpec == CacheInit /\ [][CacheNext]_cacheVars

-----------------------------------------------------------------------------
CacheTypeOK ==
    /\ cache \in Seq(Keys)
    /\ at \in [Tasks -> {"idle", "touch", "fetch", "evict", "delete", "insert", "have", "failed"}]
    /\ key \in [Tasks -> Keys \cup {NoKey}]
    /\ oldest \in [Tasks -> Keys \cup {NoKey}]
    /\ \A t \in Tasks : at[t] # "idle" => key[t] \in Keys

\* The cache exceeds its limit by no more than the other threads that find room in it at
\* the same time, although none of the steps of get_agent takes a lock and however often
\* the threads come back to it; and no key is in it twice.
CacheBounded ==
    /\ Len(cache) <= MaxInstances - 1 + MaxWorkers
    /\ \A i, j \in DOMAIN cache : cache[i] = cache[j] => i = j
=============================================================================
