--------------------------- MODULE SessionProofs ---------------------------
(***************************************************************************)
(* Proofs about the cache of agents and about Session, which puts it       *)
(* together with the memory and the model proxy, for any number of tasks,  *)
(* sessions and agents.                                                    *)
(***************************************************************************)
EXTENDS Session, ContextStoreProofs, ModelProxyProofs, FiniteSetTheorems

-----------------------------------------------------------------------------
(* The size of the cache for any number of tasks and threads: what is in   *)
(* it, together with what threads are about to insert, never exceeds its   *)
(* limit by more than the threads but one.  A thread that finds no room    *)
(* evicts before it inserts; one that finds room is one of those that are  *)
(* in get_agent.                                                           *)

Inserting == {t \in Tasks : at[t] = "insert"}

Distinct(s) == \A i, j \in DOMAIN s : s[i] = s[j] => i = j

SizeInv ==
    /\ CacheTypeOK
    /\ Distinct(cache)
    /\ Len(cache) + Cardinality(Inserting) <= MaxInstances - 1 + MaxWorkers

InPool == Cardinality(Getting) <= MaxWorkers

CacheInv == SizeInv /\ InPool

-----------------------------------------------------------------------------
LEMMA WithoutLemma ==
    ASSUME cache \in Seq(Keys), Distinct(cache), NEW k, Cached(k)
    PROVE  /\ Without(k) \in Seq(Keys)
           /\ Len(Without(k)) = Len(cache) - 1
           /\ Distinct(Without(k))
           /\ \A i \in DOMAIN Without(k) : Without(k)[i] # k
<1>1. Position(k) \in 1..Len(cache) /\ cache[Position(k)] = k
  BY DEF Position, Cached
<1>2. Len(cache) - 1 \in Nat BY <1>1
<1>3. \A i \in 1..(Len(cache) - 1) : Without(k)[i] \in Keys BY <1>1 DEF Without
<1>4. Without(k) \in Seq(Keys) /\ Len(Without(k)) = Len(cache) - 1
  BY <1>2, <1>3 DEF Without
<1>5. DOMAIN Without(k) = 1..(Len(cache) - 1) BY DEF Without
<1>6. ASSUME NEW i \in 1..(Len(cache) - 1)
      PROVE  Without(k)[i] = cache[IF i < Position(k) THEN i ELSE i + 1]
  BY DEF Without
<1>7. Distinct(Without(k)) BY <1>1, <1>2, <1>5, <1>6 DEF Distinct
<1>8. ASSUME NEW i \in DOMAIN Without(k) PROVE Without(k)[i] # k
  BY <1>1, <1>2, <1>5, <1>6 DEF Distinct
<1> QED BY <1>4, <1>7, <1>8

LEMMA AppendLemma ==
    ASSUME NEW s \in Seq(Keys), Distinct(s), NEW k \in Keys, \A i \in DOMAIN s : s[i] # k
    PROVE  Append(s, k) \in Seq(Keys) /\ Len(Append(s, k)) = Len(s) + 1 /\ Distinct(Append(s, k))
BY DEF Distinct

\* One worker more, or less, that is about to insert.
LEMMA InsertingLemma ==
    IsFiniteSet(Inserting) /\ Cardinality(Inserting) \in Nat
BY CacheAssumption, FS_CardinalityType, FS_Subset DEF Inserting

\* Whoever is about to insert is in get_agent.
LEMMA InsertingPrime ==
    Cardinality(Inserting') \in Nat /\ Cardinality(Inserting') <= Cardinality(Getting')
<1>1. Inserting' \subseteq Getting' BY DEF Inserting, Getting
<1>2. IsFiniteSet(Getting') BY CacheAssumption, FS_Subset DEF Getting
<1> QED BY <1>1, <1>2, FS_CardinalityType, FS_Subset

LEMMA GettingLemma ==
    /\ IsFiniteSet(Getting) /\ Cardinality(Getting) \in Nat
    /\ IsFiniteSet(Getting') /\ Cardinality(Getting') \in Nat
BY CacheAssumption, FS_CardinalityType, FS_Subset DEF Getting

LEMMA Leaves ==
    ASSUME NEW t \in Tasks, CacheTypeOK, NEW there, there # "insert", at[t] = "insert", Goes(t, there)
    PROVE  Cardinality(Inserting') = Cardinality(Inserting) - 1
<1>1. Inserting' = Inserting \ {t} /\ t \in Inserting BY DEF Inserting, Goes, CacheTypeOK
<1> QED BY <1>1, InsertingLemma, FS_RemoveElement

LEMMA Joins ==
    ASSUME NEW t \in Tasks, CacheTypeOK, at[t] # "insert", Goes(t, "insert")
    PROVE  Cardinality(Inserting') = Cardinality(Inserting) + 1
<1>1. Inserting' = Inserting \cup {t} /\ t \notin Inserting BY DEF Inserting, Goes, CacheTypeOK
<1> QED BY <1>1, InsertingLemma, FS_AddElement

LEMMA Stays ==
    ASSUME NEW t \in Tasks, CacheTypeOK, NEW there, there # "insert", at[t] # "insert", Goes(t, there)
    PROVE  Inserting' = Inserting
BY DEF Inserting, Goes, CacheTypeOK

-----------------------------------------------------------------------------
\* The threads in get_agent are those of the pool.
LEMMA PoolStep == ASSUME CacheTypeOK, InPool, [CacheNext]_cacheVars PROVE InPool'
<1>0. MaxWorkers \in Nat BY CacheAssumption
<1>1. ASSUME NEW t \in Tasks, NEW k \in Keys, LookUp(t, k) PROVE InPool'
  <2>1. t \notin Getting /\ Cardinality(Getting) < MaxWorkers BY <1>1 DEF LookUp
  <2>2. Getting' = Getting \cup {t} BY <1>1 DEF LookUp, Goes, Getting, CacheTypeOK
  <2>3. Cardinality(Getting') = Cardinality(Getting) + 1
    BY <2>1, <2>2, GettingLemma, FS_AddElement
  <2> QED BY <1>0, <2>1, <2>3, GettingLemma DEF InPool
<1>2. ASSUME NEW t \in Tasks, GetAgent(t) PROVE Getting' \subseteq Getting
  <2> USE DEF Goes, Getting, CacheTypeOK
  <2>1. CASE Touch(t) BY <2>1 DEF Touch
  <2>2. CASE Fetch(t) BY <2>2 DEF Fetch
  <2>3. CASE PickOldest(t) BY <2>3 DEF PickOldest
  <2>4. CASE DeleteOldest(t) BY <2>4 DEF DeleteOldest
  <2>5. CASE Insert(t) BY <2>5 DEF Insert
  <2>6. CASE BuildFails(t) BY <2>6 DEF BuildFails
  <2> QED BY <1>2, <2>1, <2>2, <2>3, <2>4, <2>5, <2>6 DEF GetAgent
<1>3. ASSUME Getting' \subseteq Getting PROVE InPool'
  <2>1. Cardinality(Getting') <= Cardinality(Getting) BY <1>3, GettingLemma, FS_Subset
  <2> QED BY <1>0, <2>1, GettingLemma DEF InPool
<1>4. CASE UNCHANGED cacheVars BY <1>3, <1>4 DEF cacheVars, Getting
<1> QED BY <1>1, <1>2, <1>3, <1>4 DEF CacheNext

LEMMA CacheInitInv == CacheInit => CacheInv
<1> SUFFICES ASSUME CacheInit PROVE CacheInv
    OBVIOUS
<1>1. CacheTypeOK BY CacheAssumption DEF CacheInit, CacheTypeOK
<1>2. Distinct(cache) BY CacheAssumption DEF CacheInit, Distinct
<1>3. Inserting = {} /\ Getting = {} BY DEF CacheInit, Inserting, Getting
<1>4. Cardinality(Inserting) = 0 /\ Cardinality(Getting) = 0 BY <1>3, FS_EmptySet
<1>5. Len(cache) <= MaxInstances /\ Len(cache) \in Nat BY CacheAssumption DEF CacheInit
<1>6. MaxInstances \in Nat \ {0} /\ MaxWorkers \in Nat \ {0} BY CacheAssumption
<1>7. SizeInv BY <1>1, <1>2, <1>4, <1>5, <1>6 DEF SizeInv
<1>8. InPool BY <1>4, <1>6 DEF InPool
<1> QED BY <1>7, <1>8 DEF CacheInv

LEMMA SizeStep == ASSUME CacheInv, [CacheNext]_cacheVars PROVE SizeInv'
<1> USE DEF CacheInv, SizeInv
<1>0. MaxInstances \in Nat \ {0} /\ MaxWorkers \in Nat \ {0} BY CacheAssumption
<1>1. ASSUME NEW t \in Tasks, NEW k \in Keys, LookUp(t, k) PROVE SizeInv'
  <2>1. CacheTypeOK' /\ Distinct(cache)'
    BY <1>1, CacheAssumption DEF LookUp, Goes, CacheTypeOK, Distinct
  <2>2. CASE Goes(t, "insert") /\ ~ Full
    <3>1. CacheNext BY <1>1 DEF CacheNext
    <3>2. Cardinality(Inserting') \in Nat /\ Cardinality(Inserting') <= MaxWorkers
      <4>1. Cardinality(Getting') <= MaxWorkers BY <3>1, PoolStep DEF InPool
      <4> QED BY <1>0, <4>1, GettingLemma, InsertingPrime
    <3>3. Len(cache) \in Nat /\ Len(cache) < MaxInstances BY <1>0, <2>2 DEF Full, CacheTypeOK
    <3>4. cache' = cache BY <1>1 DEF LookUp
    <3>5. Len(cache) + Cardinality(Inserting') <= MaxInstances - 1 + MaxWorkers
      BY <1>0, <3>2, <3>3
    <3> QED BY <2>1, <3>4, <3>5
  <2>3. CASE \E there \in {"touch", "evict"} : Goes(t, there)
    <3>1. at[t] # "insert" BY <1>1 DEF LookUp, Getting
    <3>2. Inserting' = Inserting BY <2>3, <3>1, Stays
    <3>3. cache' = cache BY <1>1 DEF LookUp
    <3> QED BY <2>1, <3>2, <3>3
  <2> QED BY <1>1, <2>2, <2>3 DEF LookUp
<1>2. ASSUME NEW t \in Tasks, Touch(t) PROVE SizeInv'
  <2>1. key[t] \in Keys BY <1>2 DEF Touch, CacheTypeOK
  <2>2. Inserting' = Inserting BY <1>2, Stays DEF Touch
  <2>3. CASE Cached(key[t])
    <3>1. cache' = Append(Without(key[t]), key[t]) BY <1>2, <2>3 DEF Touch
    <3>2. cache' \in Seq(Keys) /\ Len(cache') = Len(cache) /\ Distinct(cache')
      BY <2>1, <2>3, <3>1, WithoutLemma, AppendLemma DEF CacheTypeOK
    <3> QED BY <1>2, <2>2, <3>2 DEF Touch, Goes, CacheTypeOK, Distinct
  <2>4. CASE ~ Cached(key[t])
    BY <1>2, <2>2, <2>4 DEF Touch, Goes, CacheTypeOK, Distinct
  <2> QED BY <2>3, <2>4
<1>3. ASSUME NEW t \in Tasks, Fetch(t) PROVE SizeInv'
  <2>1. Inserting' = Inserting BY <1>3, Stays DEF Fetch
  <2> QED BY <1>3, <2>1 DEF Fetch, Goes, CacheTypeOK, Distinct
<1>4. ASSUME NEW t \in Tasks, PickOldest(t) PROVE SizeInv'
  <2>1. Inserting' = Inserting BY <1>4, Stays DEF PickOldest
  <2>2. cache # <<>> => cache[1] \in Keys BY DEF CacheTypeOK
  <2> QED BY <1>4, <2>1, <2>2 DEF PickOldest, Goes, CacheTypeOK, Distinct
<1>5. ASSUME NEW t \in Tasks, DeleteOldest(t) PROVE SizeInv'
  <2>1. CASE Cached(oldest[t])
    <3>1. cache' = Without(oldest[t]) /\ Goes(t, "insert") BY <1>5, <2>1 DEF DeleteOldest
    <3>2. cache' \in Seq(Keys) /\ Len(cache') = Len(cache) - 1 /\ Distinct(cache')
      BY <2>1, <3>1, WithoutLemma DEF CacheTypeOK
    <3>3. Cardinality(Inserting') = Cardinality(Inserting) + 1
      BY <1>5, <3>1, Joins DEF DeleteOldest
    <3>4. CacheTypeOK' BY <1>5, <3>1, <3>2 DEF DeleteOldest, Goes, CacheTypeOK
    <3>5. Len(cache) \in Nat BY DEF CacheTypeOK
    <3> QED BY <1>0, <3>2, <3>3, <3>4, <3>5, InsertingLemma DEF Distinct
  <2>2. CASE ~ Cached(oldest[t])
    <3>1. Inserting' = Inserting BY <1>5, <2>2, Stays DEF DeleteOldest
    <3> QED BY <1>5, <2>2, <3>1 DEF DeleteOldest, Goes, CacheTypeOK, Distinct
  <2> QED BY <2>1, <2>2
<1>6. ASSUME NEW t \in Tasks, Insert(t) PROVE SizeInv'
  <2>1. key[t] \in Keys BY <1>6 DEF Insert, CacheTypeOK
  <2>2. Cardinality(Inserting') = Cardinality(Inserting) - 1 BY <1>6, Leaves DEF Insert
  <2>3. cache' \in Seq(Keys) /\ Len(cache') <= Len(cache) + 1 /\ Distinct(cache')
    BY <1>6, <2>1, AppendLemma DEF Insert, Cached, CacheTypeOK
  <2>4. CacheTypeOK' BY <1>6, <2>3 DEF Insert, Goes, CacheTypeOK
  <2>5. Len(cache) \in Nat /\ Len(cache') \in Nat BY <2>3 DEF CacheTypeOK
  <2> QED BY <1>0, <2>2, <2>3, <2>4, <2>5, InsertingLemma DEF Distinct
<1>7. ASSUME NEW t \in Tasks, BuildFails(t) PROVE SizeInv'
  <2>1. Cardinality(Inserting') = Cardinality(Inserting) - 1 BY <1>7, Leaves DEF BuildFails
  <2>2. CacheTypeOK' /\ Distinct(cache)' BY <1>7 DEF BuildFails, Goes, CacheTypeOK, Distinct
  <2>3. Len(cache) \in Nat BY DEF CacheTypeOK
  <2> QED BY <1>0, <1>7, <2>1, <2>2, <2>3, InsertingLemma DEF BuildFails
<1>8. CASE UNCHANGED cacheVars
  BY <1>8 DEF cacheVars, CacheTypeOK, Distinct, Inserting
<1> QED BY <1>1, <1>2, <1>3, <1>4, <1>5, <1>6, <1>7, <1>8 DEF CacheNext, GetAgent

LEMMA CacheStepInv == ASSUME CacheInv, [CacheNext]_cacheVars PROVE CacheInv'
BY SizeStep, PoolStep DEF CacheInv, SizeInv

LEMMA CacheInvHolds == CacheSpec => []CacheInv
BY CacheInitInv, CacheStepInv, PTL DEF CacheSpec

\* However the unlocked steps of the threads interleave, of any number of tasks that each
\* come back for as many agents as they like, the cache never holds more than its limit
\* and one entry per further thread of the pool, nor a key twice.
THEOREM CacheStaysBounded == CacheSpec => []CacheBounded
<1>1. CacheInv => CacheBounded
  <2> SUFFICES ASSUME CacheInv PROVE CacheBounded
      OBVIOUS
  <2>1. Len(cache) \in Nat /\ MaxInstances \in Nat /\ MaxWorkers \in Nat
    BY CacheAssumption DEF CacheInv, SizeInv, CacheTypeOK
  <2> QED BY <2>1, InsertingLemma DEF CacheInv, SizeInv, CacheBounded, Distinct
<1> QED BY <1>1, CacheInvHolds, PTL

-----------------------------------------------------------------------------
(* The parts keep their specifications in the composition.                 *)

\* What the steps of the composition leave in the variables of its own.
OwnTypeOK ==
    /\ session \in Submissions
    /\ default \in [Sessions -> Agents]
    /\ picked \in [Tasks -> Agents \cup {NoAgent}]
    /\ kept \subseteq Tasks
    /\ named \in 0..MaxNamed
    /\ over \subseteq Tasks
    /\ given \subseteq Tasks

SessionInv == OwnTypeOK /\ CacheInv /\ StoreInv /\ ProxyInv

LEMMA SessionInit == Init => SessionInv
<1> SUFFICES ASSUME Init PROVE SessionInv
  OBVIOUS
<1>1. OwnTypeOK BY SessionAssumption DEF Init, OwnTypeOK
<1>2. CacheInv BY CacheInitInv DEF Init
<1>3. StoreInv BY StoreInitInv DEF Init
<1>4. ProxyInv BY ProxyInitInv DEF Init
<1> QED BY <1>1, <1>2, <1>3, <1>4 DEF SessionInv

\* A step of the composition is a step of one of the parts or of none, with a key and
\* a session such as the part allows.
LEMMA PartSteps ==
    ASSUME OwnTypeOK, CacheTypeOK, [Next]_vars
    PROVE  [CacheNext]_cacheVars /\ [StoreNext]_storeVars /\ [ProxyNext]_proxyVars
<1>1. ASSUME NEW t \in Tasks, FirstCall(t) \/ CallAgent(t)
      PROVE  CacheNext /\ UNCHANGED storeVars /\ UNCHANGED proxyVars
  <2>1. session[t] \in Sessions /\ picked[t] \in Agents \cup {NoAgent}
    BY SessionAssumption DEF OwnTypeOK
  <2>2. ASSUME FirstCall(t) PROVE \E k \in Keys : LookUp(t, k)
    BY <2>1, <2>2, SessionAssumption DEF FirstCall
  <2>3. ASSUME CallAgent(t) PROVE \E k \in Keys : LookUp(t, k)
    BY <2>1, <2>3, SessionAssumption DEF CallAgent
  <2>4. UNCHANGED storeVars /\ UNCHANGED proxyVars BY <1>1 DEF FirstCall, CallAgent
  <2> QED BY <1>1, <2>2, <2>3, <2>4 DEF CacheNext
<1>2. ASSUME NEW t \in Tasks, Search(t)
      PROVE  UNCHANGED cacheVars /\ StoreNext /\ UNCHANGED proxyVars
  <2>1. key[t] \in Keys BY <1>2 DEF Search, CacheTypeOK
  <2> QED BY <1>2, <2>1 DEF Search, StoreNext
<1>3. ASSUME NEW t \in Tasks, Ask(t)
      PROVE  UNCHANGED cacheVars /\ UNCHANGED storeVars /\ ProxyNext
  BY <1>3 DEF Ask, ProxyNext
<1>4. ASSUME NEW t \in Tasks,
             StartTask(t) \/ KeepDefault(t) \/ Switch(t) \/ EndTask(t) \/ GiveUp(t)
      PROVE  UNCHANGED <<cacheVars, storeVars, proxyVars>>
  BY <1>4 DEF StartTask, KeepDefault, Switch, EndTask, GiveUp
<1>5. ASSUME NEW t \in Tasks, Remember(t)
      PROVE  UNCHANGED cacheVars /\ StoreNext /\ UNCHANGED proxyVars
  BY <1>5 DEF Remember, StoreNext
<1>6. ASSUME NEW t \in Tasks, CacheStep(t)
      PROVE  CacheNext /\ UNCHANGED storeVars /\ UNCHANGED proxyVars
  BY <1>6 DEF CacheStep, CacheNext
<1>7. ASSUME NEW t \in Tasks, MemoryStep(t)
      PROVE  UNCHANGED cacheVars /\ StoreNext /\ UNCHANGED proxyVars
  BY <1>7 DEF MemoryStep, StoreNext
<1>8. ASSUME NEW t \in Tasks, ModelStep(t)
      PROVE  UNCHANGED cacheVars /\ UNCHANGED storeVars /\ ProxyNext
  BY <1>8 DEF ModelStep, ProxyNext
<1>9. CASE RestartStore
  BY <1>9 DEF RestartStore, StoreNext
<1>10. CASE UNCHANGED vars
  BY <1>10 DEF vars
<1> QED
  BY <1>1, <1>2, <1>3, <1>4, <1>5, <1>6, <1>7, <1>8, <1>9, <1>10 DEF Next

LEMMA OwnStep ==
    ASSUME OwnTypeOK, [Next]_vars
    PROVE  OwnTypeOK' /\ session' = session /\ over \subseteq over' /\ given \subseteq given'
<1>0. /\ session \in [Tasks -> Sessions] /\ default \in [Sessions -> Agents]
      /\ picked \in [Tasks -> Agents \cup {NoAgent}]
      /\ named \in Nat /\ MaxNamed \in Nat /\ named <= MaxNamed
  BY SessionAssumption DEF OwnTypeOK
<1>1. ASSUME NEW t \in Tasks, StartTask(t) \/ FirstCall(t)
      PROVE  OwnTypeOK' /\ UNCHANGED <<session, over, given>>
  <2>1. UNCHANGED <<session, default, kept, named, over, given>>
    BY <1>1 DEF StartTask, FirstCall
  <2>2. picked' \in [Tasks -> Agents \cup {NoAgent}] BY <1>0, <1>1 DEF StartTask, FirstCall
  <2> QED BY <2>1, <2>2 DEF OwnTypeOK
<1>2. ASSUME NEW t \in Tasks, KeepDefault(t)
      PROVE  OwnTypeOK' /\ UNCHANGED <<session, over, given>>
  <2>1. picked[t] \in Agents BY <1>0, <1>2 DEF KeepDefault
  <2>2. default' \in [Sessions -> Agents] /\ kept' \subseteq Tasks
    BY <1>0, <1>2, <2>1 DEF KeepDefault, OwnTypeOK
  <2> QED BY <1>2, <2>2 DEF KeepDefault, OwnTypeOK
<1>3. ASSUME NEW t \in Tasks, Switch(t) \/ CallAgent(t)
      PROVE  OwnTypeOK' /\ UNCHANGED <<session, over, given>>
  <2>1. UNCHANGED <<session, picked, kept, over, given>> BY <1>3 DEF Switch, CallAgent
  <2>2. default' \in [Sessions -> Agents] BY <1>0, <1>3 DEF Switch, CallAgent
  <2>3. named' \in 0..MaxNamed
    <3>1. named < MaxNamed /\ named' = named + 1 BY <1>3 DEF Switch, CallAgent, Acting
    <3> QED BY <1>0, <3>1
  <2> QED BY <2>1, <2>2, <2>3 DEF OwnTypeOK
<1>4. ASSUME NEW t \in Tasks, EndTask(t) \/ GiveUp(t)
      PROVE  OwnTypeOK' /\ session' = session /\ over \subseteq over' /\ given \subseteq given'
  BY <1>4 DEF EndTask, GiveUp, OwnTypeOK
<1>5. CASE UNCHANGED ownVars
  BY <1>5 DEF ownVars, OwnTypeOK
<1>6. \/ UNCHANGED ownVars
      \/ \E t \in Tasks : StartTask(t) \/ FirstCall(t) \/ KeepDefault(t) \/ Switch(t)
                          \/ CallAgent(t) \/ EndTask(t) \/ GiveUp(t)
  BY DEF Next, Search, Ask, Remember, CacheStep, MemoryStep, ModelStep, RestartStore, vars
<1> QED BY <1>1, <1>2, <1>3, <1>4, <1>5, <1>6

LEMMA SessionStep == SessionInv /\ [Next]_vars => SessionInv'
<1> SUFFICES ASSUME SessionInv, [Next]_vars PROVE SessionInv'
  OBVIOUS
<1>1. [CacheNext]_cacheVars /\ [StoreNext]_storeVars /\ [ProxyNext]_proxyVars
  BY PartSteps DEF SessionInv, CacheInv, SizeInv
<1>2. CacheInv' BY <1>1, CacheStepInv DEF SessionInv
<1>3. StoreInv' BY <1>1, StoreStepInv DEF SessionInv
<1>4. ProxyInv' BY <1>1, ProxyStepInv DEF SessionInv
<1>5. OwnTypeOK' BY OwnStep DEF SessionInv
<1> QED BY <1>2, <1>3, <1>4, <1>5 DEF SessionInv

LEMMA SessionAlways == Spec => []SessionInv
BY SessionInit, SessionStep, PTL DEF Spec

\* Every variable of the composition keeps its type.
THEOREM SessionTypeCorrect == Spec => []TypeOK
<1>1. SessionInv => TypeOK
  BY DEF SessionInv, OwnTypeOK, CacheInv, SizeInv, StoreInv, ProxyInv, TypeOK
<1> QED BY <1>1, SessionAlways, PTL

\* The composition does with each part only what the specification of the part allows.
\* What is proved of the cache, the memory and the model proxy for callers of any kind
\* so holds in it.
THEOREM PartsImplemented == Spec => CacheSpec /\ StoreSpec /\ ProxySpec
<1>1. Init => CacheInit /\ StoreInit /\ ProxyInit BY DEF Init
<1>2. SessionInv /\ [Next]_vars => [CacheNext]_cacheVars /\ [StoreNext]_storeVars /\ [ProxyNext]_proxyVars
  BY PartSteps DEF SessionInv, CacheInv, SizeInv
<1> QED BY <1>1, <1>2, SessionAlways, PTL DEF Spec, CacheSpec, StoreSpec, ProxySpec

\* The bound of the cache, the meaning of an acknowledgement, the model that is always
\* found and the retry that is lost, of the tasks of a scheduler.
THEOREM PartsKeepTheirWord ==
    Spec => []CacheBounded /\ []AckMeansStored /\ []DefaultServes /\ RetryAfterTimeoutIsLost
BY PartsImplemented, CacheStaysBounded, AcknowledgedTurnIsStored, DefaultAlwaysServes, RepeatedForNobody, PTL

-----------------------------------------------------------------------------
(* The turns of a session.  Of what the parts leave open, the composition  *)
(* keeps the order of the tasks: the messages of a session come in that    *)
(* order, and a commit comes when every turn before it is complete, as far *)
(* as the turns are of tasks that are still waited for.                    *)

\* A task has the agents of its session and writes to that; it was started after those
\* before it were over, or given up by the scheduler, and is over when it waits for
\* nothing.
LinkInv == \A t \in Tasks :
    /\ log[t] # NoKey => at[t] # "idle" /\ log[t][1] = session[t]
    /\ at[t] # "idle" => key[t][1] = session[t] /\ picked[t] = NoAgent
    /\ Begun(t) => Before(t) \subseteq over \cup given
    /\ t \in over => at[t] # "idle" /\ client[t] # "waiting"
    /\ client[t] \in {"true", "false"} => answer[t] # "none"

\* The messages of a task that is waited for come before those of later tasks.
Sorted(s) ==
    \A i, j \in DOMAIN s : (s[i][1] < s[j][1] /\ ~ Loose(s[i][1])) => i < j

OrderInv == \A id \in Keys : Sorted(stored[id])

\* All who write to the session are waited for.
Tight(id) == \A t \in Tasks : log[t] = id => ~ Loose(t)

\* What has been archived are complete turns.
CutInv == \A id \in Keys :
    /\ base[id] <= Len(stored[id])
    /\ Tight(id) => \A i \in DOMAIN stored[id] : i <= base[id] =>
           /\ place[stored[id][i][1]] = "done"
           /\ \A j \in DOMAIN stored[id] : stored[id][j][1] = stored[id][i][1] => j <= base[id]

TurnInv == SessionInv /\ LinkInv /\ OrderInv /\ CutInv

-----------------------------------------------------------------------------
\* What neither the cache nor the memory takes back.
LEMMA CacheStepGoesOn ==
    ASSUME CacheTypeOK, NEW t \in Tasks, GetAgent(t)
    PROVE  key' = key /\ \A u \in Tasks : (at[u] = "idle" <=> at'[u] = "idle")
<1> USE DEF CacheTypeOK, Goes
<1>1. CASE Touch(t) BY <1>1 DEF Touch
<1>2. CASE Fetch(t) BY <1>2 DEF Fetch
<1>3. CASE PickOldest(t) BY <1>3 DEF PickOldest
<1>4. CASE DeleteOldest(t) BY <1>4 DEF DeleteOldest
<1>5. CASE Insert(t) BY <1>5 DEF Insert
<1>6. CASE BuildFails(t) BY <1>6 DEF BuildFails
<1> QED BY <1>1, <1>2, <1>3, <1>4, <1>5, <1>6 DEF GetAgent

LEMMA LookUpGoesOn ==
    ASSUME CacheTypeOK, NEW t \in Tasks, NEW k \in Keys, LookUp(t, k)
    PROVE  /\ key'[t] = k /\ at'[t] # "idle"
           /\ \A u \in Tasks \ {t} : key'[u] = key[u] /\ at'[u] = at[u]
BY DEF CacheTypeOK, Goes, LookUp

\* The steps of append_turn, for the task that takes them and for the others.
LEMMA StoreStepGoesOn ==
    ASSUME StoreTypeOK, Fresh, NEW t \in Tasks, AppendTurn(t) \/ StoreStep(t), NEW u \in Tasks
    PROVE  /\ log' = log
           /\ place[u] = "done" => place'[u] = "done"
           /\ client[u] \in {"true", "false", "late"} => client'[u] = client[u]
           /\ answer[u] # "none" => answer'[u] # "none"
           /\ client'[u] \in {"true", "false"} => client[u] = client'[u] \/ answer[u] # "none"
<1> USE DEF StoreTypeOK, Answers
<1>1. CASE AppendTurn(t)
  <2>1. place[t] = "idle" BY <1>1 DEF AppendTurn, Fresh
  <2> QED BY <1>1, <2>1 DEF AppendTurn
<1>2. CASE Enter(t) BY <1>2 DEF Enter
<1>3. CASE AppendFails(t) BY <1>3 DEF AppendFails
<1>4. CASE AddMessage(t) BY <1>4 DEF AddMessage
<1>5. CASE CheckCount(t) BY <1>5 DEF CheckCount
<1>6. CASE Commit(t) BY <1>6 DEF Commit
<1>7. CASE CommitFails(t) BY <1>7 DEF CommitFails
<1>8. CASE ClientAnswered(t) BY <1>8 DEF ClientAnswered
<1>9. CASE ClientTimesOut(t) BY <1>9 DEF ClientTimesOut
<1> QED BY <1>1, <1>2, <1>3, <1>4, <1>5, <1>6, <1>7, <1>8, <1>9 DEF StoreStep

LEMMA StoreGoesOn ==
    ASSUME StoreInv, [StoreNext]_storeVars, NEW u \in Tasks
    PROVE  /\ log[u] # NoKey => log'[u] = log[u]
           /\ place[u] = "done" => place'[u] = "done"
           /\ client[u] \in {"true", "false", "late"} => client'[u] = client[u]
           /\ answer[u] # "none" => answer'[u] # "none"
           /\ client'[u] \in {"true", "false"} => client[u] = client'[u] \/ answer[u] # "none"
<1>1. StoreTypeOK /\ Fresh BY DEF StoreInv
<1>2. ASSUME NEW t \in Tasks, NEW id \in Keys, SearchContext(t, id)
      PROVE  (log[u] # NoKey => log'[u] = log[u]) /\ UNCHANGED <<place, client, answer>>
  BY <1>1, <1>2 DEF SearchContext, StoreTypeOK
<1>3. CASE StoreRestart
  BY <1>1, <1>3 DEF StoreRestart
<1>4. CASE UNCHANGED storeVars BY <1>4 DEF storeVars
<1>5. CASE \E t \in Tasks : AppendTurn(t) \/ StoreStep(t)
  BY <1>1, <1>5, StoreStepGoesOn
<1> QED BY <1>2, <1>3, <1>4, <1>5 DEF StoreNext

\* What becomes of the messages of the sessions.
Stored(t) == stored' = [stored EXCEPT ![log[t]] = Append(@, <<t, next[t]>>)]

LEMMA MessageSteps ==
    ASSUME StoreInv, [StoreNext]_storeVars
    PROVE  \/ UNCHANGED <<stored, base>>
           \/ \E t \in Tasks : /\ place[t] = "message" /\ Stored(t) /\ base' = base
                               /\ log' = log
           \/ \E t \in Tasks : /\ place[t] = "commit" /\ stored' = stored /\ log' = log
                               /\ base' = [base EXCEPT ![log[t]] = Len(stored[log[t]])]
                               /\ place' = [place EXCEPT ![t] = "done"]
<1>1. ASSUME NEW t \in Tasks, AddMessage(t) PROVE place[t] = "message" /\ Stored(t) /\ UNCHANGED <<base, log>>
  BY <1>1 DEF AddMessage, Stored
<1>2. ASSUME NEW t \in Tasks, AppendFails(t)
      PROVE  \/ UNCHANGED <<stored, base>>
             \/ place[t] = "message" /\ Stored(t) /\ UNCHANGED <<base, log>>
  BY <1>2 DEF AppendFails, Stored
<1>3. ASSUME NEW t \in Tasks, Commit(t) \/ CommitFails(t)
      PROVE  \/ UNCHANGED <<stored, base>>
             \/ /\ place[t] = "commit" /\ stored' = stored /\ log' = log
                /\ base' = [base EXCEPT ![log[t]] = Len(stored[log[t]])]
                /\ place' = [place EXCEPT ![t] = "done"]
  BY <1>3 DEF Commit, CommitFails, Answers
<1>4. ASSUME NEW t \in Tasks,
             AppendTurn(t) \/ Enter(t) \/ CheckCount(t) \/ ClientAnswered(t)
             \/ ClientTimesOut(t) \/ \E id \in Keys : SearchContext(t, id)
      PROVE  UNCHANGED <<stored, base>>
  BY <1>4 DEF AppendTurn, Enter, CheckCount, ClientAnswered, ClientTimesOut, SearchContext
<1>5. CASE StoreRestart \/ UNCHANGED storeVars
  BY <1>5 DEF StoreRestart, storeVars
<1> QED BY <1>1, <1>2, <1>3, <1>4, <1>5 DEF StoreNext, StoreStep

-----------------------------------------------------------------------------
LEMMA LinkInit == Init => LinkInv
BY DEF Init, CacheInit, StoreInit, LinkInv, Begun

\* A task is given up for good.
LEMMA LooseStays ==
    ASSUME SessionInv, [Next]_vars, NEW u \in Tasks, Loose(u)
    PROVE  u \in given' \/ client'[u] = "late"
<1>1. given \subseteq given' BY OwnStep DEF SessionInv
<1>2. [StoreNext]_storeVars BY PartSteps DEF SessionInv, CacheInv, SizeInv
<1>3. client[u] = "late" => client'[u] = "late"
  BY <1>2, StoreGoesOn DEF SessionInv
<1> QED BY <1>1, <1>3 DEF Loose

\* What the composition does to the agents and the logs of its tasks, ...
LEMMA AgentSteps ==
    ASSUME SessionInv, [Next]_vars
    PROVE  \/ UNCHANGED <<at, key, picked>>
           \/ \E t \in Tasks : CacheStep(t)
           \/ \E t \in Tasks : StartTask(t)
           \/ \E t \in Tasks : FirstCall(t)
           \/ \E t \in Tasks : CallAgent(t)
<1>1. ASSUME NEW t \in Tasks, KeepDefault(t) \/ Search(t) \/ Ask(t) \/ Switch(t) \/ Remember(t)
      PROVE  UNCHANGED <<at, key, picked>>
  BY <1>1 DEF KeepDefault, Search, Ask, Switch, Remember, cacheVars, ownVars
<1>2. ASSUME NEW t \in Tasks, EndTask(t) \/ GiveUp(t) \/ MemoryStep(t) \/ ModelStep(t)
      PROVE  UNCHANGED <<at, key, picked>>
  BY <1>2 DEF EndTask, GiveUp, MemoryStep, ModelStep, cacheVars, ownVars
<1>3. RestartStore \/ UNCHANGED vars => UNCHANGED <<at, key, picked>>
  BY DEF RestartStore, vars, cacheVars, ownVars
<1> QED BY <1>1, <1>2, <1>3 DEF Next

\* ... and when a task waits for its append.
LEMMA LogSteps ==
    ASSUME SessionInv, [Next]_vars, NEW u \in Tasks
    PROVE  /\ log'[u] = log[u] \/ (at[u] = "have" /\ log'[u] = key[u])
           /\ u \in over => client[u] = "waiting" \/ client'[u] # "waiting"
<1>1. StoreTypeOK /\ Fresh /\ StoreInv BY DEF SessionInv, StoreInv
<1>2. ASSUME NEW t \in Tasks, Search(t)
      PROVE  (log'[u] = log[u] \/ (at[u] = "have" /\ log'[u] = key[u])) /\ client' = client
  <2>1. at[t] = "have" /\ log' = [log EXCEPT ![t] = key[t]] /\ client' = client
    BY <1>2 DEF Search, SearchContext
  <2>2. log \in [Tasks -> Keys \cup {NoKey}] BY <1>1 DEF StoreTypeOK
  <2> QED BY <2>1, <2>2
<1>3. ASSUME NEW t \in Tasks, Remember(t)
      PROVE  log' = log /\ (u \in over => client'[u] = client[u])
  <2>1. t \notin over /\ log' = log /\ client' = [client EXCEPT ![t] = "waiting"]
    BY <1>3 DEF Remember, Free, AppendTurn
  <2> QED BY <1>1, <2>1 DEF StoreTypeOK
<1>4. ASSUME NEW t \in Tasks, MemoryStep(t)
      PROVE  log' = log /\ (client[u] = "waiting" \/ client'[u] # "waiting")
  <2>1. StoreStep(t) BY <1>4 DEF MemoryStep
  <2>2. log' = log BY <1>1, <2>1, StoreStepGoesOn
  <2>3. ASSUME Enter(t) \/ AppendFails(t) \/ AddMessage(t) \/ CheckCount(t) \/ Commit(t)
               \/ CommitFails(t)
        PROVE  client' = client
    BY <2>3 DEF Enter, AppendFails, AddMessage, CheckCount, Commit, CommitFails
  <2>4. ASSUME ClientAnswered(t) \/ ClientTimesOut(t)
        PROVE  client[u] = "waiting" \/ client'[u] = client[u]
    BY <1>1, <2>4 DEF ClientAnswered, ClientTimesOut, StoreTypeOK
  <2> QED BY <2>1, <2>2, <2>3, <2>4 DEF StoreStep
<1>5. ASSUME NEW t \in Tasks,
             StartTask(t) \/ KeepDefault(t) \/ FirstCall(t) \/ Ask(t) \/ Switch(t) \/ CallAgent(t)
             \/ EndTask(t) \/ GiveUp(t) \/ CacheStep(t) \/ ModelStep(t)
      PROVE  log' = log /\ client' = client
  BY <1>5 DEF StartTask, KeepDefault, FirstCall, Ask, Switch, CallAgent, EndTask, GiveUp,
     CacheStep, ModelStep, storeVars
<1>6. RestartStore \/ UNCHANGED vars => log' = log /\ client' = client
  BY DEF RestartStore, StoreRestart, vars, storeVars
<1> QED BY <1>2, <1>3, <1>4, <1>5, <1>6 DEF Next

LEMMA LinkStep == ASSUME SessionInv, LinkInv, [Next]_vars PROVE LinkInv'
<1>1. /\ session' = session /\ over \subseteq over' /\ given \subseteq given'
  BY OwnStep DEF SessionInv
<1>2. [StoreNext]_storeVars BY PartSteps DEF SessionInv, CacheInv, SizeInv
<1>3. /\ CacheTypeOK /\ StoreTypeOK /\ StoreInv
      /\ picked \in [Tasks -> Agents \cup {NoAgent}]
  BY DEF SessionInv, CacheInv, SizeInv, StoreInv, OwnTypeOK
<1>4. SUFFICES ASSUME NEW u \in Tasks
      PROVE  /\ log'[u] # NoKey => at'[u] # "idle" /\ log'[u][1] = session'[u]
             /\ at'[u] # "idle" => key'[u][1] = session'[u] /\ picked'[u] = NoAgent
             /\ Begun(u)' => Before(u)' \subseteq over' \cup given'
             /\ u \in over' => at'[u] # "idle" /\ client'[u] # "waiting"
             /\ client'[u] \in {"true", "false"} => answer'[u] # "none"
  BY DEF LinkInv
<1>5. /\ log[u] # NoKey => at[u] # "idle" /\ log[u][1] = session[u]
      /\ at[u] # "idle" => key[u][1] = session[u] /\ picked[u] = NoAgent
      /\ Begun(u) => Before(u) \subseteq over \cup given
      /\ u \in over => at[u] # "idle" /\ client[u] # "waiting"
      /\ client[u] \in {"true", "false"} => answer[u] # "none"
  BY DEF LinkInv
<1>6. /\ at[u] # "idle" => at'[u] # "idle"
      /\ at'[u] # "idle" => key'[u][1] = session[u] /\ picked'[u] = NoAgent
      /\ Begun(u)' => Begun(u) \/ Pending(u) = {}
  <2>1. CASE UNCHANGED <<at, key, picked>> BY <1>5, <2>1 DEF Begun
  <2>2. ASSUME NEW t \in Tasks, CacheStep(t)
        PROVE  /\ key' = key /\ picked' = picked
               /\ at[u] = "idle" <=> at'[u] = "idle"
    BY <1>3, <2>2, CacheStepGoesOn DEF CacheStep, ownVars
  <2>3. ASSUME NEW t \in Tasks, StartTask(t)
        PROVE  /\ UNCHANGED <<at, key>> /\ at[t] = "idle" /\ Pending(t) = {}
               /\ u # t => picked'[u] = picked[u]
    BY <1>3, <2>3 DEF StartTask, Begun, cacheVars
  <2>4. ASSUME NEW t \in Tasks, FirstCall(t)
        PROVE  \/ at'[u] = at[u] /\ key'[u] = key[u] /\ picked'[u] = picked[u]
               \/ /\ u = t /\ Begun(u) /\ at'[u] # "idle" /\ key'[u][1] = session[u]
                  /\ picked'[u] = NoAgent
    <3>1. session[t] \in Sessions /\ picked[t] \in Agents
      BY <1>3, <2>4, SessionAssumption DEF FirstCall, SessionInv, OwnTypeOK
    <3>2. <<session[t], picked[t]>> \in Keys /\ <<session[t], picked[t]>>[1] = session[t]
      BY <3>1, SessionAssumption
    <3>3. LookUp(t, <<session[t], picked[t]>>) /\ picked' = [picked EXCEPT ![t] = NoAgent]
      BY <2>4 DEF FirstCall
    <3>4. Begun(t) BY <2>4 DEF FirstCall, Begun
    <3>5. CASE u = t
      <4>1. key'[t] = <<session[t], picked[t]>> /\ at'[t] # "idle"
        BY <1>3, <3>2, <3>3, LookUpGoesOn
      <4> QED BY <1>3, <3>2, <3>3, <3>4, <3>5, <4>1
    <3>6. CASE u # t
      <4>1. key'[u] = key[u] /\ at'[u] = at[u] BY <1>3, <3>2, <3>3, <3>6, LookUpGoesOn
      <4> QED BY <1>3, <3>3, <3>6, <4>1
    <3> QED BY <3>5, <3>6
  <2>5. ASSUME NEW t \in Tasks, CallAgent(t)
        PROVE  /\ picked' = picked
               /\ \/ at'[u] = at[u] /\ key'[u] = key[u]
                  \/ u = t /\ at[u] # "idle" /\ at'[u] # "idle" /\ key'[u][1] = session[u]
    <3>1. PICK a \in Agents : LookUp(t, <<session[t], a>>) BY <2>5 DEF CallAgent
    <3>2. session[t] \in Sessions BY SessionAssumption DEF SessionInv, OwnTypeOK
    <3>3. <<session[t], a>> \in Keys /\ <<session[t], a>>[1] = session[t]
      BY <3>2, SessionAssumption
    <3>4. at[t] # "idle" /\ picked' = picked BY <2>5 DEF CallAgent, Acting, Free
    <3> QED BY <1>3, <3>1, <3>3, <3>4, LookUpGoesOn
  <2>6. ASSUME NEW t \in Tasks, CacheStep(t)
        PROVE  /\ at[u] # "idle" => at'[u] # "idle"
               /\ at'[u] # "idle" => key'[u][1] = session[u] /\ picked'[u] = NoAgent
               /\ Begun(u)' => Begun(u)
    BY <1>5, <2>2, <2>6 DEF Begun
  <2>7. ASSUME NEW t \in Tasks, StartTask(t)
        PROVE  /\ at[u] # "idle" => at'[u] # "idle"
               /\ at'[u] # "idle" => key'[u][1] = session[u] /\ picked'[u] = NoAgent
               /\ Begun(u)' => Begun(u) \/ Pending(u) = {}
    BY <1>5, <2>3, <2>7 DEF Begun
  <2>8. ASSUME NEW t \in Tasks, FirstCall(t)
        PROVE  /\ at[u] # "idle" => at'[u] # "idle"
               /\ at'[u] # "idle" => key'[u][1] = session[u] /\ picked'[u] = NoAgent
               /\ Begun(u)' => Begun(u)
    BY <1>5, <2>4, <2>8 DEF Begun
  <2>9. ASSUME NEW t \in Tasks, CallAgent(t)
        PROVE  /\ at[u] # "idle" => at'[u] # "idle"
               /\ at'[u] # "idle" => key'[u][1] = session[u] /\ picked'[u] = NoAgent
               /\ Begun(u)' => Begun(u)
    BY <1>5, <2>5, <2>9 DEF Begun
  <2> QED BY <2>1, <2>6, <2>7, <2>8, <2>9, AgentSteps
<1>7. Before(u)' = Before(u) BY <1>1 DEF Before
<1>8. Begun(u)' => Before(u)' \subseteq over' \cup given'
  BY <1>1, <1>5, <1>6, <1>7 DEF Pending
<1>9. log'[u] # NoKey => at'[u] # "idle" /\ log'[u][1] = session'[u]
  <2>1. log'[u] = log[u] \/ (at[u] = "have" /\ log'[u] = key[u]) BY LogSteps
  <2> QED BY <1>1, <1>5, <1>6, <2>1
<1>a. client'[u] \in {"true", "false"} => answer'[u] # "none"
  BY <1>2, <1>3, <1>5, StoreGoesOn
<1>b. u \in over' \ over => at[u] # "idle" /\ client[u] # "waiting" /\ client'[u] = client[u]
  <2>1. ASSUME NEW t \in Tasks, EndTask(t), u \in over' \ over
        PROVE  at[u] # "idle" /\ client[u] # "waiting" /\ client'[u] = client[u]
    BY <2>1 DEF EndTask, Free, storeVars
  <2>2. (\E t \in Tasks : EndTask(t)) \/ over' = over
    BY DEF Next, StartTask, KeepDefault, FirstCall, Search, Ask, Switch, CallAgent, Remember,
       GiveUp, CacheStep, MemoryStep, ModelStep, RestartStore, vars, ownVars
  <2> QED BY <2>1, <2>2
<1>c. u \in over' => at'[u] # "idle" /\ client'[u] # "waiting"
  BY <1>5, <1>6, <1>b, LogSteps
<1> QED BY <1>1, <1>6, <1>8, <1>9, <1>a, <1>c

-----------------------------------------------------------------------------
\* A message is of a task that has an agent and has begun, in the session of the agent.
LEMMA Writer ==
    ASSUME StoreInv, LinkInv, NEW id \in Keys, NEW i \in DOMAIN stored[id]
    PROVE  /\ stored[id][i][1] \in Tasks /\ log[stored[id][i][1]] = id
<1>1. stored[id] \in Seq(Tasks \X Nat) BY DEF StoreInv, StoreTypeOK
<1>2. stored[id][i] \in Tasks \X Nat BY <1>1
<1>3. stored[id][i][1] \in Tasks BY <1>2
<1> QED BY <1>3 DEF StoreInv, Own

LEMMA WriterBegan ==
    ASSUME StoreInv, LinkInv, NEW id \in Keys, NEW i \in DOMAIN stored[id]
    PROVE  place[stored[id][i][1]] # "idle"
<1> DEFINE w == stored[id][i][1]
<1>1. w \in Tasks /\ log[w] = id BY Writer
<1>2. SUFFICES ASSUME place[w] = "idle" PROVE FALSE
  OBVIOUS
<1>3. Below(stored[log[w]], w, 0) BY <1>1, <1>2 DEF StoreInv, Turns
<1>4. stored[id][i][2] \in 1..0 BY <1>1, <1>3 DEF Below
<1> QED BY <1>4

\* Of two tasks that write to a session, the earlier has written when the later begins,
\* if it is waited for, or will not write at all.
LEMMA EarlierIsDone ==
    ASSUME StoreInv, LinkInv, OwnTypeOK, NEW id \in Keys, NEW u \in Tasks, NEW w \in Tasks,
           log[u] = id, log[w] = id, u < w, ~ Loose(u)
    PROVE  place[u] \in {"idle", "done"}
<1>1. id # NoKey BY KeyAssumption
<1>2. session[u] = id[1] /\ session[w] = id[1] /\ at[w] # "idle"
  BY <1>1 DEF LinkInv
<1>3. Before(w) \subseteq over \cup given BY <1>2 DEF LinkInv, Begun
<1>4. u \in over BY <1>2, <1>3 DEF Before, Loose
<1>5. client[u] # "waiting" /\ client[u] # "late" BY <1>4 DEF LinkInv, Loose
<1>6. client[u] \in {"idle", "waiting", "true", "false", "late"} BY DEF StoreInv, StoreTypeOK
<1>7. client[u] \in {"true", "false"} => answer[u] # "none" BY DEF LinkInv
<1> QED BY <1>5, <1>6, <1>7 DEF StoreInv, Fresh

\* A message comes last of its session, a commit after all of them.
LEMMA AppendAtEnd ==
    ASSUME StoreTypeOK, NEW t \in Tasks, log[t] \in Keys, Stored(t)
    PROVE  /\ \A id \in Keys \ {log[t]} : stored'[id] = stored[id]
           /\ Len(stored'[log[t]]) = Len(stored[log[t]]) + 1
           /\ Len(stored[log[t]]) \in Nat
           /\ DOMAIN stored[log[t]] = 1..Len(stored[log[t]])
           /\ DOMAIN stored'[log[t]] = 1..(Len(stored[log[t]]) + 1)
           /\ \A i \in DOMAIN stored[log[t]] : stored'[log[t]][i] = stored[log[t]][i]
           /\ stored'[log[t]][Len(stored[log[t]]) + 1][1] = t
<1> DEFINE s == stored[log[t]]
<1>1. s \in Seq(Tasks \X Nat) BY DEF StoreTypeOK
<1>2. stored'[log[t]] = Append(s, <<t, next[t]>>) /\ \A id \in Keys \ {log[t]} : stored'[id] = stored[id]
  BY DEF Stored, StoreTypeOK
<1> HIDE DEF s
<1>3. /\ Len(s) \in Nat /\ DOMAIN s = 1..Len(s)
      /\ Len(Append(s, <<t, next[t]>>)) = Len(s) + 1
      /\ DOMAIN Append(s, <<t, next[t]>>) = 1..(Len(s) + 1)
      /\ \A i \in DOMAIN s : Append(s, <<t, next[t]>>)[i] = s[i]
      /\ Append(s, <<t, next[t]>>)[Len(s) + 1] = <<t, next[t]>>
  BY <1>1
<1> QED BY <1>2, <1>3 DEF s

LEMMA OrderStep ==
    ASSUME SessionInv, LinkInv, OrderInv, [Next]_vars
    PROVE  OrderInv'
<1>1. StoreInv /\ StoreTypeOK /\ OwnTypeOK BY DEF SessionInv, StoreInv
<1>2. [StoreNext]_storeVars BY PartSteps DEF SessionInv, CacheInv, SizeInv
<1>3. \A u \in Tasks : ~ (u \in given' \/ client'[u] = "late") => ~ Loose(u)
  BY LooseStays
<1>4. SUFFICES ASSUME NEW id \in Keys, NEW i \in DOMAIN stored'[id], NEW j \in DOMAIN stored'[id],
                      stored'[id][i][1] < stored'[id][j][1],
                      ~ (stored'[id][i][1] \in given' \/ client'[stored'[id][i][1]] = "late")
               PROVE  i < j
  BY DEF OrderInv, Sorted, Loose
<1>5. CASE stored' = stored
  <2>1. stored[id][i][1] \in Tasks BY <1>1, <1>5, Writer
  <2>2. ~ Loose(stored[id][i][1]) BY <1>3, <1>4, <1>5, <2>1
  <2> QED BY <1>4, <1>5, <2>2 DEF OrderInv, Sorted
<1>6. ASSUME NEW t \in Tasks, place[t] = "message", Stored(t) PROVE i < j
  <2>1. log[t] \in Keys BY <1>1, <1>6 DEF StoreTypeOK
  <2>2. CASE id # log[t]
    <3>1. stored'[id] = stored[id] BY <1>1, <1>6, <2>1, <2>2, AppendAtEnd
    <3>2. stored[id][i][1] \in Tasks BY <1>1, <3>1, Writer
    <3>3. ~ Loose(stored[id][i][1]) BY <1>3, <1>4, <3>1, <3>2
    <3> QED BY <1>4, <3>1, <3>3 DEF OrderInv, Sorted
  <2>3. CASE id = log[t]
    <3> DEFINE n == Len(stored[id])
    <3>1. /\ n \in Nat /\ DOMAIN stored[id] = 1..n /\ DOMAIN stored'[id] = 1..(n + 1)
          /\ \A k \in 1..n : stored'[id][k] = stored[id][k]
          /\ stored'[id][n + 1][1] = t
      BY <1>1, <1>6, <2>1, <2>3, AppendAtEnd
    <3> HIDE DEF n
    <3>2. CASE i \in 1..n /\ j \in 1..n
      <4>1. stored[id][i][1] \in Tasks BY <1>1, <3>1, <3>2, Writer
      <4>2. ~ Loose(stored[id][i][1]) BY <1>3, <1>4, <3>1, <3>2, <4>1
      <4> QED BY <1>4, <3>1, <3>2, <4>2 DEF OrderInv, Sorted
    <3>3. CASE i \in 1..n /\ j = n + 1 BY <3>1, <3>3
    <3>4. CASE i = n + 1 /\ j \in 1..n
      <4>1. stored[id][j][1] \in Tasks /\ log[stored[id][j][1]] = id
        BY <1>1, <3>1, <3>4, Writer
      <4>2. t < stored[id][j][1] /\ ~ Loose(t) BY <1>3, <1>4, <3>1, <3>4
      <4>3. place[t] \in {"idle", "done"} BY <1>1, <2>3, <4>1, <4>2, EarlierIsDone
      <4> QED BY <1>6, <4>3
    <3>5. CASE i = n + 1 /\ j = n + 1
      <4>1. t \in Nat /\ t < t BY <1>4, <3>1, <3>5, SessionAssumption
      <4> QED BY <4>1
    <3> QED BY <3>1, <3>2, <3>3, <3>4, <3>5
  <2> QED BY <2>2, <2>3
<1> QED BY <1>1, <1>2, <1>5, <1>6, MessageSteps

LEMMA TightBefore ==
    ASSUME SessionInv, [Next]_vars, NEW id \in Keys,
           \A t \in Tasks : log'[t] = id => ~ (t \in given' \/ client'[t] = "late")
    PROVE  Tight(id)
<1>1. [StoreNext]_storeVars BY PartSteps DEF SessionInv, CacheInv, SizeInv
<1>2. ASSUME NEW t \in Tasks, log[t] = id PROVE ~ Loose(t)
  <2>1. log'[t] = id BY <1>1, <1>2, KeyAssumption, StoreGoesOn DEF SessionInv
  <2> QED BY <2>1, LooseStays
<1> QED BY <1>2 DEF Tight

LEMMA CutStep ==
    ASSUME SessionInv, LinkInv, CutInv, [Next]_vars
    PROVE  CutInv'
<1>1. StoreInv /\ StoreTypeOK /\ OwnTypeOK BY DEF SessionInv, StoreInv
<1>2. [StoreNext]_storeVars BY PartSteps DEF SessionInv, CacheInv, SizeInv
<1>3. \A u \in Tasks : place[u] = "done" => place'[u] = "done"
  BY <1>1, <1>2, StoreGoesOn
<1>4. SUFFICES ASSUME NEW id \in Keys
      PROVE  /\ base'[id] <= Len(stored'[id])
             /\ (\A t \in Tasks : log'[t] = id => ~ (t \in given' \/ client'[t] = "late")) =>
                   \A i \in DOMAIN stored'[id] : i <= base'[id] =>
                      /\ place'[stored'[id][i][1]] = "done"
                      /\ \A j \in DOMAIN stored'[id] :
                             stored'[id][j][1] = stored'[id][i][1] => j <= base'[id]
  BY DEF CutInv, Tight, Loose
<1>5. /\ base[id] \in Nat /\ Len(stored[id]) \in Nat /\ DOMAIN stored[id] = 1..Len(stored[id])
      /\ base[id] <= Len(stored[id])
  <2>1. base[id] \in Nat /\ stored[id] \in Seq(Tasks \X Nat) BY <1>1 DEF StoreTypeOK
  <2> QED BY <2>1 DEF CutInv
<1>6. ASSUME \A t \in Tasks : log'[t] = id => ~ (t \in given' \/ client'[t] = "late"),
             NEW i \in DOMAIN stored[id], i <= base[id]
      PROVE  /\ stored[id][i][1] \in Tasks /\ place[stored[id][i][1]] = "done"
             /\ place'[stored[id][i][1]] = "done"
             /\ \A j \in DOMAIN stored[id] : stored[id][j][1] = stored[id][i][1] => j <= base[id]
  <2>1. Tight(id) BY <1>6, TightBefore
  <2>2. stored[id][i][1] \in Tasks BY <1>1, Writer
  <2>3. /\ place[stored[id][i][1]] = "done"
        /\ \A j \in DOMAIN stored[id] : stored[id][j][1] = stored[id][i][1] => j <= base[id]
    BY <1>6, <2>1 DEF CutInv
  <2> QED BY <1>3, <2>2, <2>3
<1>7. CASE stored'[id] = stored[id] /\ base'[id] = base[id]
  BY <1>5, <1>6, <1>7
<1>8. ASSUME NEW t \in Tasks, place[t] = "message", Stored(t), base' = base, id = log[t]
      PROVE  /\ base'[id] <= Len(stored'[id])
             /\ (\A u \in Tasks : log'[u] = id => ~ (u \in given' \/ client'[u] = "late")) =>
                   \A i \in DOMAIN stored'[id] : i <= base'[id] =>
                      /\ place'[stored'[id][i][1]] = "done"
                      /\ \A j \in DOMAIN stored'[id] :
                             stored'[id][j][1] = stored'[id][i][1] => j <= base'[id]
  <2> DEFINE n == Len(stored[id])
  <2>1. /\ n \in Nat /\ DOMAIN stored[id] = 1..n /\ DOMAIN stored'[id] = 1..(n + 1)
        /\ \A k \in 1..n : stored'[id][k] = stored[id][k]
        /\ stored'[id][n + 1][1] = t /\ Len(stored'[id]) = n + 1
    BY <1>1, <1>8, AppendAtEnd
  <2>2. base[id] \in Nat /\ base[id] <= n BY <1>5
  <2> HIDE DEF n
  <2>3. ASSUME \A u \in Tasks : log'[u] = id => ~ (u \in given' \/ client'[u] = "late"),
               NEW i \in DOMAIN stored'[id], i <= base[id]
        PROVE  /\ place'[stored'[id][i][1]] = "done"
               /\ \A j \in DOMAIN stored'[id] :
                      stored'[id][j][1] = stored'[id][i][1] => j <= base[id]
    <3>1. i \in 1..n /\ i \in DOMAIN stored[id] /\ stored'[id][i] = stored[id][i]
      BY <2>1, <2>2, <2>3
    <3>2. /\ place[stored[id][i][1]] = "done" /\ place'[stored[id][i][1]] = "done"
          /\ \A j \in DOMAIN stored[id] : stored[id][j][1] = stored[id][i][1] => j <= base[id]
      BY <1>6, <2>3, <3>1
    <3>3. stored[id][i][1] # t BY <1>8, <3>2
    <3>4. ASSUME NEW j \in DOMAIN stored'[id], stored'[id][j][1] = stored'[id][i][1]
          PROVE  j <= base[id]
      <4>1. j # n + 1 BY <2>1, <3>1, <3>3, <3>4
      <4>2. j \in 1..n BY <2>1, <4>1
      <4> QED BY <2>1, <3>1, <3>2, <3>4, <4>2
    <3> QED BY <3>1, <3>2, <3>4
  <2> QED BY <1>8, <2>1, <2>2, <2>3
<1>9. ASSUME NEW t \in Tasks, place[t] = "commit", stored' = stored, log' = log, id = log[t],
             base' = [base EXCEPT ![log[t]] = Len(stored[log[t]])],
             place' = [place EXCEPT ![t] = "done"]
      PROVE  /\ base'[id] <= Len(stored'[id])
             /\ (\A u \in Tasks : log'[u] = id => ~ (u \in given' \/ client'[u] = "late")) =>
                   \A i \in DOMAIN stored'[id] : i <= base'[id] =>
                      /\ place'[stored'[id][i][1]] = "done"
                      /\ \A j \in DOMAIN stored'[id] :
                             stored'[id][j][1] = stored'[id][i][1] => j <= base'[id]
  <2>1. base'[id] = Len(stored[id]) BY <1>1, <1>9 DEF StoreTypeOK
  <2>2. ASSUME Tight(id), NEW i \in DOMAIN stored[id]
        PROVE  place'[stored[id][i][1]] = "done"
    <3> DEFINE w == stored[id][i][1]
    <3>1. w \in Tasks /\ log[w] = id BY <1>1, Writer
    <3>2. ~ Loose(w) /\ ~ Loose(t) BY <1>9, <2>2, <3>1 DEF Tight
    <3>3. CASE w = t BY <1>1, <1>9, <3>3 DEF StoreTypeOK
    <3> HIDE DEF w
    <3>4. CASE w < t
      <4>1. place[w] \in {"idle", "done"} BY <1>1, <1>9, <3>1, <3>2, <3>4, EarlierIsDone
      <4>2. place[w] # "idle" BY <1>1, <2>2, WriterBegan DEF w
      <4> QED BY <1>3, <3>1, <4>1, <4>2 DEF w
    <3>5. CASE t < w
      <4>1. place[t] \in {"idle", "done"} BY <1>1, <1>9, <3>1, <3>2, <3>5, EarlierIsDone
      <4> QED BY <1>9, <4>1
    <3>6. w \in Nat /\ t \in Nat BY <3>1, SessionAssumption
    <3> QED BY <3>3, <3>4, <3>5, <3>6
  <2> QED BY <1>5, <1>9, <2>1, <2>2, TightBefore
<1>a. /\ \A t \in Tasks : place[t] = "message" => log[t] \in Keys
      /\ base \in [Keys -> Nat]
  BY <1>1 DEF StoreTypeOK
<1>b. ASSUME NEW t \in Tasks, place[t] = "message", Stored(t), base' = base, id # log[t]
      PROVE  stored'[id] = stored[id] /\ base'[id] = base[id]
  BY <1>1, <1>a, <1>b, AppendAtEnd
<1>c. ASSUME NEW t \in Tasks, stored' = stored, id # log[t],
             base' = [base EXCEPT ![log[t]] = Len(stored[log[t]])]
      PROVE  stored'[id] = stored[id] /\ base'[id] = base[id]
  BY <1>a, <1>c
<1> QED BY <1>1, <1>2, <1>7, <1>8, <1>9, <1>b, <1>c, MessageSteps

-----------------------------------------------------------------------------
LEMMA TurnInit == Init => TurnInv
<1> SUFFICES ASSUME Init PROVE TurnInv
  OBVIOUS
<1>1. OrderInv BY DEF Init, StoreInit, OrderInv, Sorted
<1>2. CutInv BY DEF Init, StoreInit, CutInv
<1> QED BY <1>1, <1>2, SessionInit, LinkInit DEF TurnInv

LEMMA TurnStep == TurnInv /\ [Next]_vars => TurnInv'
BY SessionStep, LinkStep, OrderStep, CutStep DEF TurnInv

LEMMA TurnAlways == Spec => []TurnInv
BY TurnInit, TurnStep, PTL DEF Spec

\* Of any number of tasks that the scheduler runs one after the other in a session, with
\* any failures and restarts between, the turns are whole in its memory, but for what
\* comes of a task nobody waits for.
THEOREM TurnsStayWhole == Spec => []TurnsWhole
<1>1. ASSUME TurnInv PROVE TurnsWhole
  <2>1. StoreInv /\ StoreTypeOK /\ LinkInv /\ OrderInv /\ CutInv
    BY <1>1 DEF TurnInv, SessionInv, StoreInv
  <2>2. SUFFICES ASSUME NEW id \in Keys, NEW i \in DOMAIN stored[id], NEW j \in DOMAIN stored[id],
                        i < j, stored[id][i][1] = stored[id][j][1], ~ Loose(stored[id][i][1])
        PROVE  /\ \A k \in i..j : stored[id][k][1] = stored[id][i][1] \/ Loose(stored[id][k][1])
               /\ base[id] \in i..(j - 1) => \E t \in Tasks : log[t] = id /\ Loose(t)
    BY DEF TurnsWhole
  <2>3. base[id] \in Nat /\ DOMAIN stored[id] = 1..Len(stored[id]) /\ Len(stored[id]) \in Nat
    <3>1. base[id] \in Nat /\ stored[id] \in Seq(Tasks \X Nat) BY <2>1 DEF StoreTypeOK
    <3> QED BY <3>1
  <2>4. ASSUME NEW k \in i..j, ~ Loose(stored[id][k][1]), stored[id][k][1] # stored[id][i][1]
        PROVE  FALSE
    <3>1. k \in DOMAIN stored[id] BY <2>3
    <3>2. stored[id][k][1] \in Nat /\ stored[id][i][1] \in Nat
      BY <2>1, <3>1, Writer, SessionAssumption
    <3>3. CASE stored[id][k][1] < stored[id][i][1]
      <4>1. k < i BY <2>1, <2>4, <3>1, <3>3 DEF OrderInv, Sorted
      <4> QED BY <2>3, <4>1
    <3>4. CASE stored[id][i][1] < stored[id][k][1]
      <4>1. j < k BY <2>1, <2>2, <3>1, <3>4 DEF OrderInv, Sorted
      <4> QED BY <2>3, <4>1
    <3> QED BY <2>4, <3>2, <3>3, <3>4
  <2>5. ASSUME base[id] \in i..(j - 1), Tight(id) PROVE FALSE
    <3>1. i <= base[id] /\ ~ (j <= base[id]) BY <2>3, <2>5
    <3> QED BY <2>1, <2>2, <2>5, <3>1 DEF CutInv
  <2> QED BY <2>4, <2>5 DEF Tight
<1> QED BY <1>1, TurnAlways, PTL

\* The search of a task finds the last message of an acknowledged turn of its session, in
\* what it returns or in what later turns and commits have pushed out of it.
THEOREM LastTurnIsSeen == Spec => SeesLastTurn
<1>1. ASSUME SessionInv, Next, NEW t \in Tasks, read'[t] # read[t], NEW u \in Before(t),
             client[u] = "true", answer[u] = "acked", log[u] = key[t]
      PROVE  LET Held == {i \in DOMAIN stored[log[u]] : stored[log[u]][i] = <<u, Parts[u]>>} IN
             \E i \in Held : \/ i \in read'[t].from .. read'[t].to
                             \/ i <= base[log[u]]
                             \/ i <= Len(stored[log[u]]) - Window
  <2>1. StoreInv /\ StoreTypeOK BY <1>1 DEF SessionInv, StoreInv
  <2>2. mode = "server" /\ log[t] = NoKey /\ read'[t] = Latest(key[t])
    <3>1. PICK w \in Tasks : SearchContext(w, key[w])
      <4>1. ASSUME NEW w \in Tasks, Remember(w) \/ MemoryStep(w) PROVE read' = read
        BY <4>1 DEF Remember, MemoryStep, AppendTurn, StoreStep, Enter, AppendFails, AddMessage,
           CheckCount, Commit, CommitFails, ClientAnswered, ClientTimesOut
      <4>2. ASSUME NEW w \in Tasks,
                   StartTask(w) \/ KeepDefault(w) \/ FirstCall(w) \/ Ask(w) \/ Switch(w)
                   \/ CallAgent(w) \/ EndTask(w) \/ GiveUp(w) \/ CacheStep(w) \/ ModelStep(w)
            PROVE  read' = read
        BY <4>2 DEF StartTask, KeepDefault, FirstCall, Ask, Switch, CallAgent, EndTask, GiveUp,
           CacheStep, ModelStep, storeVars
      <4>3. RestartStore => read' = read BY DEF RestartStore, StoreRestart
      <4> QED BY <1>1, <4>1, <4>2, <4>3 DEF Next, Search
    <3>2. read \in [Tasks -> [from : Nat, to : Nat]] BY <2>1 DEF StoreTypeOK
    <3> QED BY <1>1, <3>1, <3>2 DEF SearchContext
  <2> DEFINE s == stored[log[u]]
  <2>3. u \in Tasks /\ log[u] \in Keys
    <3>1. u \in Tasks BY <1>1 DEF Before
    <3>2. place[u] = "done" BY <1>1, <2>1, <3>1 DEF StoreInv, Fresh
    <3> QED BY <2>1, <3>1, <3>2 DEF StoreTypeOK
  <2>4. s \in Seq(Tasks \X Nat) /\ base[log[u]] \in Nat BY <2>1, <2>3 DEF StoreTypeOK
  <2>5. Upto(s, u, Parts[u]) BY <1>1, <2>1, <2>3 DEF StoreInv, Turns
  <2>6. read'[t] = [from |-> IF Len(s) - base[log[u]] > Window THEN Len(s) - Window + 1
                             ELSE base[log[u]] + 1,
                    to |-> Len(s)]
    BY <1>1, <2>2 DEF Latest
  <2>7. Parts[u] \in 1..Parts[u] BY <2>3, StoreAssumption
  <2> HIDE DEF s
  <2>8. PICK i \in DOMAIN s : s[i][1] = u /\ s[i][2] = Parts[u] BY <2>5, <2>7 DEF Upto
  <2>9. s[i] = <<u, Parts[u]>> /\ i \in 1..Len(s) /\ Len(s) \in Nat
    <3>1. s[i] \in Tasks \X Nat BY <2>4, <2>8
    <3> QED BY <2>4, <2>8, <3>1
  <2>10. Window \in Nat BY StoreAssumption
  <2>11. \/ i \in read'[t].from .. read'[t].to
         \/ i <= base[log[u]]
         \/ i <= Len(s) - Window
    BY <2>4, <2>6, <2>9, <2>10
  <2> QED BY <2>8, <2>9, <2>11 DEF s
<1>2. SessionInv /\ [Next]_vars =>
        [\A t \in Tasks : read'[t] # read[t] =>
           \A u \in Before(t) : (client[u] = "true" /\ answer[u] = "acked" /\ log[u] = key[t]) =>
               LET Held == {i \in DOMAIN stored[log[u]] : stored[log[u]][i] = <<u, Parts[u]>>} IN
               \E i \in Held : \/ i \in read'[t].from .. read'[t].to
                               \/ i <= base[log[u]]
                               \/ i <= Len(stored[log[u]]) - Window]_vars
  BY <1>1
<1> QED BY <1>2, SessionAlways, PTL DEF Spec, SeesLastTurn

-----------------------------------------------------------------------------
(* The default agents.  A task that holds the one it has read is alone in  *)
(* its session with those that are over and those that have been given up: *)
(* the later ones wait for it, and of the earlier ones nobody else writes. *)

InTurn(t) == ({t} \cup Before(t)) \cap given = {}

HeldInv == \A t \in Tasks : picked[t] # NoAgent /\ InTurn(t) => picked[t] = default[session[t]]

\* Nobody else of the session has begun and is not over.
LEMMA AloneInSession ==
    ASSUME OwnTypeOK, LinkInv, NEW t \in Tasks, picked[t] # NoAgent, InTurn(t),
           NEW u \in Tasks, u # t, session[u] = session[t], Begun(u)
    PROVE  u \in over /\ at[u] # "idle" /\ picked[u] = NoAgent
<1>1. t \in Nat /\ u \in Nat BY SessionAssumption
<1>2. Begun(t) BY DEF Begun
<1>3. CASE u < t
  <2>1. u \in Before(t) /\ u \notin given BY <1>3 DEF Before, InTurn
  <2>2. u \in over BY <1>2, <2>1 DEF LinkInv
  <2> QED BY <2>2 DEF LinkInv
<1>4. CASE t < u
  <2>1. t \in Before(u) /\ t \notin given BY <1>4 DEF Before, InTurn
  <2>2. t \in over BY <2>1 DEF LinkInv
  <2> QED BY <2>2 DEF LinkInv
<1> QED BY <1>1, <1>3, <1>4

LEMMA HeldStep ==
    ASSUME SessionInv, LinkInv, HeldInv, [Next]_vars
    PROVE  HeldInv'
<1>0. /\ session \in [Tasks -> Sessions] /\ default \in [Sessions -> Agents]
      /\ picked \in [Tasks -> Agents \cup {NoAgent}] /\ OwnTypeOK
  BY SessionAssumption DEF SessionInv, OwnTypeOK
<1>1. /\ session' = session /\ given \subseteq given'
  BY OwnStep DEF SessionInv
<1>2. SUFFICES ASSUME NEW t \in Tasks, picked'[t] # NoAgent,
                      ({t} \cup Before(t)) \cap given' = {}
               PROVE  picked'[t] = default'[session[t]]
  BY <1>1 DEF HeldInv, InTurn, Before
<1>3. InTurn(t) BY <1>1, <1>2 DEF InTurn
<1>4. ASSUME NEW u \in Tasks, StartTask(u) PROVE picked'[t] = default'[session[t]]
  <2>1. picked' = [picked EXCEPT ![u] = default[session[u]]] /\ default' = default
    BY <1>4 DEF StartTask
  <2> QED BY <1>0, <1>2, <1>3, <2>1 DEF HeldInv
<1>5. ASSUME NEW u \in Tasks, FirstCall(u) PROVE picked'[t] = default'[session[t]]
  <2>1. picked' = [picked EXCEPT ![u] = NoAgent] /\ default' = default
    BY <1>5 DEF FirstCall
  <2>2. picked'[t] = picked[t] BY <1>0, <1>2, <2>1
  <2> QED BY <1>2, <1>3, <2>1, <2>2 DEF HeldInv
<1>6. ASSUME NEW u \in Tasks, KeepDefault(u) PROVE picked'[t] = default'[session[t]]
  <2>1. /\ picked' = picked /\ picked[u] # NoAgent
        /\ default' = [default EXCEPT ![session[u]] = picked[u]]
    BY <1>6 DEF KeepDefault
  <2>2. picked[t] = default[session[t]] BY <1>2, <1>3, <2>1 DEF HeldInv
  <2>3. u = t \/ session[u] # session[t]
    BY <1>0, <1>2, <1>3, <2>1, AloneInSession DEF Begun
  <2> QED BY <1>0, <2>1, <2>2, <2>3
<1>7. ASSUME NEW u \in Tasks, Switch(u) PROVE picked'[t] = default'[session[t]]
  <2>1. /\ picked' = picked /\ at[u] # "idle" /\ u \notin over
        /\ \E a \in Agents : default' = [default EXCEPT ![session[u]] = a]
    BY <1>7 DEF Switch, Acting, Free
  <2>2. picked[t] = default[session[t]] BY <1>2, <1>3, <2>1 DEF HeldInv
  <2>3. u # t BY <1>2, <2>1 DEF LinkInv
  <2>4. session[u] # session[t]
    BY <1>0, <1>2, <1>3, <2>1, <2>3, AloneInSession DEF Begun
  <2> QED BY <1>0, <2>1, <2>2, <2>4
<1>8. CASE picked' = picked /\ default' = default
  BY <1>2, <1>3, <1>8 DEF HeldInv
<1>9. ASSUME NEW u \in Tasks,
             Search(u) \/ Ask(u) \/ CallAgent(u) \/ Remember(u) \/ EndTask(u) \/ GiveUp(u)
             \/ CacheStep(u) \/ MemoryStep(u) \/ ModelStep(u)
      PROVE  picked' = picked /\ default' = default
  BY <1>9 DEF Search, Ask, CallAgent, Remember, EndTask, GiveUp, CacheStep, MemoryStep,
     ModelStep, ownVars
<1>a. RestartStore \/ UNCHANGED vars => picked' = picked /\ default' = default
  BY DEF RestartStore, vars, ownVars
<1> QED BY <1>4, <1>5, <1>6, <1>7, <1>8, <1>9, <1>a DEF Next

LEMMA HeldAlways == Spec => [](SessionInv /\ LinkInv /\ HeldInv)
<1>1. Init => HeldInv BY DEF Init, HeldInv
<1>2. SessionInv /\ LinkInv /\ HeldInv /\ [Next]_vars => (SessionInv /\ LinkInv /\ HeldInv)'
  BY SessionStep, LinkStep, HeldStep
<1> QED BY <1>1, <1>2, SessionInit, LinkInit, PTL DEF Spec

\* A session's next task begins with the agent the session was last switched to, and
\* first_call writes nothing back that has been overtaken, for any number of tasks, as
\* long as none of the session's tasks up to it has been given up.
THEOREM SwitchIsKept == Spec => DefaultIsKept
<1>1. ASSUME SessionInv, LinkInv, HeldInv, Next, NEW t \in Tasks,
             ({t} \cup Before(t)) \cap given = {}
      PROVE  /\ t \in kept' \ kept => default' = default
             /\ key[t] = NoKey /\ key'[t] # NoKey => key'[t] = <<session[t], default[session[t]]>>
  <2>1. InTurn(t) BY <1>1 DEF InTurn
  <2>2. /\ session \in [Tasks -> Sessions] /\ default \in [Sessions -> Agents]
        /\ picked \in [Tasks -> Agents \cup {NoAgent}] /\ CacheTypeOK
    BY <1>1, SessionAssumption DEF SessionInv, OwnTypeOK, CacheInv, SizeInv
  <2>3. ASSUME NEW u \in Tasks, KeepDefault(u), t \in kept' \ kept PROVE default' = default
    <3>1. /\ u = t /\ picked[t] # NoAgent
          /\ default' = [default EXCEPT ![session[t]] = picked[t]]
      BY <2>3 DEF KeepDefault
    <3>2. picked[t] = default[session[t]] BY <1>1, <2>1, <3>1 DEF HeldInv
    <3> QED BY <2>2, <3>1, <3>2
  <2>4. (\E u \in Tasks : KeepDefault(u)) \/ kept' = kept
    BY <1>1 DEF Next, StartTask, FirstCall, Search, Ask, Switch, CallAgent, Remember, EndTask,
       GiveUp, CacheStep, MemoryStep, ModelStep, RestartStore, ownVars
  <2>5. ASSUME NEW u \in Tasks, FirstCall(u), key'[t] # key[t]
        PROVE  key'[t] = <<session[t], default[session[t]]>>
    <3>1. picked[u] # NoAgent /\ LookUp(u, <<session[u], picked[u]>>) BY <2>5 DEF FirstCall
    <3>2. u = t /\ key'[t] = <<session[t], picked[t]>>
      BY <2>2, <2>5, <3>1 DEF LookUp, CacheTypeOK
    <3>3. picked[t] = default[session[t]] BY <1>1, <2>1, <3>1, <3>2 DEF HeldInv
    <3> QED BY <3>2, <3>3
  <2>6. ASSUME NEW u \in Tasks, CallAgent(u), key'[t] # key[t] PROVE key[t] # NoKey
    <3>1. at[u] # "idle" /\ \E a \in Agents : LookUp(u, <<session[u], a>>)
      BY <2>6 DEF CallAgent, Acting, Free
    <3>2. u = t BY <2>2, <2>6, <3>1 DEF LookUp, CacheTypeOK
    <3> QED BY <2>2, <3>1, <3>2, KeyAssumption DEF CacheTypeOK
  <2>7. ASSUME NEW u \in Tasks, CacheStep(u) PROVE key' = key
    BY <2>2, <2>7, CacheStepGoesOn DEF CacheStep
  <2>8. ASSUME NEW u \in Tasks, StartTask(u) PROVE key' = key
    BY <2>8 DEF StartTask, cacheVars
  <2> QED BY <1>1, <2>3, <2>4, <2>5, <2>6, <2>7, <2>8, AgentSteps
<1>2. SessionInv /\ LinkInv /\ HeldInv /\ [Next]_vars =>
        [\A t \in Tasks : ({t} \cup Before(t)) \cap given = {} =>
           /\ t \in kept' \ kept => default' = default
           /\ key[t] = NoKey /\ key'[t] # NoKey =>
                  key'[t] = <<session[t], default[session[t]]>>]_vars
  BY <1>1
<1> QED BY <1>2, HeldAlways, PTL DEF Spec, DefaultIsKept
=============================================================================
