-------------------------- MODULE ModelProxyProofs --------------------------
(***************************************************************************)
(* Timeouts and fallbacks of a model call, for all values of the timeouts  *)
(* and all model lists.                                                    *)
(***************************************************************************)
EXTENDS ModelProxy, TLAPS

\* A request after a timeout begins when the client has just stopped waiting.
RetryComesLate ==
    ClientTimeout <= RequestTimeout =>
        \A t \in Tasks : retry[t] = "timeout" =>
            /\ call[t] # "answered"
            /\ call[t] = "request" => begun[t] = ClientTimeout

ProxyInv == ProxyTypeOK /\ RetryComesLate

USE ProxyAssumption

-----------------------------------------------------------------------------
LEMMA ProxyInitInv == ProxyInit => ProxyInv
BY DEF ProxyInit, ProxyInv, ProxyTypeOK, RetryComesLate

LEMMA ProxyStepInv == ProxyInv /\ [ProxyNext]_proxyVars => ProxyInv'
<1> SUFFICES ASSUME ProxyInv, [ProxyNext]_proxyVars PROVE ProxyInv'
  OBVIOUS
<1> USE DEF ProxyInv, ProxyTypeOK, RetryComesLate
<1>1. ASSUME NEW t \in Tasks, SendCall(t) PROVE ProxyInv'
  BY <1>1 DEF SendCall
<1>2. ASSUME NEW t \in Tasks, Handle(t) PROVE ProxyInv'
  BY <1>2 DEF Handle, Request
<1>3. ASSUME NEW t \in Tasks, Responds(t) PROVE ProxyInv'
  BY <1>3 DEF Responds
<1>4. ASSUME NEW t \in Tasks, Refused(t) PROVE ProxyInv'
  BY <1>4 DEF Refused, RequestFails, Request
<1>5. ASSUME NEW t \in Tasks, RequestTimesOut(t) PROVE ProxyInv'
  BY <1>5 DEF RequestTimesOut, Patience, RequestFails, Request
<1>6. ASSUME NEW t \in Tasks, ClientGets(t) \/ ClientGivesUp(t) PROVE ProxyInv'
  BY <1>6 DEF ClientGets, ClientGivesUp, Returns
<1>7. ASSUME NEW t \in Tasks, TimePasses(t) PROVE ProxyInv'
  BY <1>7 DEF TimePasses
<1>8. CASE UNCHANGED proxyVars BY <1>8 DEF proxyVars
<1> QED BY <1>1, <1>2, <1>3, <1>4, <1>5, <1>6, <1>7, <1>8 DEF ProxyNext, ProxyStep

LEMMA ProxyInvariance == ProxySpec => []ProxyInv
BY ProxyInitInv, ProxyStepInv, PTL DEF ProxySpec

-----------------------------------------------------------------------------
\* The clock of a call never passes the timeout of its client, for all timeouts.
THEOREM ProxyTypeCorrect == ProxySpec => []ProxyTypeOK
<1>1. ProxyInv => ProxyTypeOK BY DEF ProxyInv
<1> QED BY <1>1, ProxyInvariance, PTL

\* Where the client waits no longer than a request to the provider may take, the request
\* that is repeated after a timeout is answered to nobody.
THEOREM RepeatedForNobody == ProxySpec => RetryAfterTimeoutIsLost
<1> DEFINE Lost ==
      \A t \in Tasks : (reply'[t] = "text" /\ reply[t] # "text" /\ ClientTimeout <= RequestTimeout) =>
          retry[t] # "timeout"
<1>1. ASSUME ProxyInv, ProxyNext, NEW t \in Tasks, reply'[t] = "text", reply[t] # "text"
      PROVE  call[t] = "answered"
  <2> USE <1>1 DEF ProxyInv, ProxyTypeOK
  <2>1. ASSUME NEW u \in Tasks, SendCall(u) PROVE FALSE
    BY <2>1 DEF SendCall
  <2>2. ASSUME NEW u \in Tasks, Handle(u) \/ Responds(u) \/ Refused(u) \/ RequestTimesOut(u)
                                \/ TimePasses(u)
        PROVE  FALSE
    BY <2>2 DEF Handle, Responds, Refused, RequestTimesOut, RequestFails, TimePasses
  <2>3. ASSUME NEW u \in Tasks, ClientGets(u) \/ ClientGivesUp(u) PROVE call[t] = "answered"
    BY <2>3 DEF ClientGets, ClientGivesUp, Returns
  <2> QED BY <2>1, <2>2, <2>3 DEF ProxyNext, ProxyStep
<1>2. ProxyInv /\ [ProxyNext]_proxyVars => [Lost]_proxyVars
  BY <1>1 DEF ProxyInv, RetryComesLate
<1> QED BY <1>2, ProxyInvariance, PTL DEF ProxySpec, RetryAfterTimeoutIsLost

-----------------------------------------------------------------------------
\* What get_profile falls back to is the model its list's default stands for, and it is
\* what any other name comes to.
LEMMA ResolvesWithDefault ==
    ASSUME NEW l \in Lists, DefaultOf(l) \in l.entries, NEW name \in Profiles \cup {NoProfile}
    PROVE  Resolve(l, name) \in Profiles
<1>1. l.entries \subseteq Profiles /\ l.format \in {"models", "profiles", "flat"}
  BY DEF ListType
<1>2. Fallback(l) = DefaultOf(l)
  BY <1>1 DEF Fallback, DefaultOf, Alias
<1> QED BY <1>1, <1>2 DEF Resolve

\* However the model list is replaced, a call finds a model if every list has one for
\* its default.
THEOREM DefaultAlwaysServes == ProxySpec => []DefaultServes
<1>1. ProxyInit => DefaultServes BY DEF ProxyInit, DefaultServes
<1>2. DefaultServes /\ ProxyInv /\ [ProxyNext]_proxyVars => DefaultServes'
  <2> SUFFICES ASSUME DefaultServes, ProxyInv, [ProxyNext]_proxyVars,
                      \A list \in Lists : DefaultOf(list) \in list.entries,
                      NEW t \in Tasks, call[t] # "unresolved"
               PROVE  call'[t] # "unresolved"
    BY DEF DefaultServes
  <2> USE DEF ProxyInv, ProxyTypeOK
  <2>1. ASSUME NEW u \in Tasks, Handle(u) PROVE call'[t] # "unresolved"
    <3>1. PICK list \in Lists, name \in Profiles \cup {NoProfile} :
             IF Resolve(list, name) = NoProfile
             THEN call' = [call EXCEPT ![u] = "unresolved"] /\ UNCHANGED <<begun, retry>>
             ELSE Request(u, "no")
      BY <2>1 DEF Handle
    <3>2. Resolve(list, name) # NoProfile BY ResolvesWithDefault
    <3> QED BY <3>1, <3>2 DEF Request
  <2>2. ASSUME NEW u \in Tasks,
               SendCall(u) \/ Responds(u) \/ Refused(u) \/ RequestTimesOut(u)
               \/ ClientGets(u) \/ ClientGivesUp(u) \/ TimePasses(u)
        PROVE  call'[t] # "unresolved"
    BY <2>2 DEF SendCall, Responds, Refused, RequestTimesOut, RequestFails, Request,
                ClientGets, ClientGivesUp, Returns, TimePasses
  <2>3. CASE UNCHANGED proxyVars BY <2>3 DEF proxyVars
  <2> QED BY <2>1, <2>2, <2>3 DEF ProxyNext, ProxyStep
<1> QED BY <1>1, <1>2, ProxyInvariance, PTL DEF ProxySpec
=============================================================================
