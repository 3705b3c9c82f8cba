----------------------------- MODULE ModelProxy -----------------------------
(***************************************************************************)
(* A model call: chat_completion of the orchestrator's client, the handler *)
(* of model-proxy-service (server.py), the choice of the model             *)
(* (model_profiles.py) and the requests to its provider                    *)
(* (provider_client.py).  Time is counted per call, since the client began *)
(* to wait; an answer takes time, other steps need none.                   *)
(*                                                                         *)
(* Messages, parameters, headers and the fields of a profile are left out. *)
(***************************************************************************)
EXTENDS TaskKeys

CONSTANTS
    Profiles,         \* names of models and aliases
    NoProfile,        \* the empty name
    Main,             \* "main", where a flat list falls back to
    Lists,            \* contents of model_list.json in the course of time
    ClientTimeout,    \* MODEL_TIMEOUT_SECONDS of the orchestrator
    RequestTimeout    \* REQUEST_TIMEOUT_SECONDS of the proxy

\* The three formats: models with aliases, profiles, agents at the top level.  A name
\* that is no alias leads to itself; a flat list without a default has Main.
ListType ==
    [format : {"models", "profiles", "flat"}, entries : SUBSET Profiles,
     aliases : [Profiles -> Profiles], default : Profiles \cup {NoProfile}]

ASSUME ProxyAssumption ==
    /\ NoProfile \notin Profiles
    /\ Main \in Profiles
    /\ Lists \subseteq ListType
    /\ {ClientTimeout, RequestTimeout} \subseteq Nat \ {0}

VARIABLES
    call,       \* place of the handler
    clock,      \* how long ago the client began to wait
    begun,      \* when the current request began
    retry,      \* why it is the second, if it is
    reply       \* what the client's chat_completion came to

proxyVars == <<call, clock, begun, retry, reply>>

ProxyInit ==
    /\ call = [t \in Tasks |-> "idle"]
    /\ clock = [t \in Tasks |-> 0]
    /\ begun = [t \in Tasks |-> 0]
    /\ retry = [t \in Tasks |-> "no"]
    /\ reply = [t \in Tasks |-> "none"]

-----------------------------------------------------------------------------
(* get_profile.                                                            *)

Alias(l, name) ==
    IF name = NoProfile \/ l.format = "profiles" THEN name ELSE l.aliases[name]

\* Mutant: the default is no alias.
PlainDefault(l) == IF l.format = "flat" THEN Main ELSE l.default

Fallback(l) == IF l.format = "flat" THEN Main ELSE Alias(l, l.default)

Resolve(l, name) ==
    LET own == Alias(l, IF name = NoProfile THEN l.default ELSE name) IN
    IF own \in l.entries THEN own
    ELSE IF Fallback(l) \in l.entries THEN Fallback(l)
    ELSE NoProfile

-----------------------------------------------------------------------------
SendCall(t) ==
    /\ call[t] = "idle"
    /\ call' = [call EXCEPT ![t] = "sent"]
    /\ reply' = [reply EXCEPT ![t] = "waiting"]
    /\ UNCHANGED <<clock, begun, retry>>

Request(t, why) ==
    /\ call' = [call EXCEPT ![t] = "request"]
    /\ begun' = [begun EXCEPT ![t] = clock[t]]
    /\ retry' = [retry EXCEPT ![t] = why]

\* ChatCompletion as far as the first request.  The file is read at every call and may
\* have been replaced since the last one.
Handle(t) ==
    /\ call[t] = "sent"
    /\ \E list \in Lists, name \in Profiles \cup {NoProfile} :
        IF Resolve(list, name) = NoProfile
        THEN call' = [call EXCEPT ![t] = "unresolved"] /\ UNCHANGED <<begun, retry>>
        ELSE Request(t, "no")
    /\ UNCHANGED <<clock, reply>>

\* A status below 400, whose body may yet be no answer.
Responds(t) ==
    /\ call[t] = "request"
    /\ clock[t] > begun[t]
    /\ \E result \in {"answered", "failed"} : call' = [call EXCEPT ![t] = result]
    /\ UNCHANGED <<clock, begun, retry, reply>>

\* The first failure, whatever it is, leads to a second request, the second to an error.
RequestFails(t, why) ==
    /\ call[t] = "request"
    /\ IF retry[t] = "no"
       THEN Request(t, why)
       ELSE call' = [call EXCEPT ![t] = "failed"] /\ UNCHANGED <<begun, retry>>
    /\ UNCHANGED <<clock, reply>>

\* Mutant: a request is given half the time.
HalfPatience == RequestTimeout \div 2

Patience == RequestTimeout

Refused(t) == RequestFails(t, "refused")

RequestTimesOut(t) == clock[t] - begun[t] >= Patience /\ RequestFails(t, "timeout")

Returns(t, result) ==
    /\ reply' = [reply EXCEPT ![t] = result]
    /\ call' = [call EXCEPT ![t] = "over"]
    /\ clock' = [clock EXCEPT ![t] = 0]
    /\ begun' = [begun EXCEPT ![t] = 0]
    /\ retry' = [retry EXCEPT ![t] = "no"]

ClientGets(t) ==
    \/ call[t] = "answered" /\ Returns(t, "text")
    \/ call[t] \in {"failed", "unresolved"} /\ Returns(t, "error")

\* DEADLINE_EXCEEDED: what the handler still does reaches nobody and is not followed.
ClientGivesUp(t) ==
    /\ call[t] \in {"sent", "request"}
    /\ clock[t] = ClientTimeout
    /\ Returns(t, "error")

TimePasses(t) ==
    /\ call[t] \in {"sent", "request"}
    /\ clock[t] < ClientTimeout
    /\ clock' = [clock EXCEPT ![t] = @ + 1]
    /\ UNCHANGED <<call, begun, retry, reply>>

ProxyStep(t) ==
    \/ Handle(t) \/ Responds(t) \/ Refused(t) \/ RequestTimesOut(t)
    \/ ClientGets(t) \/ ClientGivesUp(t) \/ TimePasses(t)

ProxyNext == \E t \in Tasks : SendCall(t) \/ ProxyStep(t)

ProxySpec == ProxyInit /\ [][ProxyNext]_proxyVars

-----------------------------------------------------------------------------
ProxyTypeOK ==
    /\ call \in [Tasks -> {"idle", "sent", "unresolved", "request", "answered", "failed", "over"}]
    /\ clock \in [Tasks -> 0..ClientTimeout]
    /\ begun \in [Tasks -> 0..ClientTimeout]
    /\ retry \in [Tasks -> {"no", "refused", "timeout"}]
    /\ reply \in [Tasks -> {"none", "waiting", "text", "error"}]
    /\ \A t \in Tasks : begun[t] <= clock[t]

\* With the two timeouts as deployed, the text a caller gets answers its first request or
\* one that followed a refusal: what is sent again after a timeout is sent for nobody.
RetryAfterTimeoutIsLost ==
    [][\A t \in Tasks : (reply'[t] = "text" /\ reply[t] # "text" /\ ClientTimeout <= RequestTimeout) =>
           retry[t] # "timeout"]_proxyVars

\* The entry a list's default stands for, in the words of its format.
DefaultOf(list) ==
    CASE list.format = "flat" -> Main
      [] list.format = "profiles" \/ list.default = NoProfile -> list.default
      [] OTHER -> list.aliases[list.default]

\* Whatever name a call asks for, and however the file is replaced in the course of time,
\* a model is found as long as every content of the file has one for its default.
DefaultServes ==
    (\A list \in Lists : DefaultOf(list) \in list.entries) =>
        \A t \in Tasks : call[t] # "unresolved"
=============================================================================
