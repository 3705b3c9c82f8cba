------------------------- MODULE ContextStoreProofs -------------------------
(***************************************************************************)
(* What an acknowledged turn means, for any number of tasks that append to *)
(* the same sessions at once.  A turn is appended by one thread, and what  *)
(* it has stored so far is a prefix of the turn in its order, whatever     *)
(* comes in between.                                                       *)
(***************************************************************************)
EXTENDS ContextStore, TLAPS

USE StoreAssumption

Messages == Seq(Tasks \X Nat)

\* Of the turn of t, a session has the messages in their order ...
Ordered(s, t) ==
    \A i, j \in DOMAIN s : (i < j /\ s[i][1] = t /\ s[j][1] = t) => s[i][2] < s[j][2]

\* ... each after the one before it, ...
Rooted(s, t) ==
    \A i \in DOMAIN s : (s[i][1] = t /\ s[i][2] > 1) =>
        \E j \in DOMAIN s : j < i /\ s[j][1] = t /\ s[j][2] = s[i][2] - 1

\* ... the first n, ...
Upto(s, t, n) == \A p \in 1..n : \E i \in DOMAIN s : s[i][1] = t /\ s[i][2] = p

\* ... and no other.
Below(s, t, n) == \A i \in DOMAIN s : s[i][1] = t => s[i][2] \in 1..n

\* Only the task itself writes its turn, into the session it has searched.
Own == \A id \in Keys : \A i \in DOMAIN stored[id] : log[stored[id][i][1]] = id

Turns ==
    \A t \in Tasks : log[t] \in Keys =>
        LET s == stored[log[t]] IN
        /\ Ordered(s, t) /\ Rooted(s, t)
        /\ place[t] \in {"idle", "called"} => next[t] = 1 /\ Below(s, t, 0)
        /\ place[t] = "message" => Upto(s, t, next[t] - 1) /\ Below(s, t, next[t] - 1)
        /\ place[t] \in {"check", "commit"} \/ answer[t] = "acked" => Upto(s, t, Parts[t])

Fresh ==
    \A t \in Tasks :
        /\ log[t] = NoKey => place[t] = "idle" /\ next[t] = 1
        /\ client[t] = "idle" => place[t] = "idle"
        /\ place[t] # "done" => answer[t] = "none"

StoreInv == StoreTypeOK /\ Own /\ Fresh /\ Turns

-----------------------------------------------------------------------------
LEMMA InAppend ==
    ASSUME NEW s \in Messages, NEW m \in Tasks \X Nat, NEW i \in DOMAIN Append(s, m)
    PROVE  (i \in DOMAIN s /\ Append(s, m)[i] = s[i]) \/ Append(s, m)[i] = m
<1>1. s \in Seq(Tasks \X Nat) BY DEF Messages
<1>2. CASE i \in DOMAIN s BY <1>1, <1>2
<1>3. CASE i \notin DOMAIN s
  <2>1. i = Len(s) + 1 BY <1>1, <1>3
  <2> QED BY <1>1, <2>1
<1> QED BY <1>2, <1>3

LEMMA AppendNext ==
    ASSUME NEW s \in Messages, NEW t \in Tasks, NEW n \in Nat \ {0},
           Ordered(s, t), Rooted(s, t), Upto(s, t, n - 1), Below(s, t, n - 1)
    PROVE  LET r == Append(s, <<t, n>>) IN
           r \in Messages /\ Ordered(r, t) /\ Rooted(r, t) /\ Upto(r, t, n) /\ Below(r, t, n)
<1> DEFINE r == Append(s, <<t, n>>)
<1>1. /\ r \in Messages /\ DOMAIN r = 1..(Len(s) + 1) /\ Len(s) \in Nat /\ DOMAIN s = 1..Len(s)
      /\ \A i \in DOMAIN s : r[i] = s[i]
      /\ r[Len(s) + 1] = <<t, n>>
  BY DEF Messages
<1> HIDE DEF r
<1>2. \A i \in DOMAIN s : s[i][1] = t => s[i][2] \in 1..(n - 1) BY DEF Below
<1>3. Ordered(r, t)
  <2>1. ASSUME NEW i \in DOMAIN r, NEW j \in DOMAIN r, i < j, r[i][1] = t, r[j][1] = t
        PROVE  r[i][2] < r[j][2]
    <3>1. i \in DOMAIN s /\ r[i] = s[i] BY <1>1, <2>1
    <3>2. CASE j \in DOMAIN s BY <1>1, <2>1, <3>1, <3>2 DEF Ordered
    <3>3. CASE j = Len(s) + 1
      <4>1. r[i][2] \in 1..(n - 1) BY <1>2, <2>1, <3>1
      <4>2. r[j][2] = n BY <1>1, <3>3
      <4> QED BY <4>1, <4>2
    <3> QED BY <1>1, <3>2, <3>3
  <2> QED BY <2>1 DEF Ordered
<1>4. Rooted(r, t)
  <2>1. ASSUME NEW i \in DOMAIN r, r[i][1] = t, r[i][2] > 1
        PROVE  \E j \in DOMAIN r : j < i /\ r[j][1] = t /\ r[j][2] = r[i][2] - 1
    <3>1. CASE i \in DOMAIN s BY <1>1, <2>1, <3>1 DEF Rooted
    <3>2. CASE i = Len(s) + 1
      <4>1. n - 1 \in 1..(n - 1) BY <1>1, <2>1, <3>2
      <4>2. PICK j \in DOMAIN s : s[j][1] = t /\ s[j][2] = n - 1 BY <4>1 DEF Upto
      <4>3. r[i] = <<t, n>> /\ r[j] = s[j] /\ j < i BY <1>1, <3>2
      <4> QED BY <1>1, <4>2, <4>3
    <3> QED BY <1>1, <3>1, <3>2
  <2> QED BY <2>1 DEF Rooted
<1>5. Upto(r, t, n)
  <2>1. ASSUME NEW p \in 1..n PROVE \E i \in DOMAIN r : r[i][1] = t /\ r[i][2] = p
    <3>1. CASE p = n BY <1>1, <3>1
    <3>2. CASE p \in 1..(n - 1)
      <4>1. PICK j \in DOMAIN s : s[j][1] = t /\ s[j][2] = p BY <3>2 DEF Upto
      <4> QED BY <1>1, <4>1
    <3> QED BY <3>1, <3>2
  <2> QED BY <2>1 DEF Upto
<1>6. Below(r, t, n) BY <1>1, <1>2 DEF Below
<1> QED BY <1>1, <1>3, <1>4, <1>5, <1>6 DEF r

LEMMA AppendOther ==
    ASSUME NEW s \in Messages, NEW t \in Tasks, NEW u \in Tasks, u # t, NEW n \in Nat
    PROVE  LET r == Append(s, <<u, n>>) IN
           /\ Ordered(s, t) => Ordered(r, t)
           /\ Rooted(s, t) => Rooted(r, t)
           /\ \A m : Upto(s, t, m) => Upto(r, t, m)
           /\ \A m : Below(s, t, m) => Below(r, t, m)
<1> DEFINE r == Append(s, <<u, n>>)
<1>1. /\ DOMAIN r = 1..(Len(s) + 1) /\ Len(s) \in Nat /\ DOMAIN s = 1..Len(s)
      /\ \A i \in DOMAIN s : r[i] = s[i]
      /\ r[Len(s) + 1][1] = u
  BY DEF Messages
<1> HIDE DEF r
<1>2. Ordered(s, t) => Ordered(r, t) BY <1>1 DEF Ordered
<1>3. Rooted(s, t) => Rooted(r, t)
  <2>1. ASSUME Rooted(s, t), NEW i \in DOMAIN r, r[i][1] = t, r[i][2] > 1
        PROVE  \E j \in DOMAIN r : j < i /\ r[j][1] = t /\ r[j][2] = r[i][2] - 1
    <3>1. i \in DOMAIN s /\ r[i] = s[i] BY <1>1, <2>1
    <3>2. PICK j \in DOMAIN s : j < i /\ s[j][1] = t /\ s[j][2] = s[i][2] - 1
      BY <2>1, <3>1 DEF Rooted
    <3> QED BY <1>1, <3>1, <3>2
  <2> QED BY <2>1 DEF Rooted
<1>4. \A m : Upto(s, t, m) => Upto(r, t, m) BY <1>1 DEF Upto
<1>5. \A m : Below(s, t, m) => Below(r, t, m) BY <1>1 DEF Below
<1> QED BY <1>2, <1>3, <1>4, <1>5 DEF r

-----------------------------------------------------------------------------
LEMMA StoreInitInv == StoreInit => StoreInv
<1> SUFFICES ASSUME StoreInit PROVE StoreInv
  OBVIOUS
<1>1. StoreTypeOK BY DEF StoreInit, StoreTypeOK, Modes, Nothing
<1>2. Own BY DEF StoreInit, Own
<1>3. Fresh BY DEF StoreInit, Fresh
<1>4. Turns BY KeyAssumption DEF StoreInit, Turns
<1> QED BY <1>1, <1>2, <1>3, <1>4 DEF StoreInv

\* A message of a turn, the next one, is stored.
LEMMA Stores ==
    ASSUME StoreInv, NEW t \in Tasks, place[t] = "message",
           stored' = [stored EXCEPT ![log[t]] = Append(@, <<t, next[t]>>)], log' = log
    PROVE  /\ stored' \in [Keys -> Messages]
           /\ Own'
           /\ Ordered(stored'[log[t]], t) /\ Rooted(stored'[log[t]], t)
           /\ Upto(stored'[log[t]], t, next[t]) /\ Below(stored'[log[t]], t, next[t])
           /\ \A u \in Tasks \ {t} : log[u] \in Keys =>
                  /\ Ordered(stored'[log[u]], u) /\ Rooted(stored'[log[u]], u)
                  /\ \A m : Upto(stored[log[u]], u, m) => Upto(stored'[log[u]], u, m)
                  /\ \A m : Below(stored[log[u]], u, m) => Below(stored'[log[u]], u, m)
<1> DEFINE s == stored[log[t]]
<1>1. log[t] \in Keys /\ s \in Messages /\ next[t] \in Nat \ {0} /\ stored \in [Keys -> Messages]
  BY DEF StoreInv, StoreTypeOK, Messages
<1>2. stored'[log[t]] = Append(s, <<t, next[t]>>) BY <1>1
<1>3. \A id \in Keys \ {log[t]} : stored'[id] = stored[id] BY <1>1
<1>4. Ordered(s, t) /\ Rooted(s, t) /\ Upto(s, t, next[t] - 1) /\ Below(s, t, next[t] - 1)
  BY <1>1 DEF StoreInv, Turns
<1>5. /\ stored'[log[t]] \in Messages
      /\ Ordered(stored'[log[t]], t) /\ Rooted(stored'[log[t]], t)
      /\ Upto(stored'[log[t]], t, next[t]) /\ Below(stored'[log[t]], t, next[t])
  <2> HIDE DEF s
  <2> QED BY <1>1, <1>2, <1>4, AppendNext
<1>6. stored' \in [Keys -> Messages] BY <1>1, <1>5
<1>7. Own'
  <2>1. ASSUME NEW id \in Keys, NEW i \in DOMAIN stored'[id] PROVE log[stored'[id][i][1]] = id
    <3>1. CASE id # log[t] BY <1>3, <2>1, <3>1 DEF StoreInv, Own
    <3>2. CASE id = log[t]
      <4>1. /\ <<t, next[t]>> \in Tasks \X Nat
            /\ stored'[id] = Append(s, <<t, next[t]>>)
        BY <1>1, <1>2, <3>2
      <4>2. \/ i \in DOMAIN s /\ stored'[id][i] = s[i]
            \/ stored'[id][i] = <<t, next[t]>>
        <5> HIDE DEF s
        <5> QED BY <1>1, <2>1, <4>1, InAppend
      <4> QED BY <3>2, <4>2 DEF StoreInv, Own
    <3> QED BY <3>1, <3>2
  <2> QED BY <2>1 DEF Own
<1>8. ASSUME NEW u \in Tasks \ {t}, log[u] \in Keys
      PROVE  /\ Ordered(stored'[log[u]], u) /\ Rooted(stored'[log[u]], u)
             /\ \A m : Upto(stored[log[u]], u, m) => Upto(stored'[log[u]], u, m)
             /\ \A m : Below(stored[log[u]], u, m) => Below(stored'[log[u]], u, m)
  <2>1. Ordered(stored[log[u]], u) /\ Rooted(stored[log[u]], u) BY <1>8 DEF StoreInv, Turns
  <2>2. CASE log[u] # log[t] BY <1>3, <1>8, <2>1, <2>2
  <2>3. CASE log[u] = log[t]
    <3> HIDE DEF s
    <3>1. u \in Tasks /\ u # t /\ next[t] \in Nat BY <1>1
    <3>2. /\ Ordered(s, u) => Ordered(stored'[log[t]], u)
          /\ Rooted(s, u) => Rooted(stored'[log[t]], u)
          /\ \A m : Upto(s, u, m) => Upto(stored'[log[t]], u, m)
          /\ \A m : Below(s, u, m) => Below(stored'[log[t]], u, m)
      BY <1>1, <1>2, <3>1, AppendOther
    <3> QED BY <2>1, <2>3, <3>2 DEF s
  <2> QED BY <2>2, <2>3
<1> QED BY <1>5, <1>6, <1>7, <1>8

LEMMA LatestType == ASSUME StoreTypeOK, NEW id \in Keys PROVE Latest(id) \in [from : Nat, to : Nat]
<1>1. Len(stored[id]) \in Nat /\ base[id] \in Nat BY DEF StoreTypeOK
<1>2. Window \in Nat BY StoreAssumption
<1> DEFINE n == Len(stored[id])
           b == base[id]
           first == IF n - b > Window THEN n - Window + 1 ELSE b + 1
<1>3. n \in Nat /\ b \in Nat BY <1>1
<1>4. Latest(id) = [from |-> first, to |-> n] BY DEF Latest
<1>5. first \in Nat
  <2> HIDE DEF n, b
  <2> QED BY <1>2, <1>3
<1> HIDE DEF n, b, first
<1> QED BY <1>3, <1>4, <1>5

\* The steps that store no message.
LEMMA QuietStep ==
    ASSUME StoreInv, NEW t \in Tasks, log' = log, stored' = stored, next' = next,
           \A u \in Tasks \ {t} : place'[u] = place[u] /\ answer'[u] = answer[u]
                                /\ client'[u] = client[u],
           client'[t] = "idle" => place'[t] = "idle",
           place'[t] # "done" => answer'[t] = "none",
           log[t] # NoKey \/ place'[t] = place[t],
           place'[t] \in {"idle", "called"} => place[t] \in {"idle", "called"},
           place'[t] = "message" => place[t] \in {"called", "message"},
           place'[t] \in {"check", "commit"} \/ answer'[t] = "acked" =>
               place[t] \in {"check", "commit"} \/ answer[t] = "acked"
    PROVE  Own' /\ Fresh' /\ Turns'
<1>1. Own' BY DEF StoreInv, Own
<1>2. Fresh' BY DEF StoreInv, Fresh
<1>3. ASSUME NEW u \in Tasks, log[u] \in Keys, u # t PROVE
        LET s == stored[log[u]] IN
        /\ Ordered(s, u) /\ Rooted(s, u)
        /\ place'[u] \in {"idle", "called"} => next'[u] = 1 /\ Below(s, u, 0)
        /\ place'[u] = "message" => Upto(s, u, next'[u] - 1) /\ Below(s, u, next'[u] - 1)
        /\ place'[u] \in {"check", "commit"} \/ answer'[u] = "acked" => Upto(s, u, Parts[u])
  BY <1>3 DEF StoreInv, Turns
<1>4. ASSUME log[t] \in Keys PROVE
        LET s == stored[log[t]] IN
        /\ Ordered(s, t) /\ Rooted(s, t)
        /\ place'[t] \in {"idle", "called"} => next'[t] = 1 /\ Below(s, t, 0)
        /\ place'[t] = "message" => Upto(s, t, next'[t] - 1) /\ Below(s, t, next'[t] - 1)
        /\ place'[t] \in {"check", "commit"} \/ answer'[t] = "acked" => Upto(s, t, Parts[t])
  <2>1. Below(stored[log[t]], t, 0) => Below(stored[log[t]], t, 1 - 1) /\ Upto(stored[log[t]], t, 1 - 1)
    BY DEF Below, Upto
  <2> QED BY <1>4, <2>1 DEF StoreInv, Turns
<1>5. Turns' BY <1>3, <1>4 DEF Turns
<1> QED BY <1>1, <1>2, <1>5

LEMMA SearchInv ==
    ASSUME StoreInv, NEW t \in Tasks, NEW id \in Keys, SearchContext(t, id) PROVE StoreInv'
<1>1. StoreTypeOK'
  <2>1. read' \in [Tasks -> [from : Nat, to : Nat]]
    BY LatestType DEF SearchContext, StoreInv, StoreTypeOK
  <2>2. faults' \in 0..MaxFaults BY DEF SearchContext, StoreFault, StoreInv, StoreTypeOK
  <2> QED BY <2>1, <2>2 DEF SearchContext, StoreInv, StoreTypeOK
<1>2. /\ place[t] = "idle" /\ log[t] = NoKey /\ next[t] = 1 /\ answer[t] = "none"
      /\ log' = [log EXCEPT ![t] = id]
      /\ UNCHANGED <<stored, place, next, answer, client>>
  <2>1. /\ place[t] = "idle" /\ log[t] = NoKey
        /\ log' = [log EXCEPT ![t] = id]
        /\ UNCHANGED <<stored, place, next, answer, client>>
    BY DEF SearchContext
  <2>2. next[t] = 1 /\ answer[t] = "none" BY <2>1 DEF StoreInv, Fresh
  <2> QED BY <2>1, <2>2
<1>3. \A i \in Keys : \A k \in DOMAIN stored[i] : stored[i][k][1] \in Tasks \ {t}
  <2>1. ASSUME NEW i \in Keys, NEW k \in DOMAIN stored[i] PROVE stored[i][k][1] \in Tasks \ {t}
    <3>1. stored[i] \in Seq(Tasks \X Nat) BY DEF StoreInv, StoreTypeOK
    <3>2. stored[i][k] \in Tasks \X Nat BY <3>1
    <3>3. log[stored[i][k][1]] = i BY DEF StoreInv, Own
    <3>4. stored[i][k][1] \in Tasks BY <3>2
    <3> QED BY <1>2, <3>3, <3>4, KeyAssumption
  <2> QED BY <2>1
<1>4. log \in [Tasks -> Keys \cup {NoKey}] BY DEF StoreInv, StoreTypeOK
<1>5. Own'
  <2>1. ASSUME NEW i \in Keys, NEW k \in DOMAIN stored[i] PROVE log'[stored[i][k][1]] = i
    <3>1. log[stored[i][k][1]] = i BY DEF StoreInv, Own
    <3> QED BY <1>2, <1>3, <1>4, <3>1
  <2> QED BY <1>2, <2>1 DEF Own
<1>6. Fresh' BY <1>2, <1>4 DEF StoreInv, Fresh
<1>7. \A u \in Tasks \ {t} : log'[u] = log[u] BY <1>2, <1>4
<1>8. log'[t] = id BY <1>2, <1>4
<1>9. Ordered(stored[id], t) /\ Rooted(stored[id], t) /\ Below(stored[id], t, 0)
  BY <1>3 DEF Ordered, Rooted, Below
<1>a. Turns' BY <1>2, <1>7, <1>8, <1>9 DEF StoreInv, Turns
<1> QED BY <1>1, <1>5, <1>6, <1>a DEF StoreInv

LEMMA StoreStepInv == StoreInv /\ [StoreNext]_storeVars => StoreInv'
<1> SUFFICES ASSUME StoreInv, [StoreNext]_storeVars PROVE StoreInv'
  OBVIOUS
<1> USE DEF StoreFault, Answers
<1>1. StoreTypeOK /\ Fresh BY DEF StoreInv
<1>2. ASSUME NEW t \in Tasks,
             AppendTurn(t) \/ Enter(t) \/ CheckCount(t) \/ Commit(t) \/ CommitFails(t)
             \/ ClientAnswered(t) \/ ClientTimesOut(t)
      PROVE  StoreInv'
  <2>1. CASE AppendTurn(t)
    <3> USE DEF AppendTurn
    <3>1. StoreTypeOK' BY <1>1, <2>1 DEF StoreTypeOK
    <3>2. log' = log /\ stored' = stored /\ next' = next BY <2>1
    <3>3. \A u \in Tasks \ {t} : place'[u] = place[u] /\ answer'[u] = answer[u]
                                /\ client'[u] = client[u]
      BY <1>1, <2>1 DEF StoreTypeOK
    <3>4. log[t] # NoKey /\ client'[t] # "idle" BY <1>1, <2>1 DEF StoreTypeOK, Fresh
    <3>5. /\ place[t] = "idle" /\ place'[t] = "called"
          /\ answer[t] = "none" /\ answer'[t] = "none"
      BY <1>1, <2>1 DEF StoreTypeOK, Fresh
    <3>6. Own' /\ Fresh' /\ Turns' BY <3>2, <3>3, <3>4, <3>5, QuietStep
    <3> QED BY <3>1, <3>6 DEF StoreInv
  <2>2. CASE Enter(t)
    <3> USE DEF Enter
    <3>1. StoreTypeOK' BY <1>1, <2>2 DEF StoreTypeOK
    <3>2. log' = log /\ stored' = stored /\ next' = next BY <2>2
    <3>3. \A u \in Tasks \ {t} : place'[u] = place[u] /\ answer'[u] = answer[u]
                                /\ client'[u] = client[u]
      BY <1>1, <2>2 DEF StoreTypeOK
    <3>4. log[t] # NoKey /\ client[t] # "idle" /\ client'[t] # "idle" BY <1>1, <2>2 DEF StoreTypeOK, Fresh
    <3>5. /\ place[t] = "called" /\ place'[t] \in {"done", "message"}
          /\ place'[t] # "done" => answer'[t] = "none"
          /\ answer'[t] # "acked"
      BY <1>1, <2>2 DEF StoreTypeOK, Fresh
    <3>6. Own' /\ Fresh' /\ Turns' BY <3>2, <3>3, <3>4, <3>5, QuietStep
    <3> QED BY <3>1, <3>6 DEF StoreInv
  <2>3. CASE CheckCount(t) \/ Commit(t) \/ CommitFails(t)
    <3> USE DEF CheckCount, Commit, CommitFails
    <3>1. StoreTypeOK'
      <4>1. CASE CheckCount(t) BY <1>1, <4>1 DEF StoreTypeOK
      <4>2. CASE Commit(t)
        <5>1. log[t] \in Keys /\ Len(stored[log[t]]) \in Nat BY <1>1, <4>2 DEF StoreTypeOK
        <5> QED BY <1>1, <4>2, <5>1 DEF StoreTypeOK
      <4>3. CASE CommitFails(t)
        <5>1. CASE base' = base BY <1>1, <4>3, <5>1 DEF StoreTypeOK
        <5>2. CASE place[t] = "commit" /\ base' = [base EXCEPT ![log[t]] = Len(stored[log[t]])]
          <6>1. log[t] \in Keys /\ Len(stored[log[t]]) \in Nat BY <1>1, <5>2 DEF StoreTypeOK
          <6> QED BY <1>1, <4>3, <5>2, <6>1 DEF StoreTypeOK
        <5> QED BY <4>3, <5>1, <5>2
      <4> QED BY <2>3, <4>1, <4>2, <4>3
    <3>2. log' = log /\ stored' = stored /\ next' = next BY <2>3
    <3>3. \A u \in Tasks \ {t} : place'[u] = place[u] /\ answer'[u] = answer[u]
                                /\ client'[u] = client[u]
      BY <1>1, <2>3 DEF StoreTypeOK
    <3>4. log[t] # NoKey /\ client[t] # "idle" /\ client'[t] # "idle" BY <1>1, <2>3 DEF StoreTypeOK, Fresh
    <3>5. /\ place[t] \in {"check", "commit"} /\ place'[t] \in {"commit", "done"}
          /\ place'[t] # "done" => answer'[t] = "none"
      BY <1>1, <2>3 DEF StoreTypeOK, Fresh
    <3>6. Own' /\ Fresh' /\ Turns' BY <3>2, <3>3, <3>4, <3>5, QuietStep
    <3> QED BY <3>1, <3>6 DEF StoreInv
  <2>4. CASE ClientAnswered(t) \/ ClientTimesOut(t)
    <3> USE DEF ClientAnswered, ClientTimesOut
    <3>1. StoreTypeOK' BY <1>1, <2>4 DEF StoreTypeOK
    <3>2. log' = log /\ stored' = stored /\ next' = next /\ place' = place /\ answer' = answer
      BY <2>4
    <3>3. \A u \in Tasks \ {t} : client'[u] = client[u] BY <1>1, <2>4 DEF StoreTypeOK
    <3>4. client[t] # "idle" /\ client'[t] # "idle" BY <1>1, <2>4 DEF StoreTypeOK
    <3>5. place[t] # "done" => answer[t] = "none" BY <1>1 DEF Fresh
    <3>6. Own' /\ Fresh' /\ Turns' BY <3>2, <3>3, <3>4, <3>5, QuietStep
    <3> QED BY <3>1, <3>6 DEF StoreInv
  <2> QED BY <1>2, <2>1, <2>2, <2>3, <2>4
<1>3. ASSUME NEW t \in Tasks, AddMessage(t) PROVE StoreInv'
  <2> USE DEF AddMessage, LastStored
  <2>1. /\ place[t] = "message" /\ log' = log /\ log[t] \in Keys
        /\ stored' = [stored EXCEPT ![log[t]] = Append(@, <<t, next[t]>>)]
        /\ next[t] \in 1..Parts[t] /\ Parts[t] \in Nat
    BY <1>1, <1>3 DEF StoreTypeOK
  <2>2. /\ stored' \in [Keys -> Messages] /\ Own'
        /\ Ordered(stored'[log[t]], t) /\ Rooted(stored'[log[t]], t)
        /\ Upto(stored'[log[t]], t, next[t]) /\ Below(stored'[log[t]], t, next[t])
        /\ \A u \in Tasks \ {t} : log[u] \in Keys =>
               /\ Ordered(stored'[log[u]], u) /\ Rooted(stored'[log[u]], u)
               /\ \A m : Upto(stored[log[u]], u, m) => Upto(stored'[log[u]], u, m)
               /\ \A m : Below(stored[log[u]], u, m) => Below(stored'[log[u]], u, m)
    BY <2>1, Stores
  <2>3. \A u \in Tasks \ {t} : place'[u] = place[u] /\ answer'[u] = answer[u] /\ next'[u] = next[u]
    BY <1>1, <1>3 DEF StoreTypeOK
  <2>4. \/ place'[t] = "message" /\ answer'[t] = "none" /\ next'[t] = next[t] + 1
           /\ next[t] # Parts[t]
        \/ place'[t] = "check" /\ answer'[t] = "none" /\ next'[t] = next[t] /\ next[t] = Parts[t]
        \/ place'[t] = "done" /\ answer'[t] = "acked" /\ next'[t] = next[t] /\ next[t] = Parts[t]
    BY <1>1, <1>3 DEF StoreTypeOK, Fresh
  <2>5. StoreTypeOK'
    <3>1. next \in [Tasks -> Nat] /\ \A u \in Tasks : next[u] \in 1..Parts[u]
      BY <1>1 DEF StoreTypeOK
    <3>2. next' = next \/ next' = [next EXCEPT ![t] = next[t] + 1] BY <1>3
    <3>3. next' \in [Tasks -> Nat] BY <3>1, <3>2
    <3>4. next'[t] \in 1..Parts[t] BY <2>1, <2>4
    <3>5. \A u \in Tasks : next'[u] \in 1..Parts[u] BY <3>1, <3>4, <2>3
    <3>6. /\ place' \in [Tasks -> {"idle", "called", "message", "check", "commit", "done"}]
          /\ answer' \in [Tasks -> {"none", "acked", "pretended", "failed"}]
      BY <1>1, <1>3 DEF StoreTypeOK
    <3>8. \A u \in Tasks : place'[u] # "idle" => log'[u] \in Keys
      BY <1>1, <2>1, <2>3 DEF StoreTypeOK
    <3>7. UNCHANGED <<mode, base, log, client, read, faults>> BY <1>3
    <3> QED BY <1>1, <2>2, <3>3, <3>5, <3>6, <3>7, <3>8 DEF StoreTypeOK, Messages
  <2>6. Fresh'
    <3>1. log' = log /\ client' = client BY <1>3
    <3> QED BY <1>1, <2>1, <2>3, <2>4, <3>1 DEF Fresh
  <2>7. Turns'
    <3>1. ASSUME NEW u \in Tasks \ {t}, log[u] \in Keys
          PROVE  LET r == stored'[log[u]] IN
                 /\ Ordered(r, u) /\ Rooted(r, u)
                 /\ place'[u] \in {"idle", "called"} => next'[u] = 1 /\ Below(r, u, 0)
                 /\ place'[u] = "message" => Upto(r, u, next'[u] - 1) /\ Below(r, u, next'[u] - 1)
                 /\ place'[u] \in {"check", "commit"} \/ answer'[u] = "acked" => Upto(r, u, Parts[u])
      BY <2>2, <2>3, <3>1 DEF StoreInv, Turns
    <3>2. LET r == stored'[log[t]] IN
          /\ Ordered(r, t) /\ Rooted(r, t)
          /\ place'[t] = "message" => Upto(r, t, next'[t] - 1) /\ Below(r, t, next'[t] - 1)
          /\ place'[t] \in {"check", "commit"} \/ answer'[t] = "acked" => Upto(r, t, Parts[t])
      <4>1. CASE place'[t] = "message"
        <5>1. next'[t] = next[t] + 1 /\ answer'[t] = "none" BY <2>4, <4>1
        <5>2. next'[t] - 1 = next[t] BY <2>1, <5>1
        <5>3. /\ Upto(stored'[log[t]], t, next'[t] - 1)
              /\ Below(stored'[log[t]], t, next'[t] - 1)
          BY <2>2, <5>2
        <5> QED BY <2>2, <4>1, <5>1, <5>3
      <4>2. CASE place'[t] # "message" BY <2>2, <2>4, <4>2
      <4> QED BY <4>1, <4>2
    <3>3. log' = log /\ place'[t] \notin {"idle", "called"} BY <1>3, <2>4
    <3> QED BY <3>1, <3>2, <3>3 DEF Turns
  <2> QED BY <2>2, <2>5, <2>6, <2>7 DEF StoreInv
<1>4. ASSUME NEW t \in Tasks, AppendFails(t) PROVE StoreInv'
  <2> USE DEF AppendFails
  <2>1. /\ place[t] \in {"called", "message"} /\ log' = log /\ log[t] \in Keys
        /\ next' = next /\ client' = client
        /\ place'[t] = "done" /\ answer'[t] = "failed"
        /\ \A u \in Tasks \ {t} : place'[u] = place[u] /\ answer'[u] = answer[u]
    BY <1>1, <1>4 DEF StoreTypeOK
  <2>2. Fresh'
    <3> HIDE DEF AppendFails, StoreFault
    <3> SUFFICES ASSUME NEW u \in Tasks
                 PROVE  /\ log[u] = NoKey => place'[u] = "idle" /\ next[u] = 1
                        /\ client[u] = "idle" => place'[u] = "idle"
                        /\ place'[u] # "done" => answer'[u] = "none"
      BY <2>1 DEF Fresh
    <3>1. CASE u = t BY <1>1, <2>1, <3>1 DEF Fresh
    <3>2. CASE u # t BY <1>1, <2>1, <3>2 DEF Fresh
    <3> QED BY <3>1, <3>2
  <2>3. CASE stored' = stored
    <3>1. StoreTypeOK' BY <1>1, <1>4, <2>3 DEF StoreTypeOK
    <3>2. Own' /\ Turns' BY <2>1, <2>3 DEF StoreInv, Own, Turns
    <3> QED BY <2>2, <3>1, <3>2 DEF StoreInv
  <2>4. CASE place[t] = "message" /\ stored' = [stored EXCEPT ![log[t]] = Append(@, <<t, next[t]>>)]
    <3>1. /\ stored' \in [Keys -> Messages] /\ Own'
          /\ Ordered(stored'[log[t]], t) /\ Rooted(stored'[log[t]], t)
          /\ \A u \in Tasks \ {t} : log[u] \in Keys =>
                 /\ Ordered(stored'[log[u]], u) /\ Rooted(stored'[log[u]], u)
                 /\ \A m : Upto(stored[log[u]], u, m) => Upto(stored'[log[u]], u, m)
                 /\ \A m : Below(stored[log[u]], u, m) => Below(stored'[log[u]], u, m)
      BY <2>1, <2>4, Stores
    <3>2. StoreTypeOK'
      <4>1. faults' \in 0..MaxFaults BY <1>1, <1>4 DEF StoreTypeOK
      <4>2. /\ place' \in [Tasks -> {"idle", "called", "message", "check", "commit", "done"}]
            /\ answer' \in [Tasks -> {"none", "acked", "pretended", "failed"}]
            /\ \A u \in Tasks : place'[u] # "idle" => log'[u] \in Keys
        BY <1>1, <1>4, <2>1 DEF StoreTypeOK
      <4>3. UNCHANGED <<mode, base, log, next, client, read>> BY <1>4
      <4> QED BY <1>1, <3>1, <4>1, <4>2, <4>3 DEF StoreTypeOK, Messages
    <3>3. ASSUME NEW u \in Tasks \ {t}, log[u] \in Keys
          PROVE  LET r == stored'[log[u]] IN
                 /\ Ordered(r, u) /\ Rooted(r, u)
                 /\ place'[u] \in {"idle", "called"} => next'[u] = 1 /\ Below(r, u, 0)
                 /\ place'[u] = "message" => Upto(r, u, next'[u] - 1) /\ Below(r, u, next'[u] - 1)
                 /\ place'[u] \in {"check", "commit"} \/ answer'[u] = "acked" => Upto(r, u, Parts[u])
      BY <2>1, <3>1, <3>3 DEF StoreInv, Turns
    <3>4. Turns' BY <2>1, <3>1, <3>3 DEF Turns
    <3> QED BY <2>2, <3>1, <3>2, <3>4 DEF StoreInv
  <2> QED BY <1>4, <2>3, <2>4
<1>5. CASE StoreRestart
  <2> USE DEF StoreRestart
  <2>1. StoreTypeOK' BY <1>1, <1>5 DEF StoreTypeOK, Modes
  <2>2. Own' BY <1>5 DEF StoreInv, Own
  <2>3. Fresh' BY <1>1, <1>5 DEF StoreTypeOK, Fresh
  <2>4. Turns' BY <1>1, <1>5 DEF StoreTypeOK, StoreInv, Turns
  <2> QED BY <2>1, <2>2, <2>3, <2>4 DEF StoreInv
<1>6. CASE UNCHANGED storeVars
  BY <1>6 DEF storeVars, StoreInv, StoreTypeOK, Own, Fresh, Turns
<1> QED BY <1>2, <1>3, <1>4, <1>5, <1>6, SearchInv DEF StoreNext, StoreStep

LEMMA StoreInvariance == StoreSpec => []StoreInv
BY StoreInitInv, StoreStepInv, PTL DEF StoreSpec

-----------------------------------------------------------------------------
\* Modes, sessions and places are as declared, for any number of tasks and failures.
THEOREM StoreTypeCorrect == StoreSpec => []StoreTypeOK
<1>1. StoreInv => StoreTypeOK BY DEF StoreInv
<1> QED BY <1>1, StoreInvariance, PTL

\* An acknowledged turn is in its session as a whole, and any turn as a prefix in its
\* order, however many tasks append at the same time.
THEOREM AcknowledgedTurnIsStored == StoreSpec => []AckMeansStored
<1>1. ASSUME StoreInv, NEW t \in Tasks, log[t] \in Keys
      PROVE  LET Held == {i \in DOMAIN stored[log[t]] : stored[log[t]][i][1] = t}
                 Part(i) == stored[log[t]][i][2] IN
             /\ client[t] = "true" /\ answer[t] = "acked" =>
                    \A p \in 1..Parts[t] : \E i \in Held : Part(i) = p
             /\ \A i \in Held : Part(i) > 1 => \E j \in Held : j < i /\ Part(j) = Part(i) - 1
             /\ \A i, j \in Held : i < j => Part(i) < Part(j)
  <2> DEFINE s == stored[log[t]]
  <2>1. Ordered(s, t) /\ Rooted(s, t) /\ (answer[t] = "acked" => Upto(s, t, Parts[t]))
    BY <1>1 DEF StoreInv, Turns
  <2>2. \A i, j \in DOMAIN s : (i < j /\ s[i][1] = t /\ s[j][1] = t) => s[i][2] < s[j][2]
    BY <2>1 DEF Ordered
  <2>3. \A i \in DOMAIN s : (s[i][1] = t /\ s[i][2] > 1) =>
           \E j \in DOMAIN s : j < i /\ s[j][1] = t /\ s[j][2] = s[i][2] - 1
    BY <2>1 DEF Rooted
  <2>4. answer[t] = "acked" =>
           \A p \in 1..Parts[t] : \E i \in DOMAIN s : s[i][1] = t /\ s[i][2] = p
    BY <2>1 DEF Upto
  <2> QED BY <2>2, <2>3, <2>4
<1>2. StoreInv => AckMeansStored BY <1>1 DEF AckMeansStored
<1> QED BY <1>2, StoreInvariance, PTL
=============================================================================
