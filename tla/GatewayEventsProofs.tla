------------------------ MODULE GatewayEventsProofs ------------------------
(***************************************************************************)
(* What a gateway hears and what a page is shown, for any number of        *)
(* gateways, tasks, streams, pages and events and queues of any size.      *)
(*                                                                         *)
(* `seen' puts together what was heard over a stream and, as long as the   *)
(* gateway reads it, what is still on its way.  It grows only at its end,  *)
(* where EventBus.publish puts an event, and that is why it can be said of *)
(* it when an event may be missing.                                        *)
(***************************************************************************)
EXTENDS GatewayEvents, SequenceTheorems, TLAPS

USE BusAssumption DEF Streams

live == {s \in Streams : owner[s] # None /\ link[owner[s]] = s}

Rest(s) == IF gen[s] = "yield" THEN <<hand[s]>> \o backlog[s] ELSE backlog[s]

seen == [s \in Streams |-> IF s \in live THEN heard[s] \o Rest(s) ELSE heard[s]]

Begun(s) == gen[s] \notin {"unused", "queued"}

\* A stream in the order of its life; a gateway reads the last one it opened.
StreamInv ==
    /\ \A s \in Streams :
        /\ owner[s] = None <=> s > opened
        /\ s > opened => gen[s] = "unused"
        /\ ~ Begun(s) => backlog[s] = <<>> /\ heard[s] = <<>>
        /\ gen[s] = "yield" => hand[s] \in Events
        /\ s \in gone => owner[s] # None /\ s \notin live
    /\ \A g \in Gateways : link[g] # None => owner[link[g]] = g
    /\ \A s \in live, r \in Streams : owner[r] = owner[s] => r <= s

\* Only streams that were subscribed are registered or in a snapshot.
SnapshotInv ==
    /\ \A i \in Ids, s \in Streams : registry[i] = s => i = Id(s) /\ Begun(s)
    /\ \A p \in Publishers, s \in Streams : s \in targets[p] => Begun(s)
    /\ \A p \in Publishers : IF p \in publishing THEN published[p] > 0
                            ELSE targets[p] = {} /\ dead[p] = {}

BaseInv == TypeOK /\ StreamInv /\ SnapshotInv

-----------------------------------------------------------------------------
\* Event n of task p is in w.
Has(w, p, n) == \E i \in DOMAIN w : w[i] = [task |-> p, n |-> n]

HasTask(w, p) == \E i \in DOMAIN w : w[i].task = p

Ordered(w) == \A i, j \in DOMAIN w : (i < j /\ w[i].task = w[j].task) => w[i].n < w[j].n

Gapless(w) ==
    \A i, j \in DOMAIN w : w[i].task = w[j].task =>
        \A n \in w[i].n .. w[j].n : Has(w, w[i].task, n)

Bounded == \A s \in Streams : \A i \in DOMAIN seen[s] :
    /\ seen[s][i].n <= published[seen[s][i].task]
    /\ Wanted(seen[s][i].task, s)

\* What a publisher has yet to put into the queue of s is new to the gateway.
Behind ==
    \A p \in Publishers, r, s \in Streams :
        (s \in targets[p] /\ r <= s /\ owner[r] = owner[s]) =>
            \A i \in DOMAIN seen[r] : seen[r][i].task = p => seen[r][i].n < published[p]

\* The streams of a gateway go on where the ones before them ended, or later.
Across ==
    \A r, s \in Streams : (r < s /\ owner[r] = owner[s]) =>
        \A i \in DOMAIN seen[r], j \in DOMAIN seen[s] :
            seen[r][i].task = seen[s][j].task => seen[r][i].n < seen[s][j].n

\* A stream that has an event of a task has the latest as well, unless it has been
\* removed or is about to be.
UpToDate ==
    \A p \in Publishers, s \in live : HasTask(seen[s], p) =>
        IF s \in targets[p] THEN Has(seen[s], p, published[p] - 1)
        ELSE (registry[Id(s)] = s /\ Id(s) \notin dead[p]) => Has(seen[s], p, published[p])

SeenInv ==
    /\ \A s \in Streams : Ordered(seen[s]) /\ Gapless(seen[s])
    /\ Bounded /\ Behind /\ Across /\ UpToDate

BusInv == BaseInv /\ SeenInv

-----------------------------------------------------------------------------
LEMMA InitBase == Init => BaseInv
<1> SUFFICES ASSUME Init PROVE BaseInv
  OBVIOUS
<1>1. TypeOK BY DEF Init, TypeOK
<1>2. StreamInv BY DEF Init, StreamInv, Begun, live
<1>3. SnapshotInv BY DEF Init, SnapshotInv, Begun
<1> QED BY <1>1, <1>2, <1>3 DEF BaseInv

LEMMA InitSeen == Init => SeenInv
<1> SUFFICES ASSUME Init PROVE SeenInv
  OBVIOUS
<1>1. seen = [s \in Streams |-> <<>>] BY DEF Init, seen, live
<1>2. \A s \in Streams : DOMAIN seen[s] = {} BY <1>1
<1>3. (\A s \in Streams : Ordered(seen[s]) /\ Gapless(seen[s])) /\ Bounded
  BY <1>2 DEF Ordered, Gapless, Bounded
<1>4. Behind BY <1>2 DEF Behind
<1>5. Across BY <1>2 DEF Across
<1>6. UpToDate BY <1>2 DEF UpToDate, HasTask, live
<1> QED BY <1>3, <1>4, <1>5, <1>6 DEF SeenInv

-----------------------------------------------------------------------------
LEMMA StepType == ASSUME BaseInv, [Next]_vars PROVE TypeOK'
<1> USE DEF TypeOK
<1>0. TypeOK BY DEF BaseInv
<1>1. ASSUME NEW g \in Gateways, Open(g) PROVE TypeOK'
  <2>1. opened \in Nat /\ opened' \in 0..MaxStreams /\ opened' \in Streams
    BY <1>0, <1>1 DEF Open, Streams
  <2>2. /\ link' = [link EXCEPT ![g] = opened']
        /\ owner' = [owner EXCEPT ![opened'] = g]
        /\ gen' = [gen EXCEPT ![opened'] = "queued"]
        /\ UNCHANGED <<registry, backlog, hand, gone, heard, publishVars>>
    BY <1>1 DEF Open
  <2> QED BY <1>0, <2>1, <2>2 DEF publishVars
<1>2. ASSUME NEW g \in Gateways, Break(g) PROVE TypeOK' BY <1>0, <1>2 DEF Break, publishVars
<1>3. ASSUME NEW s \in Streams, Learn(s) PROVE TypeOK' BY <1>0, <1>3 DEF Learn, publishVars
<1>4. ASSUME NEW s \in Streams, Subscribe(s) PROVE TypeOK'
  BY <1>0, <1>4 DEF Subscribe, publishVars
<1>5. ASSUME NEW s \in Streams, Get(s) PROVE TypeOK'
  <2>1. /\ Head(backlog[s]) \in Events
        /\ Tail(backlog[s]) \in Seq(Events)
    BY <1>0, <1>5, HeadTailProperties DEF Get
  <2> QED BY <1>0, <1>5, <2>1 DEF Get, publishVars
<1>6. ASSUME NEW s \in Streams, Yield(s) PROVE TypeOK'
  <2>1. hand[s] \in Events BY <1>6 DEF Yield, BaseInv, StreamInv
  <2>2. heard' \in [Streams -> Seq(Events)] BY <1>0, <1>6, <2>1 DEF Yield
  <2> QED BY <1>0, <1>6, <2>2 DEF Yield, publishVars
<1>7. ASSUME NEW s \in Streams, Quit(s) PROVE TypeOK' BY <1>0, <1>7 DEF Quit, publishVars
<1>8. ASSUME NEW s \in Streams, Unsubscribe(s) PROVE TypeOK'
  BY <1>0, <1>8 DEF Unsubscribe, publishVars
<1>9. ASSUME NEW p \in Publishers, Snapshot(p) PROVE TypeOK'
  <2>1. NextEvent(p) \in 0..MaxEvents BY <1>0, <1>9 DEF Snapshot, NextEvent
  <2>2. {registry[i] : i \in Ids} \ {None} \in SUBSET Streams BY <1>0
  <2> QED BY <1>0, <1>9, <2>1, <2>2 DEF Snapshot, streamVars
<1>10. ASSUME NEW p \in Publishers, Put(p) PROVE TypeOK'
  <2> PICK s \in targets[p] :
        /\ targets' = [targets EXCEPT ![p] = @ \ {s}]
        /\ IF Wanted(p, s) /\ Len(backlog[s]) < QueueSize
           THEN backlog' = [backlog EXCEPT ![s] = Append(@, [task |-> p, n |-> published[p]])]
           ELSE UNCHANGED backlog
        /\ IF Wanted(p, s) /\ Len(backlog[s]) >= QueueSize
           THEN dead' = [dead EXCEPT ![p] = @ \cup {Id(s)}]
           ELSE UNCHANGED dead
        /\ UNCHANGED <<registry, published, publishing, streamVars>>
    BY <1>10 DEF Put
  <2>0. s \in Streams BY <1>0
  <2>1. Id(s) \in Ids
    <3>1. Begun(s) BY <2>0 DEF BaseInv, SnapshotInv
    <3>2. owner[s] # None BY <1>0, <2>0, <3>1 DEF BaseInv, StreamInv, Begun
    <3> QED BY <1>0, <2>0, <3>2 DEF Id, Ids
  <2>2. published[p] \in 1..MaxEvents
    <3>1. published[p] > 0 BY DEF BaseInv, SnapshotInv
    <3>2. published[p] \in 0..MaxEvents BY <1>0
    <3> QED BY <3>1, <3>2
  <2>3. [task |-> p, n |-> published[p]] \in Events BY <2>2 DEF Events
  <2>4. backlog \in [Streams -> Seq(Events)] /\ dead \in [Publishers -> SUBSET Ids]
    BY <1>0
  <2>5. Append(backlog[s], [task |-> p, n |-> published[p]]) \in Seq(Events)
    BY <2>0, <2>3, <2>4, AppendProperties
  <2>6. backlog' \in [Streams -> Seq(Events)] BY <2>0, <2>4, <2>5
  <2>7. dead' \in [Publishers -> SUBSET Ids] BY <2>1, <2>4
  <2>8. targets' \in [Publishers -> SUBSET Streams] BY <1>0
  <2> QED BY <1>0, <2>6, <2>7, <2>8 DEF streamVars
<1>11. ASSUME NEW p \in Publishers, Return(p) PROVE TypeOK'
  BY <1>0, <1>11 DEF Return, Survivors, streamVars
<1>12. ASSUME UNCHANGED vars PROVE TypeOK' BY <1>0, <1>12 DEF vars
<1> QED BY <1>1, <1>2, <1>3, <1>4, <1>5, <1>6, <1>7, <1>8, <1>9, <1>10, <1>11, <1>12
        DEF Next, Worker, Publish

LEMMA StepStreams == ASSUME BaseInv, [Next]_vars PROVE StreamInv'
<1> USE DEF StreamInv, live, Begun
<1>0. TypeOK /\ StreamInv BY DEF BaseInv
<1>1. ASSUME NEW g \in Gateways, Open(g) PROVE StreamInv'
  <2> DEFINE new == opened + 1
  <2>1. /\ new \in Streams /\ opened' = new /\ new > opened /\ opened \in Nat
        /\ owner' = [owner EXCEPT ![new] = g] /\ owner[new] = None
        /\ link' = [link EXCEPT ![g] = new] /\ link[g] = None
        /\ gen' = [gen EXCEPT ![new] = "queued"] /\ gen[new] = "unused"
        /\ UNCHANGED <<backlog, heard, hand, gone>>
    BY <1>0, <1>1 DEF Open, TypeOK
  <2> HIDE DEF new
  <2>2. ASSUME NEW s \in Streams PROVE owner'[s] = None <=> s > opened'
    <3>0. opened \in Nat BY <2>1
    <3>1. s > new <=> (s > opened /\ s # new) BY <3>0 DEF new
    <3>2. owner'[s] = IF s = new THEN g ELSE owner[s] BY <1>0, <2>1 DEF TypeOK
    <3>3. owner[s] = None <=> s > opened BY <1>0
    <3>4. g # None OBVIOUS
    <3> QED BY <2>1, <3>1, <3>2, <3>3, <3>4
  <2>3. \A s \in Streams : s > opened' => gen'[s] = "unused" BY <1>0, <2>1 DEF TypeOK
  <2>4. ASSUME NEW s \in Streams, s # new PROVE s \in live' <=> s \in live
    <3>1. owner'[s] = owner[s] /\ owner[s] \in Gateways \cup {None}
      BY <1>0, <2>1, <2>4 DEF TypeOK
    <3>2. \A h \in Gateways : link'[h] = s <=> link[h] = s
      BY <1>0, <2>1, <2>4 DEF TypeOK
    <3>3. s \in live <=> owner[s] \in Gateways /\ link[owner[s]] = s BY <3>1
    <3>4. s \in live' <=> owner[s] \in Gateways /\ link'[owner[s]] = s BY <3>1
    <3> QED BY <3>2, <3>3, <3>4
  <2>5. new \notin gone BY <1>0, <2>1
  <2>6. \A s \in Streams : s \in gone => owner'[s] # None /\ s \notin live'
    BY <1>0, <2>1, <2>4, <2>5 DEF TypeOK
  <2>7. \A s \in Streams : /\ gen'[s] \in {"unused", "queued"} => backlog'[s] = <<>> /\ heard'[s] = <<>>
                           /\ gen'[s] = "yield" => hand'[s] \in Events
    BY <1>0, <2>1 DEF TypeOK
  <2>8. \A h \in Gateways : link'[h] # None => owner'[link'[h]] = h
    BY <1>0, <2>1 DEF TypeOK
  <2>9. \A s \in live', r \in Streams : owner'[r] = owner'[s] => r <= s
    <3>1. ASSUME NEW s \in live', NEW r \in Streams, owner'[r] = owner'[s], r > s PROVE FALSE
      <4>0. s \in Streams /\ owner'[s] # None /\ owner'[r] # None BY <3>1
      <4>1. s \in Streams /\ r # new /\ s # new
        <5>1. ~ (r > new) BY <2>1, <2>2, <4>0
        <5>2. s < new BY <2>1, <3>1, <4>0, <5>1
        <5>3. ASSUME r = new PROVE FALSE
          <6>1. owner'[r] = g BY <1>0, <2>1, <5>3 DEF TypeOK
          <6>2. link'[g] = new BY <1>0, <2>1 DEF TypeOK
          <6>3. link'[owner'[s]] = s BY <3>1
          <6> QED BY <3>1, <5>2, <6>1, <6>2, <6>3
        <5> QED BY <4>0, <5>2, <5>3
      <4>2. s \in live BY <2>4, <4>1
      <4>3. owner[r] = owner[s] BY <1>0, <2>1, <3>1, <4>1 DEF TypeOK
      <4> QED BY <1>0, <3>1, <4>1, <4>2, <4>3
    <3> QED BY <3>1
  <2> QED BY <2>1, <2>2, <2>3, <2>6, <2>7, <2>8, <2>9
<1>2. ASSUME NEW g \in Gateways, Break(g) PROVE StreamInv'
  BY <1>0, <1>2 DEF Break, TypeOK
<1>3. ASSUME NEW s \in Streams, Learn(s) PROVE StreamInv'
  BY <1>0, <1>3 DEF Learn, TypeOK
<1>4. ASSUME NEW s \in Streams, Subscribe(s) PROVE StreamInv'
  BY <1>0, <1>4 DEF Subscribe, TypeOK
<1>5. ASSUME NEW s \in Streams, Get(s) PROVE StreamInv'
  <2>1. Head(backlog[s]) \in Events BY <1>0, <1>5, HeadTailProperties DEF Get, TypeOK
  <2> QED BY <1>0, <1>5, <2>1 DEF Get, TypeOK
<1>6. ASSUME NEW s \in Streams, Yield(s) PROVE StreamInv'
  BY <1>0, <1>6 DEF Yield, TypeOK
<1>7. ASSUME NEW s \in Streams, Quit(s) PROVE StreamInv'
  BY <1>0, <1>7 DEF Quit, TypeOK
<1>8. ASSUME NEW s \in Streams, Unsubscribe(s) PROVE StreamInv'
  BY <1>0, <1>8 DEF Unsubscribe, TypeOK
<1>9. ASSUME NEW p \in Publishers, Snapshot(p) PROVE StreamInv'
  BY <1>0, <1>9 DEF Snapshot, streamVars
<1>10. ASSUME NEW p \in Publishers, Put(p) PROVE StreamInv'
  <2>1. UNCHANGED streamVars /\ UNCHANGED registry BY <1>10 DEF Put
  <2>2. \A s \in Streams : ~ Begun(s) => backlog'[s] = backlog[s]
    <3> PICK s \in targets[p] :
          \/ backlog' = [backlog EXCEPT ![s] = Append(@, [task |-> p, n |-> published[p]])]
          \/ backlog' = backlog
      BY <1>10 DEF Put
    <3>1. Begun(s) /\ s \in Streams BY <1>0 DEF BaseInv, SnapshotInv, TypeOK
    <3> QED BY <1>0, <3>1 DEF TypeOK
  <2> QED BY <1>0, <2>1, <2>2 DEF streamVars
<1>11. ASSUME NEW p \in Publishers, Return(p) PROVE StreamInv'
  BY <1>0, <1>11 DEF Return, streamVars
<1>12. ASSUME UNCHANGED vars PROVE StreamInv' BY <1>0, <1>12 DEF vars
<1> QED BY <1>1, <1>2, <1>3, <1>4, <1>5, <1>6, <1>7, <1>8, <1>9, <1>10, <1>11, <1>12
        DEF Next, Worker, Publish

LEMMA StepSnapshots == ASSUME BaseInv, [Next]_vars PROVE SnapshotInv'
<1> USE DEF SnapshotInv, Begun
<1>0. TypeOK /\ StreamInv /\ SnapshotInv BY DEF BaseInv
<1>1. ASSUME NEW g \in Gateways, Open(g) PROVE SnapshotInv'
  <2> DEFINE new == opened + 1
  <2>1. /\ new \in Streams
        /\ owner' = [owner EXCEPT ![new] = g]
        /\ gen' = [gen EXCEPT ![new] = "queued"] /\ gen[new] = "unused"
        /\ UNCHANGED <<registry, targets, dead, published, publishing>>
    BY <1>0, <1>1 DEF Open, publishVars, TypeOK, StreamInv
  <2> HIDE DEF new
  <2>2. \A s \in Streams : Begun(s) => s # new /\ Begun(s)' /\ Id(s)' = Id(s)
    BY <1>0, <2>1 DEF Id, TypeOK
  <2> QED BY <1>0, <2>1, <2>2
<1>2. ASSUME NEW g \in Gateways, Break(g) PROVE SnapshotInv'
  BY <1>0, <1>2 DEF Break, publishVars, Id
<1>3. ASSUME NEW s \in Streams, Learn(s) PROVE SnapshotInv'
  BY <1>0, <1>3 DEF Learn, publishVars, Id
<1>4. ASSUME NEW s \in Streams, Subscribe(s) PROVE SnapshotInv'
  <2>1. UNCHANGED <<owner, targets, dead, published, publishing>> BY <1>4 DEF Subscribe, publishVars
  <2>2. Begun(s)' /\ \A r \in Streams : Begun(r) => Begun(r)'
    BY <1>0, <1>4 DEF Subscribe, TypeOK
  <2>3. \A i \in Ids, r \in Streams : registry'[i] = r => i = Id(r) /\ Begun(r)'
    BY <1>0, <1>4, <2>2 DEF Subscribe, TypeOK
  <2>4. \A r \in Streams : Id(r)' = Id(r) BY <2>1 DEF Id
  <2> QED BY <1>0, <2>1, <2>2, <2>3, <2>4
<1>5. ASSUME NEW s \in Streams, Get(s) PROVE SnapshotInv'
  BY <1>0, <1>5 DEF Get, publishVars, Id, TypeOK
<1>6. ASSUME NEW s \in Streams, Yield(s) PROVE SnapshotInv'
  BY <1>0, <1>6 DEF Yield, publishVars, Id, TypeOK
<1>7. ASSUME NEW s \in Streams, Quit(s) PROVE SnapshotInv'
  BY <1>0, <1>7 DEF Quit, publishVars, Id, TypeOK
<1>8. ASSUME NEW s \in Streams, Unsubscribe(s) PROVE SnapshotInv'
  <2>1. UNCHANGED <<owner, targets, dead, published, publishing>>
    BY <1>8 DEF Unsubscribe, publishVars
  <2>2. \A r \in Streams : Begun(r) => Begun(r)' BY <1>0, <1>8 DEF Unsubscribe, TypeOK
  <2>3. \A i \in Ids, r \in Streams : registry'[i] = r => registry[i] = r
    BY <1>0, <1>8 DEF Unsubscribe, TypeOK
  <2>4. \A r \in Streams : Id(r)' = Id(r) BY <2>1 DEF Id
  <2> QED BY <1>0, <2>1, <2>2, <2>3, <2>4
<1>9. ASSUME NEW p \in Publishers, Snapshot(p) PROVE SnapshotInv'
  <2>1. UNCHANGED <<registry, gen, owner, dead>> BY <1>9 DEF Snapshot, streamVars
  <2>2. \A r \in Streams : Id(r)' = Id(r) /\ Begun(r)' = Begun(r) BY <2>1 DEF Id
  <2>3. /\ targets' = [targets EXCEPT ![p] = {registry[i] : i \in Ids} \ {None}]
        /\ publishing' = publishing \cup {p}
        /\ published' = [published EXCEPT ![p] = published[p] + 1]
    BY <1>9 DEF Snapshot, NextEvent
  <2>4. \A q \in Publishers, s \in Streams : s \in targets'[q] => Begun(s)'
    BY <1>0, <2>2, <2>3 DEF TypeOK
  <2>5. \A q \in Publishers : IF q \in publishing' THEN published'[q] > 0
                              ELSE targets'[q] = {} /\ dead[q] = {}
    BY <1>0, <2>3 DEF TypeOK
  <2> QED BY <1>0, <2>1, <2>2, <2>4, <2>5
<1>10. ASSUME NEW p \in Publishers, Put(p) PROVE SnapshotInv'
  <2>1. UNCHANGED <<registry, published, publishing, gen, owner>> BY <1>10 DEF Put, streamVars
  <2>2. \A r \in Streams : Id(r)' = Id(r) /\ Begun(r)' = Begun(r) BY <2>1 DEF Id
  <2> PICK s \in targets[p] :
        /\ targets' = [targets EXCEPT ![p] = @ \ {s}]
        /\ dead' \in {dead, [dead EXCEPT ![p] = @ \cup {Id(s)}]}
    BY <1>10 DEF Put
  <2>3. p \in publishing BY <1>0
  <2>4. \A q \in Publishers, r \in Streams : r \in targets'[q] => Begun(r)'
    BY <1>0, <2>2 DEF TypeOK
  <2>5. \A q \in Publishers : IF q \in publishing THEN published[q] > 0
                              ELSE targets'[q] = {} /\ dead'[q] = {}
    BY <1>0, <2>3 DEF TypeOK
  <2> QED BY <1>0, <2>1, <2>2, <2>4, <2>5
<1>11. ASSUME NEW p \in Publishers, Return(p) PROVE SnapshotInv'
  <2>1. UNCHANGED <<targets, published, gen, owner>> BY <1>11 DEF Return, streamVars
  <2>2. \A r \in Streams : Id(r)' = Id(r) /\ Begun(r)' = Begun(r) BY <2>1 DEF Id
  <2>3. \A i \in Ids, r \in Streams : registry'[i] = r => registry[i] = r
    BY <1>0, <1>11 DEF Return, Survivors, TypeOK
  <2>4. \A q \in Publishers : IF q \in publishing' THEN published[q] > 0
                              ELSE targets[q] = {} /\ dead'[q] = {}
    BY <1>0, <1>11 DEF Return, TypeOK
  <2> QED BY <1>0, <2>1, <2>2, <2>3, <2>4
<1>12. ASSUME UNCHANGED vars PROVE SnapshotInv' BY <1>0, <1>12 DEF vars, Id
<1> QED BY <1>1, <1>2, <1>3, <1>4, <1>5, <1>6, <1>7, <1>8, <1>9, <1>10, <1>11, <1>12
        DEF Next, Worker, Publish

LEMMA StepBase == ASSUME BaseInv, [Next]_vars PROVE BaseInv'
BY StepType, StepStreams, StepSnapshots DEF BaseInv

-----------------------------------------------------------------------------
(* What a step does to `seen'.                                             *)

LEMMA SeenType ==
    ASSUME BaseInv
    PROVE  /\ \A s \in Streams : Rest(s) \in Seq(Events)
           /\ seen \in [Streams -> Seq(Events)]
<1>0. TypeOK /\ StreamInv BY DEF BaseInv
<1>1. ASSUME NEW s \in Streams PROVE Rest(s) \in Seq(Events)
  <2>1. backlog[s] \in Seq(Events) BY <1>0 DEF TypeOK
  <2>2. CASE gen[s] = "yield"
    <3>1. <<hand[s]>> \in Seq(Events) BY <1>0, <2>2 DEF StreamInv
    <3> QED BY <2>1, <2>2, <3>1, ConcatProperties DEF Rest
  <2>3. CASE gen[s] # "yield" BY <2>1, <2>3 DEF Rest
  <2> QED BY <2>2, <2>3
<1>2. ASSUME NEW s \in Streams PROVE heard[s] \in Seq(Events) /\ heard[s] \o Rest(s) \in Seq(Events)
  <2>1. heard[s] \in Seq(Events) BY <1>0 DEF TypeOK
  <2> QED BY <1>1, <2>1, ConcatProperties
<1> QED BY <1>1, <1>2 DEF seen

SeenTypeOK == seen \in [Streams -> Seq(Events)]

LEMMA SeenTypeAfter == BaseInv' => SeenTypeOK'
<1>1. BaseInv => SeenTypeOK BY SeenType DEF SeenTypeOK
<1> QED BY <1>1, PTL

Prefix(v, w) == Len(v) <= Len(w) /\ \A i \in DOMAIN v : v[i] = w[i]

LEMMA PrefixRefl == ASSUME NEW w \in Seq(Events) PROVE Prefix(w, w)
BY DEF Prefix

LEMMA HeardIsPrefix == ASSUME BaseInv, NEW s \in Streams PROVE Prefix(heard[s], seen[s])
<1>1. heard[s] \in Seq(Events) /\ Rest(s) \in Seq(Events) BY SeenType DEF BaseInv, TypeOK
<1>2. CASE s \in live
  <2>1. seen[s] = heard[s] \o Rest(s) BY <1>2 DEF seen
  <2>2. /\ Len(heard[s] \o Rest(s)) = Len(heard[s]) + Len(Rest(s))
        /\ \A i \in 1..(Len(heard[s]) + Len(Rest(s))) :
               (heard[s] \o Rest(s))[i] = IF i <= Len(heard[s]) THEN heard[s][i]
                                          ELSE Rest(s)[i - Len(heard[s])]
    BY <1>1, ConcatProperties
  <2> QED BY <1>1, <2>1, <2>2 DEF Prefix
<1>3. CASE s \notin live BY <1>1, <1>3 DEF seen, Prefix
<1> QED BY <1>2, <1>3

\* An event in hand comes ahead of those in the queue.
LEMMA HandFirst ==
    ASSUME NEW h \in Seq(Events), NEW e \in Events, NEW b \in Seq(Events)
    PROVE  Append(h, e) \o b = h \o (<<e>> \o b)
<1>1. <<e>> \in Seq(Events) /\ Append(h, e) = h \o <<e>> BY AppendIsConcat
<1> QED BY <1>1, ConcatAssociative

LEMMA HeadOfTail == ASSUME NEW b \in Seq(Events), b # <<>> PROVE <<Head(b)>> \o Tail(b) = b
<1>1. Head(b) \in Events /\ Tail(b) \in Seq(Events) BY HeadTailProperties
<1> DEFINE c == <<Head(b)>> \o Tail(b)
<1>2. /\ c \in Seq(Events) /\ Len(c) = 1 + Len(Tail(b))
      /\ \A i \in 1..(1 + Len(Tail(b))) :
             c[i] = IF i <= 1 THEN Head(b) ELSE Tail(b)[i - 1]
  BY <1>1, ConcatProperties
<1> HIDE DEF c
<1>3. Len(c) = Len(b) /\ \A i \in 1..Len(b) : c[i] = b[i]
  BY <1>1, <1>2, HeadTailProperties
<1>4. c = b BY <1>2, <1>3, SeqEqual
<1> QED BY <1>4 DEF c

\* The steps of gateways and workers put nothing into `seen', and take something away
\* only where the gateway stops reading.
Shrinks ==
    /\ \A s \in Streams : Prefix(seen'[s], seen[s])
    /\ \A s \in live' : seen'[s] = seen[s] /\ (s \in live \/ seen[s] = <<>>)
    /\ \A s \in Streams : owner'[s] = owner[s] \/ (seen[s] = <<>> /\ ~ Begun(s))
    /\ \A s \in Streams : registry'[Id(s)'] = s => registry[Id(s)] = s \/ seen[s] = <<>>

LEMMA SameSeen ==
    ASSUME BaseInv, seen' = seen, live' = live, owner' = owner,
           \A s \in Streams : registry'[Id(s)] = s => registry[Id(s)] = s
    PROVE  Shrinks
BY SeenType, PrefixRefl DEF Shrinks, Id

LEMMA OpenShrinks == ASSUME BaseInv, NEW g \in Gateways, Open(g) PROVE Shrinks
<1>1. TypeOK /\ StreamInv /\ seen \in [Streams -> Seq(Events)] BY SeenType DEF BaseInv
<1> PICK new \in Streams : new = opened + 1 BY <1>1 DEF Open, TypeOK
<1>2. /\ new > opened
      /\ owner' = [owner EXCEPT ![new] = g] /\ owner[new] = None
      /\ link' = [link EXCEPT ![g] = new] /\ link[g] = None
      /\ gen' = [gen EXCEPT ![new] = "queued"] /\ gen[new] = "unused"
      /\ UNCHANGED <<registry, backlog, heard, hand>>
  BY <1>1 DEF Open, TypeOK, StreamInv
<1>3. backlog[new] = <<>> /\ heard[new] = <<>> /\ new \notin live /\ ~ Begun(new)
  BY <1>1, <1>2 DEF StreamInv, Begun, live
<1>4. ASSUME NEW s \in Streams, s # new PROVE seen'[s] = seen[s] /\ (s \in live' => s \in live)
  <2>1. owner'[s] = owner[s] /\ owner[s] \in Gateways \cup {None}
    BY <1>1, <1>2, <1>4 DEF TypeOK
  <2>2. \A h \in Gateways : link'[h] = s <=> link[h] = s
    BY <1>1, <1>2, <1>4 DEF TypeOK
  <2>3. s \in live <=> owner[s] \in Gateways /\ link[owner[s]] = s BY <2>1 DEF live
  <2>4. s \in live' <=> owner[s] \in Gateways /\ link'[owner[s]] = s BY <2>1 DEF live
  <2>5. gen'[s] = gen[s] BY <1>1, <1>2, <1>4 DEF TypeOK
  <2> QED BY <1>2, <2>2, <2>3, <2>4, <2>5 DEF seen, Rest
<1>5. seen[new] = <<>> BY <1>2, <1>3 DEF seen
<1>6. seen'[new] = <<>>
  <2>1. Rest(new)' = <<>> /\ heard'[new] = <<>> BY <1>1, <1>2, <1>3 DEF Rest, TypeOK
  <2>2. <<>> \o <<>> = <<>> OBVIOUS
  <2> QED BY <1>2, <2>1, <2>2 DEF seen
<1>7. \A s \in Streams : Prefix(seen'[s], seen[s])
  BY <1>1, <1>4, <1>5, <1>6, PrefixRefl
<1>8. \A s \in Streams : s # new => owner'[s] = owner[s] /\ Id(s)' = Id(s)
  BY <1>1, <1>2 DEF TypeOK, Id
<1> QED BY <1>2, <1>3, <1>4, <1>5, <1>6, <1>7, <1>8 DEF Shrinks, live

LEMMA BreakShrinks == ASSUME BaseInv, NEW g \in Gateways, Break(g) PROVE Shrinks
<1>1. TypeOK /\ seen \in [Streams -> Seq(Events)] BY SeenType DEF BaseInv
<1>2. /\ link' = [link EXCEPT ![g] = None]
      /\ UNCHANGED <<registry, backlog, gen, hand, owner, heard>>
  BY DEF Break
<1>3. live' \subseteq live BY <1>1, <1>2 DEF live, TypeOK
<1>4. \A s \in Streams : Rest(s)' = Rest(s) BY <1>2 DEF Rest
<1>5. \A s \in Streams : seen'[s] = IF s \in live' THEN seen[s] ELSE heard[s]
  BY <1>2, <1>3, <1>4 DEF seen
<1>6. \A s \in Streams : Prefix(seen'[s], seen[s])
  BY <1>1, <1>5, HeardIsPrefix, PrefixRefl
<1>7. \A s \in live' : s \in Streams BY DEF live
<1> QED BY <1>2, <1>3, <1>5, <1>6, <1>7 DEF Shrinks, Id

LEMMA WorkerShrinks == ASSUME BaseInv, NEW s \in Streams, Worker(s) PROVE Shrinks
<1>0. TypeOK /\ StreamInv /\ SnapshotInv BY DEF BaseInv
<1>1. /\ UNCHANGED <<owner, link>> /\ live' = live
      /\ heard[s] \in Seq(Events) /\ backlog[s] \in Seq(Events)
  BY <1>0 DEF Worker, Subscribe, Get, Yield, Quit, Unsubscribe, live, TypeOK
<1>2. ASSUME NEW r \in Streams, r # s
      PROVE  gen'[r] = gen[r] /\ hand'[r] = hand[r] /\ backlog'[r] = backlog[r]
             /\ heard'[r] = heard[r]
  BY <1>0, <1>2 DEF Worker, Subscribe, Get, Yield, Quit, Unsubscribe, TypeOK
<1>3. \A r \in Streams : r # s => seen'[r] = seen[r] BY <1>1, <1>2 DEF seen, Rest
<1>4. seen'[s] = seen[s]
  <2>1. CASE Subscribe(s) BY <1>0, <1>1, <2>1 DEF Subscribe, seen, Rest, TypeOK
  <2>2. CASE Get(s)
    <3>1. /\ gen'[s] = "yield" /\ gen[s] = "wait" /\ heard' = heard /\ backlog[s] # <<>>
          /\ hand'[s] = Head(backlog[s]) /\ backlog'[s] = Tail(backlog[s])
      BY <1>0, <2>2 DEF Get, TypeOK
    <3>2. Rest(s)' = <<Head(backlog[s])>> \o Tail(backlog[s]) BY <3>1 DEF Rest
    <3>3. Rest(s) = backlog[s] BY <3>1 DEF Rest
    <3>4. Rest(s)' = Rest(s) BY <1>1, <3>1, <3>2, <3>3, HeadOfTail
    <3> QED BY <1>1, <3>1, <3>4 DEF seen
  <2>3. CASE Yield(s)
    <3>1. /\ gen[s] = "yield" /\ gen'[s] = "wait" /\ backlog' = backlog
          /\ heard'[s] = IF link[owner[s]] = s THEN Append(heard[s], hand[s]) ELSE heard[s]
      BY <1>0, <2>3 DEF Yield, TypeOK
    <3>2. hand[s] \in Events /\ owner[s] # None BY <1>0, <3>1 DEF StreamInv
    <3>3. CASE s \in live
      <4>1. heard'[s] = Append(heard[s], hand[s]) BY <3>1, <3>3 DEF live
      <4>2. Rest(s)' = backlog[s] /\ Rest(s) = <<hand[s]>> \o backlog[s] BY <3>1 DEF Rest
      <4>3. Append(heard[s], hand[s]) \o backlog[s] = heard[s] \o (<<hand[s]>> \o backlog[s])
        BY <1>1, <3>2, HandFirst
      <4>4. heard'[s] \o Rest(s)' = heard[s] \o Rest(s) BY <4>1, <4>2, <4>3
      <4> QED BY <1>1, <3>3, <4>4 DEF seen
    <3>4. CASE s \notin live
      <4>1. heard'[s] = heard[s] BY <3>1, <3>2, <3>4 DEF live
      <4> QED BY <1>1, <3>4, <4>1 DEF seen
    <3> QED BY <3>3, <3>4
  <2>4. CASE Quit(s)
    <3>1. s \notin live BY <1>0, <2>4 DEF Quit, Active, StreamInv
    <3>2. heard' = heard BY <2>4 DEF Quit
    <3> QED BY <1>1, <3>1, <3>2 DEF seen
  <2>5. CASE Unsubscribe(s) BY <1>0, <1>1, <2>5 DEF Unsubscribe, seen, Rest, TypeOK
  <2> QED BY <2>1, <2>2, <2>3, <2>4, <2>5 DEF Worker
<1>5. seen' = seen BY <1>3, <1>4 DEF seen
<1>6. CASE Subscribe(s)
  <2>1. seen[s] = <<>>
    <3>1. heard[s] = <<>> /\ backlog[s] = <<>> /\ gen[s] = "queued"
      BY <1>0, <1>6 DEF Subscribe, StreamInv, Begun
    <3>2. <<>> \o <<>> = <<>> OBVIOUS
    <3> QED BY <3>1, <3>2 DEF seen, Rest
  <2>2. \A r \in Streams : r # s /\ registry'[Id(r)] = r => registry[Id(r)] = r
    BY <1>0, <1>6 DEF Subscribe, TypeOK
  <2>3. \A r \in Streams : Prefix(seen'[r], seen[r]) BY <1>5, SeenType, PrefixRefl
  <2> QED BY <1>1, <1>5, <2>1, <2>2, <2>3 DEF Shrinks, Id
<1>7. CASE ~ Subscribe(s)
  <2>1. \A r \in Streams : registry'[Id(r)] = r => registry[Id(r)] = r
    <3>1. CASE Unsubscribe(s) BY <1>0, <3>1 DEF Unsubscribe, TypeOK
    <3>2. CASE ~ Unsubscribe(s)
      <4>1. registry' = registry BY <1>7, <3>2 DEF Worker, Get, Yield, Quit
      <4> QED BY <4>1
    <3> QED BY <3>1, <3>2
  <2> QED BY <1>1, <1>5, <2>1, SameSeen
<1> QED BY <1>6, <1>7

-----------------------------------------------------------------------------
(* SeenInv is inductive.                                                   *)

LEMMA PrefixKeepsRun ==
    ASSUME NEW v \in Seq(Events), NEW w \in Seq(Events), Prefix(v, w), Ordered(w), Gapless(w)
    PROVE  Ordered(v) /\ Gapless(v)
<1>1. /\ DOMAIN v = 1..Len(v) /\ DOMAIN w = 1..Len(w) /\ Len(v) \in Nat /\ Len(w) \in Nat
      /\ DOMAIN v \subseteq DOMAIN w /\ \A i \in DOMAIN v : v[i] = w[i]
  BY DEF Prefix
<1>2. Ordered(v) BY <1>1 DEF Ordered
<1>3. ASSUME NEW i \in DOMAIN v, NEW j \in DOMAIN v, v[i].task = v[j].task,
             NEW n \in v[i].n .. v[j].n
      PROVE  Has(v, v[i].task, n)
  <2>0. v[j] \in Events /\ v[i] \in Events BY <1>1
  <2>1. PICK k \in DOMAIN w : w[k] = [task |-> v[i].task, n |-> n]
    BY <1>1, <1>3 DEF Gapless, Has
  <2>2. k <= j
    <3>1. ASSUME k > j PROVE FALSE
      <4>1. w[j].task = w[k].task BY <1>1, <1>3, <2>1
      <4>2. w[j].n < w[k].n BY <1>1, <3>1, <4>1 DEF Ordered
      <4>3. w[k].n = n /\ w[j].n = v[j].n BY <1>1, <2>1
      <4> QED BY <1>3, <2>0, <4>2, <4>3 DEF Events
    <3> QED BY <1>1, <3>1
  <2>3. k \in DOMAIN v BY <1>1, <2>2
  <2> QED BY <1>1, <2>1, <2>3 DEF Has
<1> QED BY <1>2, <1>3 DEF Gapless

LEMMA ShrinkingKeeps ==
    ASSUME BaseInv, BaseInv', SeenInv, Shrinks, UNCHANGED <<published, targets, dead>>
    PROVE  SeenInv'
<1>1. /\ seen \in [Streams -> Seq(Events)] /\ seen' \in [Streams -> Seq(Events)]
  BY SeenType, SeenTypeAfter DEF SeenTypeOK
<1>2. ASSUME NEW s \in Streams
      PROVE  /\ DOMAIN seen'[s] \subseteq DOMAIN seen[s]
             /\ \A i \in DOMAIN seen'[s] : seen'[s][i] = seen[s][i]
  BY <1>1 DEF Shrinks, Prefix
<1>3. ASSUME NEW s \in Streams, NEW i \in DOMAIN seen'[s] PROVE owner'[s] = owner[s]
  <2>1. seen[s] # <<>> BY <1>2, <1>3
  <2> QED BY <2>1 DEF Shrinks
<1>4. ASSUME NEW s \in Streams PROVE Ordered(seen'[s]) /\ Gapless(seen'[s])
  BY <1>1, PrefixKeepsRun DEF Shrinks, SeenInv
<1>5. Bounded' BY <1>2, <1>3 DEF SeenInv, Bounded, Wanted
<1>6. Behind'
  <2>1. ASSUME NEW p \in Publishers, NEW r \in Streams, NEW s \in Streams, s \in targets[p],
               r <= s, owner'[r] = owner'[s], NEW i \in DOMAIN seen'[r],
               seen'[r][i].task = p
        PROVE  seen'[r][i].n < published[p]
    <3>1. owner'[r] = owner[r] BY <1>3
    <3>2. owner'[s] = owner[s] BY <2>1 DEF Shrinks, BaseInv, SnapshotInv
    <3> QED BY <1>2, <2>1, <3>1, <3>2 DEF SeenInv, Behind
  <2> QED BY <2>1 DEF Behind
<1>7. Across' BY <1>2, <1>3 DEF SeenInv, Across
<1>8. UpToDate'
  <2>1. ASSUME NEW p \in Publishers, NEW s \in live', HasTask(seen'[s], p)
        PROVE  IF s \in targets[p] THEN Has(seen'[s], p, published[p] - 1)
               ELSE (registry'[Id(s)'] = s /\ Id(s)' \notin dead[p]) => Has(seen'[s], p, published[p])
    <3>1. s \in Streams /\ seen[s] # <<>> BY <1>2, <2>1 DEF live, HasTask
    <3>2. seen'[s] = seen[s] /\ s \in live BY <2>1, <3>1 DEF Shrinks
    <3>3. Id(s)' = Id(s) BY <3>1 DEF Shrinks, Id
    <3>4. registry'[Id(s)'] = s => registry[Id(s)] = s BY <3>1 DEF Shrinks
    <3> QED BY <2>1, <3>2, <3>3, <3>4 DEF SeenInv, UpToDate
  <2> QED BY <2>1 DEF UpToDate
<1> QED BY <1>4, <1>5, <1>6, <1>7, <1>8 DEF SeenInv

LEMMA SnapshotKeeps ==
    ASSUME BaseInv, SeenInv, NEW p \in Publishers, Snapshot(p)
    PROVE  SeenInv'
<1>1. TypeOK /\ SnapshotInv /\ seen \in [Streams -> Seq(Events)] BY SeenType DEF BaseInv
<1>2. /\ UNCHANGED <<registry, owner, dead>> /\ seen' = seen /\ live' = live
      /\ p \notin publishing
      /\ targets' = [targets EXCEPT ![p] = {registry[i] : i \in Ids} \ {None}]
      /\ published' = [published EXCEPT ![p] = published[p] + 1]
  BY DEF Snapshot, streamVars, seen, live, Rest, NextEvent
<1>3. \A s \in Streams : s \in targets'[p] <=> registry[Id(s)] = s /\ Id(s) \in Ids
  BY <1>1, <1>2 DEF TypeOK, SnapshotInv
<1>4. /\ published'[p] = published[p] + 1 /\ published[p] \in Nat
      /\ \A q \in Publishers : q # p => published'[q] = published[q] /\ targets'[q] = targets[q]
  BY <1>1, <1>2 DEF TypeOK
<1>5. ASSUME NEW s \in Streams, NEW i \in DOMAIN seen[s]
      PROVE  /\ seen[s][i] \in Events /\ seen[s][i].task \in Publishers
             /\ seen[s][i].n \in Nat /\ seen[s][i].n <= published[seen[s][i].task]
             /\ Wanted(seen[s][i].task, s)
  <2>1. seen[s][i] \in Events BY <1>1, <1>5
  <2>2. seen[s][i].task \in Publishers /\ seen[s][i].n \in Nat BY <2>1 DEF Events
  <2> QED BY <1>5, <2>1, <2>2 DEF SeenInv, Bounded
<1>6. Bounded'
  <2>1. ASSUME NEW s \in Streams, NEW i \in DOMAIN seen[s]
        PROVE  seen[s][i].n <= published'[seen[s][i].task]
    BY <1>4, <1>5
  <2> QED BY <1>2, <1>5, <2>1 DEF Bounded, Wanted
<1>7. Behind'
  <2>1. ASSUME NEW q \in Publishers, NEW r \in Streams, NEW s \in Streams, s \in targets'[q],
               r <= s, owner[r] = owner[s], NEW i \in DOMAIN seen[r], seen[r][i].task = q
        PROVE  seen[r][i].n < published'[q]
    <3>1. CASE q = p BY <1>4, <1>5, <2>1, <3>1
    <3>2. CASE q # p BY <1>4, <2>1, <3>2 DEF SeenInv, Behind
    <3> QED BY <3>1, <3>2
  <2> QED BY <1>2, <2>1 DEF Behind
<1>8. Across' BY <1>2 DEF SeenInv, Across
<1>9. UpToDate'
  <2>1. ASSUME NEW q \in Publishers, NEW s \in live, HasTask(seen[s], q)
        PROVE  IF s \in targets'[q] THEN Has(seen[s], q, published'[q] - 1)
               ELSE (registry[Id(s)] = s /\ Id(s) \notin dead[q]) => Has(seen[s], q, published'[q])
    <3>0. s \in Streams BY DEF live
    <3>1. CASE q # p BY <1>4, <2>1, <3>1 DEF SeenInv, UpToDate
    <3>2. CASE q = p
      <4>1. targets[p] = {} /\ dead[p] = {} BY <1>1, <1>2 DEF SnapshotInv
      <4>2. registry[Id(s)] = s => Has(seen[s], p, published[p])
        BY <2>1, <3>2, <4>1 DEF SeenInv, UpToDate
      <4>3. published'[p] - 1 = published[p] BY <1>4
      <4>4. Id(s) \in Ids BY <1>1, <3>0 DEF Id, Ids, TypeOK, live
      <4> QED BY <1>3, <3>0, <3>2, <4>2, <4>3, <4>4
    <3> QED BY <3>1, <3>2
  <2>2. \A s \in Streams : Id(s)' = Id(s) BY <1>2 DEF Id
  <2>3. live \subseteq Streams BY DEF live
  <2> QED BY <1>2, <2>1, <2>2, <2>3 DEF UpToDate
<1> QED BY <1>2, <1>6, <1>7, <1>8, <1>9 DEF SeenInv

LEMMA ReturnKeeps ==
    ASSUME BaseInv, SeenInv, NEW p \in Publishers, Return(p)
    PROVE  SeenInv'
<1>1. TypeOK BY DEF BaseInv
<1>2. /\ UNCHANGED <<owner, targets, published>> /\ seen' = seen /\ live' = live
      /\ targets[p] = {}
      /\ registry' = Survivors(p) /\ dead' = [dead EXCEPT ![p] = {}]
  BY DEF Return, streamVars, seen, live, Rest
<1>3. Bounded' /\ Behind' /\ Across'
  BY <1>2 DEF SeenInv, Bounded, Behind, Across, Wanted
<1>4. UpToDate'
  <2>1. ASSUME NEW q \in Publishers, NEW s \in live, HasTask(seen[s], q), s \notin targets[q],
               registry'[Id(s)] = s, Id(s) \notin dead'[q]
        PROVE  Has(seen[s], q, published[q])
    <3>1. s \in Streams /\ Id(s) \in Ids BY <1>1 DEF live, Id, Ids, TypeOK
    <3>2. registry[Id(s)] = s /\ Id(s) \notin dead[p]
      BY <1>2, <2>1, <3>1 DEF Survivors
    <3>3. Id(s) \notin dead[q] BY <1>1, <1>2, <2>1, <3>2 DEF TypeOK
    <3> QED BY <2>1, <3>2, <3>3 DEF SeenInv, UpToDate
  <2>2. \A s \in Streams : Id(s)' = Id(s) BY <1>2 DEF Id
  <2>3. live \subseteq Streams BY DEF live
  <2>4. \A q \in Publishers, s \in live : HasTask(seen[s], q) /\ s \in targets[q] =>
            Has(seen[s], q, published[q] - 1)
    BY DEF SeenInv, UpToDate
  <2> QED BY <1>2, <2>1, <2>2, <2>3, <2>4 DEF UpToDate
<1> QED BY <1>2, <1>3, <1>4 DEF SeenInv

LEMMA ConcatAppend ==
    ASSUME NEW a \in Seq(Events), NEW b \in Seq(Events), NEW e \in Events
    PROVE  a \o Append(b, e) = Append(a \o b, e)
<1>1. <<e>> \in Seq(Events) /\ a \o b \in Seq(Events) BY ConcatProperties
<1>2. Append(b, e) = b \o <<e>> BY AppendIsConcat
<1>3. Append(a \o b, e) = (a \o b) \o <<e>> BY <1>1, AppendIsConcat
<1> QED BY <1>1, <1>2, <1>3, ConcatAssociative

\* A run of a task goes on with the next event.
LEMMA AppendKeepsRun ==
    ASSUME NEW w \in Seq(Events), NEW p \in Publishers, NEW n \in 1..MaxEvents,
           Ordered(w), Gapless(w),
           \A i \in DOMAIN w : w[i].task = p => w[i].n < n,
           HasTask(w, p) => Has(w, p, n - 1)
    PROVE  LET v == Append(w, [task |-> p, n |-> n]) IN Ordered(v) /\ Gapless(v)
<1> DEFINE e == [task |-> p, n |-> n]
           v == Append(w, e)
           last == Len(w) + 1
<1>1. /\ e \in Events /\ e.task = p /\ e.n = n
      /\ v \in Seq(Events) /\ DOMAIN v = DOMAIN w \cup {last} /\ DOMAIN w = 1..Len(w)
      /\ Len(w) \in Nat /\ (\A i \in DOMAIN w : v[i] = w[i]) /\ v[last] = e
  BY DEF Events
<1>2. \A i \in DOMAIN w : w[i].n \in Nat
  <2>1. ASSUME NEW i \in DOMAIN w PROVE w[i].n \in Nat
    <3>1. w[i] \in Events OBVIOUS
    <3> QED BY <3>1 DEF Events
  <2> QED BY <2>1
<1>3. \A q, m : Has(w, q, m) => Has(v, q, m) BY <1>1 DEF Has
<1> HIDE DEF v, e
<1>4. Ordered(v)
  <2>1. ASSUME NEW i \in DOMAIN v, NEW j \in DOMAIN v, i < j, v[i].task = v[j].task
        PROVE  v[i].n < v[j].n
    <3>1. i \in DOMAIN w BY <1>1, <2>1
    <3>2. CASE j \in DOMAIN w BY <1>1, <2>1, <3>1, <3>2 DEF Ordered
    <3>3. CASE j = last BY <1>1, <2>1, <3>1, <3>3
    <3> QED BY <1>1, <3>2, <3>3
  <2> QED BY <2>1 DEF Ordered
<1>5. Gapless(v)
  <2>1. ASSUME NEW i \in DOMAIN v, NEW j \in DOMAIN v, v[i].task = v[j].task,
               NEW m \in v[i].n .. v[j].n
        PROVE  Has(v, v[i].task, m)
    <3>1. CASE i \in DOMAIN w /\ j \in DOMAIN w
      BY <1>1, <1>3, <2>1, <3>1 DEF Gapless
    <3>2. CASE i \in DOMAIN w /\ j = last
      <4>1. w[i].task = p /\ m \in w[i].n .. n BY <1>1, <2>1, <3>2
      <4>2. CASE m = n
        <5>1. v[last] = [task |-> p, n |-> m] BY <1>1, <4>2 DEF e
        <5> QED BY <1>1, <3>2, <4>1, <5>1 DEF Has
      <4>3. CASE m # n
        <5>1. m \in w[i].n .. (n - 1) BY <1>2, <3>2, <4>1, <4>3
        <5>2. PICK k \in DOMAIN w : w[k] = [task |-> p, n |-> n - 1]
          BY <3>2, <4>1 DEF HasTask, Has
        <5>3. Has(w, p, m) BY <3>2, <4>1, <5>1, <5>2 DEF Gapless
        <5> QED BY <1>1, <1>3, <3>2, <4>1, <5>3
      <4> QED BY <4>2, <4>3
    <3>3. CASE i = last /\ j \in DOMAIN w
      <4>1. w[j].task = p /\ m \in n .. w[j].n BY <1>1, <2>1, <3>3
      <4> QED BY <1>2, <3>3, <4>1
    <3>4. CASE i = last /\ j = last
      <4>1. m = n BY <1>1, <2>1, <3>4
      <4>2. v[last] = [task |-> p, n |-> m] BY <1>1, <4>1 DEF e
      <4> QED BY <1>1, <3>4, <4>2 DEF Has
    <3> QED BY <1>1, <3>1, <3>2, <3>3, <3>4
  <2> QED BY <2>1 DEF Gapless
<1> QED BY <1>4, <1>5 DEF v, e

LEMMA PutKeeps ==
    ASSUME BaseInv, SeenInv, NEW p \in Publishers, Put(p)
    PROVE  SeenInv'
<1> DEFINE e == [task |-> p, n |-> published[p]]
<1>1. TypeOK /\ StreamInv /\ SnapshotInv /\ seen \in [Streams -> Seq(Events)]
  BY SeenType DEF BaseInv
<1> PICK s \in targets[p] :
      /\ targets' = [targets EXCEPT ![p] = @ \ {s}]
      /\ IF Wanted(p, s) /\ Len(backlog[s]) < QueueSize
         THEN backlog' = [backlog EXCEPT ![s] = Append(@, e)]
         ELSE UNCHANGED backlog
      /\ IF Wanted(p, s) /\ Len(backlog[s]) >= QueueSize
         THEN dead' = [dead EXCEPT ![p] = @ \cup {Id(s)}]
         ELSE UNCHANGED dead
      /\ UNCHANGED <<registry, published, publishing, streamVars>>
  BY DEF Put
<1>2. /\ s \in Streams /\ UNCHANGED <<registry, published, gen, hand, owner, link, heard>>
      /\ live' = live
  BY <1>1 DEF TypeOK, streamVars, live
<1>3. published[p] \in 1..MaxEvents /\ e \in Events
  <2>1. published[p] > 0 BY <1>1 DEF SnapshotInv
  <2>2. published[p] \in 1..MaxEvents BY <1>1, <2>1 DEF TypeOK
  <2> QED BY <2>2 DEF Events
<1>4. /\ targets'[p] = targets[p] \ {s}
      /\ \A q \in Publishers : q # p => targets'[q] = targets[q]
  BY <1>1 DEF TypeOK
<1>5. \A q \in Publishers : dead[q] \subseteq dead'[q] BY <1>1 DEF TypeOK
<1>6. \A r \in Streams : r # s => seen'[r] = seen[r]
  <2>1. \A r \in Streams : r # s => backlog'[r] = backlog[r] BY <1>1, <1>2 DEF TypeOK
  <2> QED BY <1>2, <2>1 DEF seen, Rest
<1>7. \A r \in Streams : Id(r)' = Id(r) BY <1>2 DEF Id
<1>8. \A q, r : Wanted(q, r)' = Wanted(q, r) BY <1>2 DEF Wanted
<1>9. CASE Wanted(p, s) /\ Len(backlog[s]) < QueueSize /\ s \in live
  <2>1. seen'[s] = Append(seen[s], e)
    <3>1. /\ backlog[s] \in Seq(Events) /\ heard[s] \in Seq(Events)
          /\ backlog'[s] = Append(backlog[s], e)
      BY <1>1, <1>2, <1>9 DEF TypeOK
    <3>2. Rest(s)' = Append(Rest(s), e)
      <4>1. CASE gen[s] = "yield"
        <5>1. <<hand[s]>> \in Seq(Events) BY <1>1, <1>2, <4>1 DEF StreamInv
        <5>2. Rest(s)' = <<hand[s]>> \o Append(backlog[s], e) BY <1>2, <3>1, <4>1 DEF Rest
        <5> HIDE DEF e
        <5>3. Rest(s)' = Append(<<hand[s]>> \o backlog[s], e)
          BY <1>3, <3>1, <5>1, <5>2, ConcatAppend
        <5> QED BY <4>1, <5>3 DEF Rest
      <4>2. CASE gen[s] # "yield" BY <1>2, <3>1, <4>2 DEF Rest
      <4> QED BY <4>1, <4>2
    <3>3. Rest(s) \in Seq(Events) BY <1>2, SeenType
    <3> HIDE DEF e
    <3>4. heard[s] \o Append(Rest(s), e) = Append(heard[s] \o Rest(s), e)
      BY <1>3, <3>1, <3>3, ConcatAppend
    <3>5. seen'[s] = heard[s] \o Append(Rest(s), e) BY <1>2, <1>9, <3>2 DEF seen
    <3>6. seen[s] = heard[s] \o Rest(s) BY <1>2, <1>9 DEF seen
    <3> QED BY <3>4, <3>5, <3>6
  <2> DEFINE last == Len(seen[s]) + 1
  <2>2. /\ seen[s] \in Seq(Events) /\ DOMAIN seen'[s] = DOMAIN seen[s] \cup {last}
        /\ (\A i \in DOMAIN seen[s] : seen'[s][i] = seen[s][i]) /\ seen'[s][last] = e
        /\ e.task = p /\ e.n = published[p]
    BY <1>1, <1>2, <1>3, <2>1
  <2>3. \A r \in Streams : owner[r] = owner[s] => r <= s BY <1>1, <1>9 DEF StreamInv
  <2>4. \A r \in Streams : r <= s /\ owner[r] = owner[s] =>
            \A i \in DOMAIN seen[r] : seen[r][i].task = p => seen[r][i].n < published[p]
    BY <1>2 DEF SeenInv, Behind
  <2>5. \A q, m : Has(seen[s], q, m) => Has(seen'[s], q, m) BY <2>2 DEF Has
  <2>6. Has(seen'[s], p, published[p]) BY <2>2 DEF Has
  <2>7. Ordered(seen'[s]) /\ Gapless(seen'[s])
    <3>1. HasTask(seen[s], p) => Has(seen[s], p, published[p] - 1)
      BY <1>9 DEF SeenInv, UpToDate
    <3>2. \A i \in DOMAIN seen[s] : seen[s][i].task = p => seen[s][i].n < published[p]
      BY <1>2, <2>4
    <3>3. Ordered(seen[s]) /\ Gapless(seen[s]) BY <1>2 DEF SeenInv
    <3>4. LET v == Append(seen[s], [task |-> p, n |-> published[p]])
          IN  Ordered(v) /\ Gapless(v)
      BY <1>1, <1>2, <1>3, <3>1, <3>2, <3>3, AppendKeepsRun
    <3> QED BY <2>1, <3>4
  <2> HIDE DEF e, last
  <2>8. \A r \in Streams : Ordered(seen'[r]) /\ Gapless(seen'[r])
    BY <1>6, <2>7 DEF SeenInv
  <2>9. Bounded'
    <3>1. ASSUME NEW r \in Streams, NEW i \in DOMAIN seen'[r]
          PROVE  seen'[r][i].n <= published[seen'[r][i].task] /\ Wanted(seen'[r][i].task, r)
      <4>1. CASE r # s \/ i \in DOMAIN seen[s]
        BY <1>6, <2>2, <3>1, <4>1 DEF SeenInv, Bounded
      <4>2. CASE r = s /\ i = last BY <1>3, <1>9, <2>2, <4>2
      <4> QED BY <2>2, <3>1, <4>1, <4>2
    <3> QED BY <1>2, <1>8, <3>1 DEF Bounded
  <2>10. Behind'
    <3>1. ASSUME NEW q \in Publishers, NEW r \in Streams, NEW u \in Streams, u \in targets'[q],
                 r <= u, owner[r] = owner[u], NEW i \in DOMAIN seen'[r],
                 seen'[r][i].task = q
          PROVE  seen'[r][i].n < published[q]
      <4>1. u \in targets[q] BY <1>4, <3>1
      <4>2. CASE r # s \/ i \in DOMAIN seen[s]
        BY <1>6, <2>2, <3>1, <4>1, <4>2 DEF SeenInv, Behind
      <4>3. CASE r = s /\ i = last
        <5>1. q = p /\ u # s BY <1>4, <2>2, <3>1, <4>3
        <5> QED BY <1>2, <2>3, <3>1, <4>3, <5>1
      <4> QED BY <2>2, <3>1, <4>2, <4>3
    <3> QED BY <1>2, <3>1 DEF Behind
  <2>11. Across'
    <3>1. ASSUME NEW r \in Streams, NEW u \in Streams, r < u, owner[r] = owner[u],
                 NEW i \in DOMAIN seen'[r], NEW j \in DOMAIN seen'[u],
                 seen'[r][i].task = seen'[u][j].task
          PROVE  seen'[r][i].n < seen'[u][j].n
      <4>1. r # s BY <2>3, <3>1
      <4>2. seen'[r] = seen[r] BY <1>6, <4>1
      <4>3. CASE u # s
        <5>1. seen'[u] = seen[u] BY <1>6, <4>3
        <5> QED BY <3>1, <4>2, <5>1 DEF SeenInv, Across
      <4>4. CASE u = s /\ j \in DOMAIN seen[s]
        <5>1. seen'[u][j] = seen[u][j] BY <2>2, <4>4
        <5> QED BY <3>1, <4>2, <4>4, <5>1 DEF SeenInv, Across
      <4>5. CASE u = s /\ j = last BY <2>2, <2>4, <3>1, <4>2, <4>5
      <4> QED BY <2>2, <3>1, <4>3, <4>4, <4>5
    <3> QED BY <1>2, <3>1 DEF Across
  <2>12. UpToDate'
    <3>1. ASSUME NEW q \in Publishers, NEW r \in live, HasTask(seen'[r], q)
          PROVE  IF r \in targets'[q] THEN Has(seen'[r], q, published[q] - 1)
                 ELSE (registry[Id(r)] = r /\ Id(r) \notin dead'[q]) => Has(seen'[r], q, published[q])
      <4>0. r \in Streams BY DEF live
      <4>1. CASE r # s
        <5>1. r \in targets'[q] <=> r \in targets[q] BY <1>4, <4>1
        <5> QED BY <1>5, <1>6, <3>1, <4>0, <4>1, <5>1 DEF SeenInv, UpToDate
      <4>2. CASE r = s /\ q = p BY <1>4, <2>6, <4>2
      <4>3. CASE r = s /\ q # p
        <5>1. HasTask(seen[s], q) BY <2>2, <3>1, <4>3 DEF HasTask
        <5> QED BY <1>4, <1>5, <2>5, <3>1, <4>3, <5>1 DEF SeenInv, UpToDate
      <4> QED BY <4>1, <4>2, <4>3
    <3>2. live \subseteq Streams BY DEF live
    <3> QED BY <1>2, <1>7, <3>1, <3>2 DEF UpToDate
  <2> QED BY <2>8, <2>9, <2>10, <2>11, <2>12 DEF SeenInv
<1>10. CASE ~ (Wanted(p, s) /\ Len(backlog[s]) < QueueSize /\ s \in live)
  <2>1. seen' = seen
    <3>1. seen'[s] = seen[s] BY <1>2, <1>10 DEF seen, Rest
    <3> QED BY <1>6, <3>1 DEF seen
  <2>2. Bounded' /\ Across' BY <1>2, <1>8, <2>1 DEF SeenInv, Bounded, Across
  <2>3. Behind' BY <1>2, <1>4, <2>1 DEF SeenInv, Behind
  <2>4. UpToDate'
    <3>1. ASSUME NEW q \in Publishers, NEW r \in live, HasTask(seen[r], q)
          PROVE  IF r \in targets'[q] THEN Has(seen[r], q, published[q] - 1)
                 ELSE (registry[Id(r)] = r /\ Id(r) \notin dead'[q]) => Has(seen[r], q, published[q])
      <4>0. r \in Streams BY DEF live
      <4>1. CASE r # s \/ q # p
        <5>1. r \in targets'[q] <=> r \in targets[q] BY <1>4, <4>1
        <5> QED BY <1>5, <3>1, <5>1 DEF SeenInv, UpToDate
      <4>2. CASE r = s /\ q = p
        <5>1. Wanted(p, s) BY <1>2, <3>1, <4>2 DEF SeenInv, Bounded, HasTask
        <5>2. Len(backlog[s]) >= QueueSize
          <6>1. Len(backlog[s]) \in Nat BY <1>1, <1>2 DEF TypeOK
          <6> QED BY <1>10, <3>1, <4>2, <5>1, <6>1
        <5>3. Id(s) \in dead'[p] BY <1>1, <5>1, <5>2 DEF TypeOK
        <5> QED BY <1>4, <4>2, <5>3
      <4> QED BY <4>1, <4>2
    <3>2. live \subseteq Streams BY DEF live
    <3> QED BY <1>2, <1>7, <2>1, <3>1, <3>2 DEF UpToDate
  <2> QED BY <2>1, <2>2, <2>3, <2>4 DEF SeenInv
<1> QED BY <1>9, <1>10

LEMMA StepSeen == ASSUME BaseInv, BaseInv', SeenInv, [Next]_vars PROVE SeenInv'
<1>1. ASSUME NEW g \in Gateways, Open(g) PROVE SeenInv'
  BY <1>1, OpenShrinks, ShrinkingKeeps DEF Open, publishVars
<1>2. ASSUME NEW g \in Gateways, Break(g) PROVE SeenInv'
  BY <1>2, BreakShrinks, ShrinkingKeeps DEF Break, publishVars
<1>3. ASSUME NEW s \in Streams, Learn(s) PROVE SeenInv'
  <2>1. /\ UNCHANGED <<registry, owner, link, heard, gen, hand, backlog>>
        /\ UNCHANGED <<published, targets, dead>>
    BY <1>3 DEF Learn, publishVars
  <2>2. seen' = seen /\ live' = live BY <2>1 DEF seen, live, Rest
  <2> QED BY <2>1, <2>2, SameSeen, ShrinkingKeeps
<1>4. ASSUME NEW s \in Streams, Worker(s) PROVE SeenInv'
  <2>1. UNCHANGED <<published, targets, dead>>
    BY <1>4 DEF Worker, Subscribe, Get, Yield, Quit, Unsubscribe, publishVars
  <2> QED BY <1>4, <2>1, WorkerShrinks, ShrinkingKeeps
<1>5. ASSUME NEW p \in Publishers, Publish(p) PROVE SeenInv'
  BY <1>5, SnapshotKeeps, PutKeeps, ReturnKeeps DEF Publish
<1>6. ASSUME UNCHANGED vars PROVE SeenInv'
  <2>1. /\ UNCHANGED <<registry, owner, link, heard, gen, hand, backlog>>
        /\ UNCHANGED <<published, targets, dead>>
    BY <1>6 DEF vars
  <2>2. seen' = seen /\ live' = live BY <2>1 DEF seen, live, Rest
  <2> QED BY <2>1, <2>2, SameSeen, ShrinkingKeeps
<1> QED BY <1>1, <1>2, <1>3, <1>4, <1>5, <1>6 DEF Next

LEMMA BusInduction == Init => BusInv
BY InitBase, InitSeen DEF BusInv

LEMMA BusStepInv == BusInv /\ [Next]_vars => BusInv'
BY StepBase, StepSeen DEF BusInv

-----------------------------------------------------------------------------
LEMMA HeardRuns ==
    ASSUME BusInv, NEW s \in Streams
    PROVE  heard[s] \in Seq(Events) /\ Ordered(heard[s]) /\ Gapless(heard[s])
<1>1. heard[s] \in Seq(Events) /\ seen[s] \in Seq(Events)
  BY SeenType DEF BusInv, BaseInv, TypeOK
<1>2. Prefix(heard[s], seen[s]) BY HeardIsPrefix DEF BusInv
<1>3. Ordered(seen[s]) /\ Gapless(seen[s]) BY DEF BusInv, SeenInv
<1> QED BY <1>1, <1>2, <1>3, PrefixKeepsRun

LEMMA InvHeardWithoutGap == BusInv => HeardWithoutGap
<1> SUFFICES ASSUME BusInv, NEW s \in Streams, NEW i \in DOMAIN heard[s], NEW j \in DOMAIN heard[s],
                    heard[s][i].task = heard[s][j].task
             PROVE  /\ i < j => heard[s][i].n < heard[s][j].n
                    /\ \A n \in heard[s][i].n..heard[s][j].n :
                           \E k \in i..j : heard[s][k] = [task |-> heard[s][i].task, n |-> n]
    BY DEF HeardWithoutGap
<1>1. heard[s] \in Seq(Events) /\ Ordered(heard[s]) /\ Gapless(heard[s]) BY HeardRuns
<1>2. i < j => heard[s][i].n < heard[s][j].n BY <1>1 DEF Ordered
<1>3. ASSUME NEW n \in heard[s][i].n..heard[s][j].n
      PROVE  \E k \in i..j : heard[s][k] = [task |-> heard[s][i].task, n |-> n]
  <2>1. PICK k \in DOMAIN heard[s] : heard[s][k] = [task |-> heard[s][i].task, n |-> n]
    BY <1>1, <1>3 DEF Gapless, Has
  <2>2. heard[s][i] \in Events /\ heard[s][j] \in Events /\ i \in Nat /\ j \in Nat /\ k \in Nat
    BY <1>1
  <2>3. heard[s][i].n \in Int /\ heard[s][j].n \in Int BY <2>2 DEF Events
  <2>4. ~ (k < i)
    <3>1. k < i => heard[s][k].n < heard[s][i].n BY <1>1, <2>1 DEF Ordered
    <3> QED BY <1>3, <2>1, <2>3, <3>1
  <2>5. ~ (j < k)
    <3>1. j < k => heard[s][j].n < heard[s][k].n BY <1>1, <2>1 DEF Ordered
    <3> QED BY <1>3, <2>1, <2>3, <3>1
  <2> QED BY <2>1, <2>2, <2>4, <2>5
<1> QED BY <1>2, <1>3

LEMMA InvHeardOnce == BusInv => HeardOnce
<1> SUFFICES ASSUME BusInv, NEW r \in Streams, NEW s \in Streams, r < s, owner[r] = owner[s],
                    NEW i \in DOMAIN heard[r], NEW j \in DOMAIN heard[s],
                    heard[r][i].task = heard[s][j].task
             PROVE  heard[r][i].n < heard[s][j].n
    BY DEF HeardOnce
<1>1. /\ heard[r] \in Seq(Events) /\ seen[r] \in Seq(Events)
      /\ heard[s] \in Seq(Events) /\ seen[s] \in Seq(Events)
  BY SeenType DEF BusInv, BaseInv, TypeOK
<1>2. Prefix(heard[r], seen[r]) /\ Prefix(heard[s], seen[s]) BY HeardIsPrefix DEF BusInv
<1>3. i \in DOMAIN seen[r] /\ seen[r][i] = heard[r][i] BY <1>1, <1>2 DEF Prefix
<1>4. j \in DOMAIN seen[s] /\ seen[s][j] = heard[s][j] BY <1>1, <1>2 DEF Prefix
<1> QED BY <1>3, <1>4 DEF BusInv, SeenInv, Across

\* The variables of the bus keep their types, for any number of gateways and tasks.
THEOREM BusTypeCorrect == Spec => []TypeOK
<1>1. BusInv => TypeOK BY DEF BusInv, BaseInv
<1> QED BY <1>1, BusInduction, BusStepInv, PTL DEF Spec

\* No gateway hears half of what a task published while it listened: over one stream
\* the events of a task come in their order and without a gap, for any queue size.
THEOREM NoGapInTask == Spec => []HeardWithoutGap
BY InvHeardWithoutGap, BusInduction, BusStepInv, PTL DEF Spec

\* Over all its streams a gateway hears no event twice and none late.
THEOREM NothingTwice == Spec => []HeardOnce
BY InvHeardOnce, BusInduction, BusStepInv, PTL DEF Spec

-----------------------------------------------------------------------------
(* The pages of a gateway.                                                 *)

HIDE BusAssumption DEF Streams

\* The gateway has heard e over one of its streams.
Known(e) == \E s \in Streams : owner[s] = Gateway /\ \E i \in DOMAIN heard[s] : heard[s][i] = e

\* What a page has been sent, with the event it is being sent.
Front(b) == IF carried[b] = NoEvent THEN shown[b] ELSE Append(shown[b], carried[b])

Distinct(o) == \A i, j \in DOMAIN o : o[i] = o[j] => i = j

\* The queue q is the end of the events offered, o; the front f is taken in order from
\* what was offered before, and has all of it that the queue, short of the last
\* HubSize, leaves to it.
Follows(f, q, o) ==
    /\ Len(q) <= Len(o) /\ Len(q) <= HubSize
    /\ \A i \in 1..Len(q) : q[i] = o[Len(o) - Len(q) + i]
    /\ \A i \in DOMAIN f : \E k \in 1..(Len(o) - Len(q)) : o[k] = f[i]
    /\ \A i, j \in DOMAIN f, k, l \in DOMAIN o : (i < j /\ o[k] = f[i] /\ o[l] = f[j]) => k < l
    /\ \A k \in 1..(Len(o) - Len(q)) : k > Len(o) - HubSize => \E i \in DOMAIN f : f[i] = o[k]

PageInv(b) ==
    /\ page[b] = "get" => carried[b] = NoEvent
    /\ Distinct(offered[b])
    /\ \A i \in DOMAIN offered[b] : Known(offered[b][i])
    /\ Follows(Front(b), queue[b], offered[b])

HubInv == HubTypeOK(Events) /\ \A b \in Pages : PageInv(b)

GatewayInv == BusInv /\ HubInv

-----------------------------------------------------------------------------
LEMMA PushFollows ==
    ASSUME NEW f \in Seq(Events), NEW q \in Seq(Events), NEW o \in Seq(Events), NEW e \in Events,
           Distinct(o), Follows(f, q, o), \A i \in DOMAIN o : o[i] # e
    PROVE  /\ Distinct(Append(o, e)) /\ Follows(f, Pushed(q, e), Append(o, e))
           /\ Pushed(q, e) \in Seq(Events) /\ Len(Pushed(q, e)) <= HubSize
<1> DEFINE n == Len(o)
           m == Len(q)
           u == Append(o, e)
           v == Pushed(q, e)
           w == IF m < HubSize THEN q ELSE Tail(q)
<1>0. HubSize \in Nat \ {0} BY HubAssumption
<1>1. /\ n \in Nat /\ m \in Nat /\ m <= n /\ m <= HubSize
      /\ u \in Seq(Events) /\ Len(u) = n + 1 /\ DOMAIN u = 1..(n + 1)
      /\ DOMAIN o = 1..n /\ (\A k \in 1..n : u[k] = o[k]) /\ u[n + 1] = e
  BY DEF Follows
<1>2. Distinct(u)
  <2>1. ASSUME NEW i \in 1..(n + 1), NEW j \in 1..(n + 1), u[i] = u[j] PROVE i = j
    <3>1. CASE i \in 1..n /\ j \in 1..n BY <1>1, <2>1, <3>1 DEF Distinct
    <3>2. CASE i = n + 1 \/ j = n + 1 BY <1>1, <2>1, <3>2
    <3> QED BY <1>1, <3>1, <3>2
  <2> QED BY <1>1, <2>1 DEF Distinct
<1>3. /\ w \in Seq(Events) /\ Len(w) = (IF m < HubSize THEN m ELSE m - 1)
      /\ \A i \in 1..Len(w) : w[i] = (IF m < HubSize THEN q[i] ELSE q[i + 1])
  <2>1. CASE m < HubSize BY <1>1, <2>1
  <2>2. CASE ~ (m < HubSize)
    <3>1. q # <<>> BY <1>0, <1>1, <2>2
    <3>2. Tail(q) \in Seq(Events) /\ Len(Tail(q)) = m - 1 /\ \A i \in 1..(m - 1) : Tail(q)[i] = q[i + 1]
      BY <1>1, <3>1, HeadTailProperties
    <3> QED BY <2>2, <3>2
  <2> QED BY <2>1, <2>2
<1>4. /\ v \in Seq(Events) /\ Len(v) = Len(w) + 1 /\ v[Len(w) + 1] = e
      /\ \A i \in 1..Len(w) : v[i] = w[i]
  BY <1>3 DEF Pushed
<1> HIDE DEF u, v, w
<1>5. /\ Len(u) = n + 1 /\ Len(w) \in Nat /\ Len(v) \in Nat
      /\ m < HubSize => Len(w) = m /\ Len(v) = m + 1
      /\ ~ (m < HubSize) => Len(w) = m - 1 /\ Len(v) = m /\ m = HubSize
  <2>1. Len(v) = Len(w) + 1 BY <1>4
  <2>2. CASE m < HubSize BY <1>1, <1>3, <2>1, <2>2
  <2>3. CASE ~ (m < HubSize) BY <1>0, <1>1, <1>3, <2>1, <2>3
  <2> QED BY <1>1, <2>2, <2>3
<1>6. Len(v) <= HubSize /\ Len(v) <= Len(u) BY <1>0, <1>1, <1>3, <1>4
<1>7. ASSUME NEW i \in 1..Len(v) PROVE v[i] = u[Len(u) - Len(v) + i]
  <2>1. CASE i = Len(w) + 1
    <3>1. Len(u) - Len(v) + i = n + 1 BY <1>4, <1>5, <2>1, <1>1
    <3> QED BY <1>1, <1>4, <2>1, <3>1
  <2>2. CASE i \in 1..Len(w)
    <3>1. CASE m < HubSize
      <4>1. v[i] = o[n - m + i] BY <1>1, <1>3, <1>4, <2>2, <3>1 DEF Follows
      <4>2. n - m + i \in 1..n /\ Len(u) - Len(v) + i = n - m + i BY <1>1, <1>3, <1>4, <2>2, <3>1
      <4> QED BY <1>1, <4>1, <4>2
    <3>2. CASE ~ (m < HubSize)
      <4>1. i + 1 \in 1..m BY <1>1, <1>3, <2>2, <3>2
      <4>2. v[i] = o[n - m + (i + 1)] BY <1>3, <1>4, <2>2, <3>2, <4>1 DEF Follows
      <4>3. n - m + (i + 1) \in 1..n /\ Len(u) - Len(v) + i = n - m + (i + 1)
        BY <1>1, <1>3, <1>4, <2>2, <3>2, <4>1
      <4> QED BY <1>1, <4>2, <4>3
    <3> QED BY <3>1, <3>2
  <2> QED BY <1>4, <1>5, <2>1, <2>2
<1>8. ASSUME NEW i \in DOMAIN f PROVE \E k \in 1..(Len(u) - Len(v)) : u[k] = f[i]
  <2>1. PICK k \in 1..(n - m) : o[k] = f[i] BY DEF Follows
  <2>2. k \in 1..n /\ k \in 1..(Len(u) - Len(v)) BY <1>1, <1>5, <2>1
  <2> QED BY <1>1, <2>1, <2>2
<1>9. ASSUME NEW i \in DOMAIN f, NEW j \in DOMAIN f, NEW k \in DOMAIN u, NEW l \in DOMAIN u,
             i < j, u[k] = f[i], u[l] = f[j]
      PROVE  k < l
  <2>1. f[i] # e /\ f[j] # e
    <3>1. PICK x \in 1..(n - m) : o[x] = f[i] BY DEF Follows
    <3>2. PICK y \in 1..(n - m) : o[y] = f[j] BY DEF Follows
    <3>3. x \in DOMAIN o /\ y \in DOMAIN o BY <1>1
    <3> QED BY <3>1, <3>2, <3>3
  <2>2. k \in DOMAIN o /\ l \in DOMAIN o BY <1>1, <1>9, <2>1
  <2> QED BY <1>1, <1>9, <2>2 DEF Follows
<1>10. ASSUME NEW k \in 1..(Len(u) - Len(v)), k > Len(u) - HubSize
      PROVE  \E i \in DOMAIN f : f[i] = u[k]
  <2>1. m < HubSize BY <1>0, <1>1, <1>5, <1>10
  <2>2. k \in 1..(n - m) /\ k \in 1..n /\ k > n - HubSize BY <1>0, <1>1, <1>5, <1>10, <2>1
  <2> QED BY <1>1, <2>2 DEF Follows
<1>11. Follows(f, v, u) BY <1>6, <1>7, <1>8, <1>9, <1>10 DEF Follows
<1> QED BY <1>2, <1>4, <1>6, <1>11 DEF u, v

\* The event taken from the queue goes to the front.
LEMMA TakeFollows ==
    ASSUME NEW f \in Seq(Events), NEW q \in Seq(Events), NEW o \in Seq(Events),
           q # <<>>, Distinct(o), Follows(f, q, o)
    PROVE  Follows(Append(f, Head(q)), Tail(q), o)
<1> DEFINE n == Len(o)
           m == Len(q)
           g == Append(f, Head(q))
           last == Len(f) + 1
<1>0. HubSize \in Nat \ {0} BY HubAssumption
<1>1. /\ n \in Nat /\ m \in Nat \ {0} /\ m <= n /\ m <= HubSize /\ DOMAIN o = 1..n
      /\ Head(q) \in Events /\ Tail(q) \in Seq(Events) /\ Len(Tail(q)) = m - 1
      /\ \A i \in 1..(m - 1) : Tail(q)[i] = q[i + 1]
  BY HeadTailProperties DEF Follows
<1>2. Head(q) = o[n - m + 1] /\ n - m + 1 \in 1..n
  <2>1. q[1] = o[n - m + 1] BY <1>1 DEF Follows
  <2> QED BY <1>1, <2>1
<1>3. /\ DOMAIN g = DOMAIN f \cup {last} /\ g[last] = Head(q)
      /\ \A i \in DOMAIN f : g[i] = f[i] /\ i \in Nat /\ i < last
  BY <1>1
<1> HIDE DEF g
<1>4. ASSUME NEW i \in 1..(m - 1) PROVE Tail(q)[i] = o[n - (m - 1) + i]
  <2>1. i + 1 \in 1..m /\ n - m + (i + 1) = n - (m - 1) + i BY <1>1
  <2>2. q[i + 1] = o[n - m + (i + 1)] BY <2>1 DEF Follows
  <2> QED BY <1>1, <2>1, <2>2
<1>5. ASSUME NEW i \in DOMAIN g PROVE \E k \in 1..(n - (m - 1)) : o[k] = g[i]
  <2>1. CASE i = last
    <3>1. n - m + 1 \in 1..(n - (m - 1)) BY <1>1, <1>2
    <3> QED BY <1>2, <1>3, <2>1, <3>1
  <2>2. CASE i \in DOMAIN f
    <3>1. PICK k \in 1..(n - m) : o[k] = f[i] BY <2>2 DEF Follows
    <3>2. k \in 1..(n - (m - 1)) BY <1>1
    <3> QED BY <1>3, <2>2, <3>1, <3>2
  <2> QED BY <1>3, <2>1, <2>2
<1>6. ASSUME NEW i \in DOMAIN g, NEW j \in DOMAIN g, NEW k \in DOMAIN o, NEW l \in DOMAIN o,
             i < j, o[k] = g[i], o[l] = g[j]
      PROVE  k < l
  <2>1. i \in DOMAIN f BY <1>3, <1>6
  <2>2. CASE j \in DOMAIN f BY <1>3, <1>6, <2>1, <2>2 DEF Follows
  <2>3. CASE j = last
    <3>1. l = n - m + 1 BY <1>1, <1>2, <1>3, <1>6, <2>3 DEF Distinct
    <3>2. PICK x \in 1..(n - m) : o[x] = f[i] BY <2>1 DEF Follows
    <3>3. x \in DOMAIN o BY <1>1
    <3>4. k = x BY <1>3, <1>6, <2>1, <3>2, <3>3 DEF Distinct
    <3> QED BY <1>1, <3>1, <3>4
  <2> QED BY <1>3, <2>2, <2>3
<1>7. ASSUME NEW k \in 1..(n - (m - 1)), k > n - HubSize PROVE \E i \in DOMAIN g : g[i] = o[k]
  <2>1. CASE k = n - m + 1 BY <1>2, <1>3, <2>1
  <2>2. CASE k \in 1..(n - m)
    <3>1. PICK i \in DOMAIN f : f[i] = o[k] BY <1>7, <2>2 DEF Follows
    <3> QED BY <1>3, <3>1
  <2> QED BY <1>1, <2>1, <2>2
<1>8. Len(Tail(q)) <= n /\ Len(Tail(q)) <= HubSize BY <1>0, <1>1
<1>9. Follows(g, Tail(q), o) BY <1>1, <1>4, <1>5, <1>6, <1>7, <1>8 DEF Follows
<1> QED BY <1>9 DEF g

LEMMA NothingFollows == Distinct(<<>>) /\ Follows(<<>>, <<>>, <<>>)
BY HubAssumption DEF Distinct, Follows

-----------------------------------------------------------------------------
LEMMA FrontType ==
    ASSUME HubTypeOK(Events), NEW b \in Pages
    PROVE  /\ shown[b] \in Seq(Events) /\ carried[b] \in Events \cup {NoEvent}
           /\ queue[b] \in Seq(Events) /\ offered[b] \in Seq(Events) /\ Front(b) \in Seq(Events)
BY DEF HubTypeOK, Front

\* Nothing on its way: the state of a page that is closed.
Blank(b) == carried[b] = NoEvent /\ shown[b] = <<>> /\ queue[b] = <<>> /\ offered[b] = <<>>

LEMMA BlankPage == ASSUME NEW b \in Pages, Blank(b) PROVE PageInv(b)
BY NothingFollows DEF Blank, PageInv, Front

LEMMA BlankPageAfter == ASSUME NEW b \in Pages PROVE Blank(b)' => PageInv(b)'
<1>1. Blank(b) => PageInv(b) BY BlankPage
<1> QED BY <1>1, PTL

LEMMA InitHub == HubInit => HubInv
<1> SUFFICES ASSUME HubInit PROVE HubInv
  OBVIOUS
<1>1. HubTypeOK(Events) BY HubAssumption DEF HubInit, HubTypeOK
<1>2. \A b \in Pages : Blank(b) BY DEF HubInit, Blank
<1> QED BY <1>1, <1>2, BlankPage DEF HubInv

\* A page whose variables a step leaves alone.
Same(b) == UNCHANGED <<page[b], carried[b], shown[b], queue[b], offered[b]>>

Remembers == \A e : Known(e) => Known(e)'

LEMMA SamePage ==
    ASSUME NEW b \in Pages, PageInv(b), Same(b), Remembers
    PROVE  PageInv(b)'
BY DEF PageInv, Same, Remembers, Front

LEMMA PageKeeps ==
    ASSUME HubInv, Remembers, NEW c \in Pages, PageStep(c)
    PROVE  HubInv'
<1>1. HubTypeOK(Events) BY DEF HubInv
<1>2. /\ page \in [Pages -> {"off", "send", "get", "left"}]
      /\ carried \in [Pages -> Events \cup {NoEvent}]
      /\ shown \in [Pages -> Seq(Events)]
      /\ offered \in [Pages -> Seq(Events)]
      /\ queue \in [Pages -> Seq(Events)] /\ \A b \in Pages : Len(queue[b]) <= HubSize
      /\ visits \in 0..MaxPages /\ MaxPages \in Nat /\ HubSize \in Nat
  BY <1>1, HubAssumption DEF HubTypeOK
<1>3. ASSUME NEW b \in Pages, b # c, queue'[b] = queue[b], offered'[b] = offered[b],
             page'[b] = page[b], carried'[b] = carried[b], shown'[b] = shown[b]
      PROVE  PageInv(b)'
  BY <1>3, SamePage DEF HubInv, Same
<1>4. /\ PageInv(c) /\ shown[c] \in Seq(Events) /\ carried[c] \in Events \cup {NoEvent}
      /\ queue[c] \in Seq(Events) /\ offered[c] \in Seq(Events) /\ Front(c) \in Seq(Events)
  BY <1>1, FrontType DEF HubInv
<1>5. CASE Connect(c)
  <2>1. HubTypeOK(Events)' BY <1>1, <1>2, <1>5 DEF Connect, HubTypeOK
  <2>2. PageInv(c)'
    <3>1. page'[c] = "send" BY <1>2, <1>5 DEF Connect
    <3> QED BY <1>4, <1>5, <3>1 DEF Connect, PageInv, Remembers, Front
  <2>3. \A b \in Pages \ {c} : PageInv(b)' BY <1>2, <1>3, <1>5 DEF Connect
  <2> QED BY <2>1, <2>2, <2>3 DEF HubInv
<1>6. CASE Send(c)
  <2>1. shown' = [shown EXCEPT ![c] = Front(c)]
    BY <1>2, <1>6 DEF Send, Front
  <2>2. HubTypeOK(Events)' BY <1>1, <1>2, <1>4, <1>6, <2>1 DEF Send, HubTypeOK
  <2>3. PageInv(c)'
    <3>1. carried'[c] = NoEvent /\ shown'[c] = Front(c) BY <1>2, <1>6, <2>1 DEF Send
    <3>2. Front(c)' = Front(c) BY <3>1 DEF Front
    <3> QED BY <1>4, <1>6, <3>1, <3>2 DEF Send, PageInv, Remembers
  <2>4. \A b \in Pages \ {c} : PageInv(b)' BY <1>2, <1>3, <1>6, <2>1 DEF Send
  <2> QED BY <2>2, <2>3, <2>4 DEF HubInv
<1>7. CASE Take(c)
  <2>1. /\ Head(queue[c]) \in Events /\ Tail(queue[c]) \in Seq(Events)
        /\ Len(Tail(queue[c])) = Len(queue[c]) - 1 /\ Len(queue[c]) <= HubSize
        /\ Len(queue[c]) \in Nat
    BY <1>1, <1>4, <1>7, HeadTailProperties DEF Take, HubTypeOK
  <2>2. HubTypeOK(Events)'
    <3>1. \A b \in Pages : queue'[b] = IF b = c THEN Tail(queue[c]) ELSE queue[b]
      BY <1>2, <1>7 DEF Take
    <3>2. \A b \in Pages : queue'[b] \in Seq(Events) /\ Len(queue'[b]) <= HubSize
      <4>1. ASSUME NEW b \in Pages, b = c PROVE queue'[b] \in Seq(Events) /\ Len(queue'[b]) <= HubSize
        <5>1. queue'[c] = Tail(queue[c]) BY <3>1
        <5>2. HubSize \in Nat BY <1>2
        <5>3. Len(Tail(queue[c])) <= HubSize BY <2>1, <5>2
        <5> QED BY <2>1, <4>1, <5>1, <5>3
      <4>2. ASSUME NEW b \in Pages, b # c PROVE queue'[b] \in Seq(Events) /\ Len(queue'[b]) <= HubSize
        BY <1>2, <3>1, <4>2
      <4> QED BY <4>1, <4>2
    <3> QED BY <1>2, <1>7, <2>1, <3>2 DEF Take, HubTypeOK
  <2>3. PageInv(c)'
    <3>1. carried[c] = NoEvent /\ Front(c) = shown[c] BY <1>4, <1>7 DEF Take, PageInv, Front
    <3>2. /\ carried'[c] = Head(queue[c]) /\ queue'[c] = Tail(queue[c])
          /\ shown'[c] = shown[c] /\ page'[c] = "send" /\ offered'[c] = offered[c]
      BY <1>2, <1>7 DEF Take
    <3>3. Front(c)' = Append(Front(c), Head(queue[c]))
      BY <2>1, <3>1, <3>2, GatewayAssumption DEF Front
    <3>4. Follows(Front(c)', queue'[c], offered'[c])
      BY <1>4, <1>7, <3>2, <3>3, TakeFollows DEF Take, PageInv
    <3> QED BY <1>4, <3>2, <3>4 DEF PageInv, Remembers
  <2>4. \A b \in Pages \ {c} : PageInv(b)' BY <1>2, <1>3, <1>7 DEF Take
  <2> QED BY <2>2, <2>3, <2>4 DEF HubInv
<1>8. CASE Leave(c)
  <2>1. HubTypeOK(Events)' BY <1>1, <1>2, <1>8 DEF Leave, HubTypeOK
  <2>2. PageInv(c)'
    <3>1. page'[c] = "left" BY <1>2, <1>8 DEF Leave
    <3> QED BY <1>4, <1>8, <3>1 DEF Leave, PageInv, Remembers, Front
  <2>3. \A b \in Pages \ {c} : PageInv(b)' BY <1>2, <1>3, <1>8 DEF Leave
  <2> QED BY <2>1, <2>2, <2>3 DEF HubInv
<1>9. CASE Forget(c)
  <2>1. HubTypeOK(Events)' BY <1>1, <1>2, <1>9 DEF Forget, HubTypeOK
  <2>2. PageInv(c)'
    <3>1. Blank(c)' BY <1>2, <1>9 DEF Forget, Blank
    <3> QED BY <3>1, BlankPageAfter
  <2>3. \A b \in Pages \ {c} : PageInv(b)' BY <1>2, <1>3, <1>9 DEF Forget
  <2> QED BY <2>1, <2>2, <2>3 DEF HubInv
<1> QED BY <1>5, <1>6, <1>7, <1>8, <1>9 DEF PageStep, Close, Finalize

LEMMA RestartKeeps == HubRestart => ((HubTypeOK(Events) => HubTypeOK(Events)') /\ \A b \in Pages : Blank(b)')
<1> SUFFICES ASSUME HubRestart
             PROVE  (HubTypeOK(Events) => HubTypeOK(Events)') /\ \A b \in Pages : Blank(b)'
  OBVIOUS
<1>1. HubTypeOK(Events) => HubTypeOK(Events)' BY HubAssumption DEF HubRestart, HubTypeOK
<1>2. \A b \in Pages : Blank(b)' BY DEF HubRestart, Blank
<1> QED BY <1>1, <1>2

LEMMA PublishKeeps ==
    ASSUME HubInv, Remembers, NEW e \in Events, ~ Known(e), Known(e)', HubPublish(e)
    PROVE  HubInv'
<1>1. HubTypeOK(Events) /\ \A b \in Pages : PageInv(b) BY DEF HubInv
<1>2. /\ queue \in [Pages -> Seq(Events)] /\ offered \in [Pages -> Seq(Events)]
      /\ page' = page /\ carried' = carried /\ shown' = shown /\ visits' = visits
  BY <1>1 DEF HubTypeOK, HubPublish
<1>3. ASSUME NEW b \in Pages
      PROVE  PageInv(b)' /\ queue'[b] \in Seq(Events) /\ Len(queue'[b]) <= HubSize
                         /\ offered'[b] \in Seq(Events)
  <2>1. /\ Front(b) \in Seq(Events) /\ queue[b] \in Seq(Events) /\ offered[b] \in Seq(Events)
        /\ Len(queue[b]) <= HubSize
    BY <1>1, FrontType DEF HubTypeOK
  <2>2. CASE b \in Watching(e)
    <3>1. queue'[b] = Pushed(queue[b], e) /\ offered'[b] = Append(offered[b], e)
      BY <2>2 DEF HubPublish
    <3>2. \A i \in DOMAIN offered[b] : offered[b][i] # e BY <1>1 DEF PageInv
    <3>3. /\ Distinct(offered'[b]) /\ Follows(Front(b), queue'[b], offered'[b])
          /\ queue'[b] \in Seq(Events) /\ Len(queue'[b]) <= HubSize
      BY <1>1, <2>1, <3>1, <3>2, PushFollows DEF PageInv
    <3>4. ASSUME NEW i \in DOMAIN offered'[b] PROVE Known(offered[b][i])'
      <4>1. CASE i \in DOMAIN offered[b]
        <5>1. PICK d : d = offered[b][i] OBVIOUS
        <5>2. offered'[b][i] = d BY <2>1, <3>1, <4>1, <5>1
        <5>3. Known(d)' BY <1>1, <4>1, <5>1 DEF PageInv, Remembers
        <5> QED BY <5>2, <5>3 DEF Known
      <4>2. CASE i \notin DOMAIN offered[b]
        <5>1. offered'[b][i] = e BY <2>1, <3>1, <3>4, <4>2
        <5> QED BY <5>1 DEF Known
      <4> QED BY <4>1, <4>2
    <3>5. Front(b)' = Front(b) BY <1>2 DEF Front
    <3>6. offered'[b] \in Seq(Events) BY <2>1, <3>1
    <3>7. page'[b] = "get" => carried'[b] = NoEvent BY <1>1, <1>2 DEF PageInv
    <3>8. Follows(Front(b)', queue'[b], offered'[b]) BY <3>3, <3>5
    <3>9. PageInv(b)' BY <3>3, <3>4, <3>7, <3>8 DEF PageInv
    <3> QED BY <3>3, <3>6, <3>9
  <2>3. CASE b \notin Watching(e)
    <3>1. queue'[b] = queue[b] /\ offered'[b] = offered[b] BY <2>3 DEF HubPublish
    <3>2. Same(b) BY <1>2, <3>1 DEF Same
    <3>3. PageInv(b)' BY <1>1, <3>2, SamePage
    <3> QED BY <2>1, <3>1, <3>3
  <2> QED BY <2>2, <2>3
<1>4. HubTypeOK(Events)'
  <2>1. queue' \in [Pages -> Seq(Events)] /\ offered' \in [Pages -> Seq(Events)]
    <3>1. /\ queue' = [b \in Pages |-> queue'[b]] /\ offered' = [b \in Pages |-> offered'[b]]
      BY DEF HubPublish
    <3> QED BY <1>3, <3>1
  <2> QED BY <1>1, <1>2, <1>3, <2>1 DEF HubTypeOK
<1> QED BY <1>3, <1>4 DEF HubInv

-----------------------------------------------------------------------------
LEMMA HeardGrows == ASSUME BusInv, [Next]_vars PROVE Remembers
<1>1. TypeOK /\ StreamInv BY DEF BusInv, BaseInv
<1>2. /\ heard \in [Streams -> Seq(Events)] /\ owner \in [Streams -> Gateways \cup {None}]
      /\ opened \in 0..MaxStreams
  BY <1>1 DEF TypeOK
<1>3. \A s \in Streams : owner'[s] = owner[s] \/ owner[s] = None
  <2>1. ASSUME NEW g \in Gateways, Open(g) PROVE \A s \in Streams : owner'[s] = owner[s] \/ owner[s] = None
    <3>1. owner' = [owner EXCEPT ![opened + 1] = g] BY <2>1 DEF Open
    <3>2. opened + 1 > opened /\ opened + 1 \in Streams BY <1>2, <2>1, BusAssumption DEF Open, Streams
    <3>3. owner[opened + 1] = None BY <1>1, <3>2 DEF StreamInv
    <3> QED BY <1>2, <3>1, <3>3
  <2>2. (\E g \in Gateways : Open(g)) \/ owner' = owner
    BY DEF Next, Break, Learn, Worker, Subscribe, Get, Yield, Quit, Unsubscribe, Publish, Snapshot,
           Put, Return, streamVars, vars
  <2> QED BY <2>1, <2>2
<1>4. ASSUME NEW s \in Streams, NEW i \in DOMAIN heard[s]
      PROVE  i \in DOMAIN heard'[s] /\ heard'[s][i] = heard[s][i]
  <2>1. ASSUME NEW r \in Streams, Yield(r) PROVE i \in DOMAIN heard'[s] /\ heard'[s][i] = heard[s][i]
    <3>1. heard' = heard \/ heard' = [heard EXCEPT ![r] = Append(@, hand[r])] BY <2>1 DEF Yield
    <3>2. hand[r] \in Events BY <1>1, <2>1 DEF Yield, StreamInv
    <3>3. heard'[s] = heard[s] \/ heard'[s] = Append(heard[s], hand[r]) BY <1>2, <3>1
    <3> QED BY <1>2, <3>2, <3>3
  <2>2. (\E r \in Streams : Yield(r)) \/ heard' = heard
    BY DEF Next, Open, Break, Learn, Worker, Subscribe, Get, Quit, Unsubscribe, Publish, Snapshot,
           Put, Return, streamVars, vars
  <2> QED BY <2>1, <2>2
<1>5. Gateway \in Gateways /\ None \notin Gateways BY GatewayAssumption, BusAssumption
<1> QED BY <1>3, <1>4, <1>5 DEF Remembers, Known

LEMMA FirstPart ==
    ASSUME NEW v \in Seq(Events), NEW w \in Seq(Events), NEW i \in 1..Len(v)
    PROVE  i \in DOMAIN (v \o w) /\ (v \o w)[i] = v[i]
<1>1. /\ v \o w \in Seq(Events) /\ Len(v \o w) = Len(v) + Len(w)
      /\ \A j \in 1..(Len(v) + Len(w)) :
             (v \o w)[j] = IF j <= Len(v) THEN v[j] ELSE w[j - Len(v)]
  BY ConcatProperties
<1>2. Len(v) \in Nat /\ Len(w) \in Nat BY LenProperties
<1>3. i \in 1..(Len(v) + Len(w)) /\ i <= Len(v) BY <1>2
<1> QED BY <1>1, <1>3, LenProperties

\* An event that reaches the gateway is one it has not heard before.
LEMMA NewsIsNew ==
    ASSUME BusInv, NEW s \in Streams, Yield(s), link[Gateway] = s, NEW e, e = hand[s]
    PROVE  e \in Events /\ ~ Known(e) /\ Known(e)'
<1>1. BaseInv /\ SeenInv /\ TypeOK /\ StreamInv BY DEF BusInv, BaseInv
<1>2. Gateway \in Gateways /\ None \notin Gateways \cup Streams BY GatewayAssumption, BusAssumption
<1>3. owner[s] = Gateway /\ s \in live BY <1>1, <1>2 DEF StreamInv, live
<1>4. hand[s] \in Events /\ heard[s] \in Seq(Events) /\ backlog[s] \in Seq(Events)
  BY <1>1 DEF Yield, StreamInv, TypeOK
<1> DEFINE last == Len(heard[s]) + 1
<1>5. last \in DOMAIN seen[s] /\ seen[s][last] = hand[s]
  <2>1. seen[s] = heard[s] \o (<<hand[s]>> \o backlog[s]) BY <1>3 DEF Yield, seen, Rest
  <2>2. seen[s] = Append(heard[s], hand[s]) \o backlog[s] BY <1>4, <2>1, HandFirst
  <2>3. /\ Append(heard[s], hand[s]) \in Seq(Events) /\ Len(Append(heard[s], hand[s])) = last
        /\ Append(heard[s], hand[s])[last] = hand[s] /\ last \in Nat \ {0}
    BY <1>4
  <2> HIDE DEF last
  <2>4. last \in 1..Len(Append(heard[s], hand[s])) BY <2>3
  <2>5. PICK h \in Seq(Events) : h = Append(heard[s], hand[s]) BY <2>3
  <2>6. last \in 1..Len(h) BY <2>4, <2>5
  <2>7. last \in DOMAIN (h \o backlog[s]) /\ (h \o backlog[s])[last] = h[last]
    BY <1>4, <2>6, FirstPart
  <2> QED BY <2>2, <2>3, <2>5, <2>7
<1>6. ASSUME NEW r \in Streams, owner[r] = Gateway, NEW i \in DOMAIN heard[r], heard[r][i] = hand[s]
      PROVE  FALSE
  <2>1. heard[r] \in Seq(Events) /\ seen[r] \in Seq(Events) BY <1>1, SeenType DEF TypeOK
  <2>2. i \in DOMAIN seen[r] /\ seen[r][i] = hand[s]
    BY <1>1, <1>6, <2>1, HeardIsPrefix DEF Prefix
  <2>3. hand[s].n \in Nat BY <1>4, BusAssumption DEF Events
  <2>4. r <= s BY <1>1, <1>3, <1>6 DEF StreamInv
  <2>5. CASE r < s BY <1>1, <1>3, <1>5, <1>6, <2>2, <2>3, <2>5 DEF SeenInv, Across
  <2>6. CASE r = s
    <3>1. i < last BY <1>4, <1>6, <2>6
    <3> QED BY <1>1, <1>5, <2>2, <2>3, <2>6, <3>1 DEF SeenInv, Ordered
  <2> QED BY <2>4, <2>5, <2>6, BusAssumption DEF Streams
<1>7. Known(e)'
  <2>1. heard'[s] = Append(heard[s], hand[s]) /\ owner'[s] = Gateway
    BY <1>1, <1>3 DEF Yield, TypeOK, live
  <2>2. last \in DOMAIN heard'[s] /\ heard'[s][last] = e BY <1>4, <2>1
  <2> QED BY <2>1, <2>2 DEF Known
<1> QED BY <1>4, <1>6, <1>7 DEF Known

-----------------------------------------------------------------------------
LEMMA BusNext == [GatewayNext]_all => [Next]_vars
BY GatewayAssumption
   DEF GatewayNext, Deliver, BusStep, Restart, Browse, Next, Worker, all

LEMMA HubStays == ASSUME HubInv, Remembers, UNCHANGED hubVars PROVE HubInv'
<1>1. HubTypeOK(Events)' BY DEF HubInv, HubTypeOK, hubVars
<1>2. \A b \in Pages : Same(b) BY DEF Same, hubVars
<1> QED BY <1>1, <1>2, SamePage DEF HubInv

LEMMA StepHub == ASSUME GatewayInv, [GatewayNext]_all PROVE HubInv'
<1>1. BusInv /\ HubInv /\ [Next]_vars /\ Remembers BY BusNext, HeardGrows DEF GatewayInv
<1>2. CASE UNCHANGED hubVars BY <1>1, <1>2, HubStays
<1>3. ASSUME NEW s \in Streams, Yield(s), link[Gateway] = s, HubPublish(hand[s])
      PROVE  HubInv'
  <2>1. PICK e : e = hand[s] OBVIOUS
  <2>2. e \in Events /\ ~ Known(e) /\ Known(e)' BY <1>1, <1>3, <2>1, NewsIsNew
  <2>3. HubPublish(e) BY <1>3, <2>1
  <2> QED BY <1>1, <2>2, <2>3, PublishKeeps
<1>4. CASE Restart
  <2>1. HubRestart BY <1>4 DEF Restart
  <2> QED BY <1>1, <2>1, RestartKeeps, BlankPageAfter DEF HubInv
<1>5. CASE Browse BY <1>1, <1>5, PageKeeps DEF Browse
<1> QED BY <1>2, <1>3, <1>4, <1>5 DEF GatewayNext, Deliver, BusStep, all

LEMMA GatewayInduction == GatewaySafe => []GatewayInv
<1>1. GatewayInit => GatewayInv BY BusInduction, InitHub DEF GatewayInit, GatewayInv
<1>2. GatewayInv /\ [GatewayNext]_all => GatewayInv'
  <2>1. GatewayInv /\ [GatewayNext]_all => BusInv' BY BusNext, BusStepInv DEF GatewayInv
  <2>2. GatewayInv /\ [GatewayNext]_all => HubInv' BY StepHub
  <2>3. BusInv' /\ HubInv' => GatewayInv' BY DEF GatewayInv
  <2> QED BY <2>1, <2>2, <2>3
<1> QED BY <1>1, <1>2, PTL DEF GatewaySafe

LEMMA InvNewestKept == HubInv => NewestKept
<1> SUFFICES ASSUME HubInv, NEW b \in Pages
             PROVE  LET way == OnTheWay(b)
                        n == Len(offered[b])
                        Place(i) == CHOOSE j \in 1..n : offered[b][j] = way[i]
                    IN  /\ \A i \in DOMAIN way : \E j \in 1..n : offered[b][j] = way[i]
                        /\ \A i, j \in DOMAIN way : i < j => Place(i) < Place(j)
                        /\ \A j \in 1..n : j > n - HubSize =>
                               \E i \in DOMAIN way : way[i] = offered[b][j]
  BY DEF NewestKept
<1> DEFINE f == Front(b)
           q == queue[b]
           o == offered[b]
           way == f \o q
           n == Len(o)
           x == Len(f)
           m == Len(q)
<1>0. HubTypeOK(Events) /\ PageInv(b) /\ HubSize \in Nat \ {0} BY HubAssumption DEF HubInv
<1>1. /\ f \in Seq(Events) /\ q \in Seq(Events) /\ o \in Seq(Events)
      /\ shown[b] \in Seq(Events) /\ carried[b] \in Events \cup {NoEvent}
  BY <1>0, FrontType
<1>2. Distinct(o) /\ Follows(f, q, o) BY <1>0 DEF PageInv
<1>3. OnTheWay(b) = way
  <2>1. CASE carried[b] = NoEvent
    <3>1. shown[b] \o <<>> = shown[b] BY <1>1
    <3> QED BY <2>1, <3>1 DEF OnTheWay, Front
  <2>2. CASE carried[b] # NoEvent
    <3>1. Append(shown[b], carried[b]) = shown[b] \o <<carried[b]>> BY <1>1, <2>2, AppendIsConcat
    <3> QED BY <2>2, <3>1 DEF OnTheWay, Front
  <2> QED BY <2>1, <2>2
<1>4. /\ way \in Seq(Events) /\ Len(way) = x + m
      /\ \A i \in 1..(x + m) : way[i] = IF i <= x THEN f[i] ELSE q[i - x]
      /\ n \in Nat /\ x \in Nat /\ m \in Nat /\ m <= n /\ DOMAIN way = 1..(x + m)
      /\ DOMAIN f = 1..x /\ DOMAIN q = 1..m /\ DOMAIN o = 1..n
  BY <1>1, <1>2, ConcatProperties DEF Follows
<1> HIDE DEF way, n, x, m, f, q, o
\* Where an event that is on its way was offered.
<1>5. ASSUME NEW i \in 1..(x + m)
      PROVE  \E j \in 1..n : o[j] = way[i] /\ (i > x <=> j > n - m) /\ (i > x => j = n - m + i - x)
  <2>1. CASE i <= x
    <3>1. way[i] = f[i] /\ i \in DOMAIN f BY <1>4, <2>1
    <3>2. PICK k \in 1..(n - m) : o[k] = f[i] BY <1>2, <3>1 DEF Follows, n, m
    <3>3. k \in 1..n /\ ~ (k > n - m) /\ ~ (i > x) BY <1>4, <2>1
    <3> QED BY <3>1, <3>2, <3>3
  <2>2. CASE i > x
    <3>1. way[i] = q[i - x] /\ i - x \in 1..m BY <1>4, <2>2
    <3>2. q[i - x] = o[n - m + (i - x)] BY <1>2, <3>1 DEF Follows, n, m
    <3>3. n - m + (i - x) = n - m + i - x /\ n - m + i - x \in 1..n /\ n - m + i - x > n - m
      BY <1>4, <2>2, <3>1
    <3> QED BY <2>2, <3>1, <3>2, <3>3
  <2> QED BY <1>4, <2>1, <2>2
<1>6. ASSUME NEW i \in 1..(x + m), NEW j \in 1..(x + m), i < j, NEW k \in 1..n, NEW l \in 1..n,
             o[k] = way[i], o[l] = way[j]
      PROVE  k < l
  <2>1. PICK s \in 1..n : o[s] = way[i] /\ (i > x <=> s > n - m) /\ (i > x => s = n - m + i - x)
    BY <1>5
  <2>2. PICK t \in 1..n : o[t] = way[j] /\ (j > x <=> t > n - m) /\ (j > x => t = n - m + j - x)
    BY <1>5
  <2>3. s = k /\ t = l BY <1>2, <1>4, <1>6, <2>1, <2>2 DEF Distinct
  <2>4. CASE j <= x
    <3>1. i \in DOMAIN f /\ j \in DOMAIN f /\ way[i] = f[i] /\ way[j] = f[j] BY <1>4, <1>6, <2>4
    <3>2. k \in DOMAIN o /\ l \in DOMAIN o BY <1>4
    <3> QED BY <1>2, <1>6, <3>1, <3>2 DEF Follows
  <2>5. CASE j > x /\ i <= x BY <1>4, <2>1, <2>2, <2>3, <2>5
  <2>6. CASE i > x BY <1>4, <1>6, <2>1, <2>2, <2>3, <2>6
  <2> QED BY <1>4, <2>4, <2>5, <2>6
<1>7. ASSUME NEW j \in 1..n, j > n - HubSize PROVE \E i \in DOMAIN way : way[i] = o[j]
  <2>1. CASE j \in 1..(n - m)
    <3>1. PICK i \in DOMAIN f : f[i] = o[j] BY <1>2, <1>7, <2>1 DEF Follows, n, m
    <3>2. i \in 1..(x + m) /\ i <= x BY <1>4
    <3> QED BY <1>4, <3>1, <3>2
  <2>2. CASE j > n - m
    <3>1. PICK i : i = j - (n - m) OBVIOUS
    <3>2. i \in 1..m /\ n - m + i = j BY <1>4, <2>2, <3>1
    <3>3. q[i] = o[j] BY <1>2, <3>2 DEF Follows, n, m
    <3>4. x + i \in 1..(x + m) /\ ~ (x + i <= x) /\ (x + i) - x = i BY <1>4, <3>2
    <3>5. way[x + i] = q[i] BY <1>4, <3>4
    <3> QED BY <1>4, <3>3, <3>4, <3>5
  <2> QED BY <1>4, <2>1, <2>2
<1> DEFINE Place(i) == CHOOSE j \in 1..n : o[j] = way[i]
<1>8. \A i \in DOMAIN way : \E j \in 1..n : o[j] = way[i] BY <1>4, <1>5
<1>9. \A i \in DOMAIN way : Place(i) \in 1..n /\ o[Place(i)] = way[i] BY <1>8
<1>10. \A i, j \in DOMAIN way : i < j => Place(i) < Place(j)
  <2> HIDE DEF Place
  <2> QED BY <1>4, <1>6, <1>9
<1> QED BY <1>3, <1>7, <1>8, <1>10 DEF o, n

\* The pages keep their types with the bus, for any number of either and any HubSize.
THEOREM GatewayTypeCorrect == GatewaySafe => []GatewayTypeOK
<1>1. GatewayInv => GatewayTypeOK BY DEF GatewayInv, BusInv, BaseInv, HubInv, GatewayTypeOK
<1> QED BY <1>1, GatewayInduction, PTL

\* A browser that falls behind loses events, but neither their order nor the newest:
\* what a page was sent and has on its way ends with the last HubSize events published
\* for it.  It rests on the bus: that no event reaches the gateway twice.
THEOREM NewestReachesPage == GatewaySafe => []NewestKept
<1>1. GatewayInv => NewestKept BY InvNewestKept DEF GatewayInv
<1> QED BY <1>1, GatewayInduction, PTL

-----------------------------------------------------------------------------
\* The gateway with its pages does with the bus only what the bus allows: what is proved
\* of the bus alone holds of it when its events are handed to pages as they are read and
\* the gateway restarts.
THEOREM BusImplemented == GatewaySafe => Spec
<1>1. GatewayInit => Init BY DEF GatewayInit
<1> QED BY <1>1, BusNext, PTL DEF GatewaySafe, Spec

\* No half task, nothing twice and nothing out of order in what a gateway publishes to
\* its pages, restarts included.
THEOREM GatewayHearsInOrder == GatewaySafe => []HeardWithoutGap /\ []HeardOnce
BY BusImplemented, NoGapInTask, NothingTwice, PTL
=============================================================================
