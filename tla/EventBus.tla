------------------------------ MODULE EventBus ------------------------------
(***************************************************************************)
(* The way of an event from a task to a gateway.                           *)
(*   task-scheduler-service/app/event_bus.py: EventBus, its registry of    *)
(*     subscriptions by subscriber_id, each with a bounded queue;          *)
(*   task-scheduler-service/app/server.py: SubscribeEvents, a generator    *)
(*     that occupies one worker of the gRPC pool for as long as it lives;  *)
(*   gateway-backend-service/scheduler_client.py: subscribe_events, which  *)
(*     opens a stream and, when it breaks, another one.                    *)
(*                                                                         *)
(* Threads: one publisher per running task (run_task publishes a task's    *)
(* events one after the other), one worker per stream.  A step is one      *)
(* critical section of EventBus._lock or one queue operation.  A gateway   *)
(* that goes away does so without the worker noticing: q.get() has no      *)
(* timeout, and the context is looked at only with an event in hand.       *)
(***************************************************************************)
EXTENDS Integers, Sequences, FiniteSets

CONSTANTS
    Gateways,     \* gateway processes, each with its own subscriber_id
    Publishers,   \* the threads of run_task, one per task
    ChannelOf,    \* publisher -> channel of its task
    ChannelsOf,   \* gateway -> channels it subscribes to
    None,         \* no stream; no event
    Anonymous,    \* the gateways send no subscriber_id: server.py makes one up
    QueueSize,    \* 500
    Workers,      \* workers left for streams, of the 32 of the pool
    MaxStreams,   \* bound: streams opened in a behaviour
    MaxEvents     \* bound: events a task publishes

Streams == 1..MaxStreams

ASSUME BusAssumption ==
    /\ {QueueSize, Workers, MaxStreams, MaxEvents} \subseteq Nat \ {0}
    /\ Anonymous \in BOOLEAN
    /\ None \notin Gateways \cup Streams
    /\ Gateways \cap Streams = {}
    /\ DOMAIN ChannelOf = Publishers
    /\ DOMAIN ChannelsOf = Gateways

VARIABLES
    registry,   \* _subscribers: id -> the stream whose queue is registered
    backlog,    \* the queue of a stream
    gen,        \* where the generator of a stream is
    hand,       \* the event it has taken from its queue
    owner,      \* the gateway that opened the stream
    gone,       \* streams the server knows to be cancelled
    opened,     \* streams opened so far
    link,       \* the stream a gateway reads
    published,  \* events a publisher has begun to publish
    targets,    \* what is left of its snapshot `items'
    dead,       \* ids whose queue it found full
    publishing, \* it is in publish()
    heard       \* events the gateway got over a stream

streamVars == <<gen, hand, owner, gone, opened, link, heard>>
publishVars == <<published, targets, dead, publishing>>
vars == <<registry, backlog, gen, hand, owner, gone, opened, link, published, targets, dead,
          publishing, heard>>

Ids == Gateways \cup Streams

\* The event_id: the n-th event of a task.
Events == [task : Publishers, n : 1..MaxEvents]

\* Mutant: no id is made up.
OwnersId(s) == owner[s]

\* request.subscriber_id or f"subscriber-{uuid}"
Id(s) == IF Anonymous THEN s ELSE owner[s]

Init ==
    /\ registry = [i \in Ids |-> None]
    /\ backlog = [s \in Streams |-> <<>>]
    /\ gen = [s \in Streams |-> "unused"]
    /\ hand = [s \in Streams |-> None]
    /\ owner = [s \in Streams |-> None]
    /\ gone = {}
    /\ opened = 0
    /\ link = [g \in Gateways |-> None]
    /\ published = [p \in Publishers |-> 0]
    /\ targets = [p \in Publishers |-> {}]
    /\ dead = [p \in Publishers |-> {}]
    /\ publishing = {}
    /\ heard = [s \in Streams |-> <<>>]

-----------------------------------------------------------------------------
(* The gateway: subscribe_events.                                          *)

\* It calls SubscribeEvents: at start, and again after a stream broke.
Open(g) ==
    /\ link[g] = None
    /\ opened < MaxStreams
    /\ opened' = opened + 1
    /\ link' = [link EXCEPT ![g] = opened + 1]
    /\ owner' = [owner EXCEPT ![opened + 1] = g]
    /\ gen' = [gen EXCEPT ![opened + 1] = "queued"]
    /\ UNCHANGED <<registry, backlog, hand, gone, heard, publishVars>>

\* The connection breaks, or the gateway restarts.
Break(g) ==
    /\ link[g] # None
    /\ link' = [link EXCEPT ![g] = None]
    /\ UNCHANGED <<registry, backlog, gen, hand, owner, gone, opened, heard, publishVars>>

\* The server learns that a stream was cancelled.
Learn(s) ==
    /\ owner[s] # None
    /\ link[owner[s]] # s
    /\ s \notin gone
    /\ gone' = gone \cup {s}
    /\ UNCHANGED <<registry, backlog, gen, hand, owner, opened, link, heard, publishVars>>

-----------------------------------------------------------------------------
(* The worker of a stream: SubscribeEvents and the generator it reads.     *)

Occupied == {s \in Streams : gen[s] \in {"wait", "yield", "close"}}

\* A worker takes the oldest call (the gateway lets two seconds pass before the next)
\* and registers a new queue, in the place of any other that has the id.
Subscribe(s) ==
    /\ gen[s] = "queued"
    /\ \A r \in 1..(s - 1) : gen[r] # "queued"
    /\ Cardinality(Occupied) < Workers
    /\ registry' = [registry EXCEPT ![Id(s)] = s]
    /\ gen' = [gen EXCEPT ![s] = "wait"]
    /\ UNCHANGED <<backlog, hand, owner, gone, opened, link, heard, publishVars>>

Get(s) ==
    /\ gen[s] = "wait"
    /\ backlog[s] # <<>>
    /\ hand' = [hand EXCEPT ![s] = Head(backlog[s])]
    /\ backlog' = [backlog EXCEPT ![s] = Tail(@)]
    /\ gen' = [gen EXCEPT ![s] = "yield"]
    /\ UNCHANGED <<registry, owner, gone, opened, link, heard, publishVars>>

\* Mutant: the context is never looked at.
AlwaysActive(s) == TRUE

\* Mutant: the answer is taken the wrong way round.
ActiveIfGone(s) == s \in gone

\* context.is_active()
Active(s) == s \notin gone

\* The event is sent; nobody reads it if the gateway has just left.
Yield(s) ==
    /\ gen[s] = "yield"
    /\ Active(s)
    /\ heard' = IF link[owner[s]] = s THEN [heard EXCEPT ![s] = Append(@, hand[s])] ELSE heard
    /\ hand' = [hand EXCEPT ![s] = None]
    /\ gen' = [gen EXCEPT ![s] = "wait"]
    /\ UNCHANGED <<registry, backlog, owner, gone, opened, link, publishVars>>

\* `break': the event in hand is dropped and the generator closed.
Quit(s) ==
    /\ gen[s] = "yield"
    /\ ~ Active(s)
    /\ hand' = [hand EXCEPT ![s] = None]
    /\ gen' = [gen EXCEPT ![s] = "close"]
    /\ UNCHANGED <<registry, backlog, owner, gone, opened, link, heard, publishVars>>

\* `finally': whatever is registered under the id is removed.
Unsubscribe(s) ==
    /\ gen[s] = "close"
    /\ registry' = [registry EXCEPT ![Id(s)] = None]
    /\ gen' = [gen EXCEPT ![s] = "ended"]
    /\ UNCHANGED <<backlog, hand, owner, gone, opened, link, heard, publishVars>>

-----------------------------------------------------------------------------
(* EventBus.publish, called by the thread of a task.                       *)

\* Mutant: the last event is published once more.
SameEvent(p) == IF published[p] = 0 THEN 1 ELSE published[p]

NextEvent(p) == published[p] + 1

Snapshot(p) ==
    /\ p \notin publishing
    /\ published[p] < MaxEvents
    /\ published' = [published EXCEPT ![p] = NextEvent(p)]
    /\ targets' = [targets EXCEPT ![p] = {registry[i] : i \in Ids} \ {None}]
    /\ publishing' = publishing \cup {p}
    /\ UNCHANGED <<registry, backlog, dead, streamVars>>

Wanted(p, s) == ChannelsOf[owner[s]] = {} \/ ChannelOf[p] \in ChannelsOf[owner[s]]

\* put_nowait() into one queue of the snapshot.
Put(p) ==
    \E s \in targets[p] :
        /\ targets' = [targets EXCEPT ![p] = @ \ {s}]
        /\ IF Wanted(p, s) /\ Len(backlog[s]) < QueueSize
           THEN backlog' = [backlog EXCEPT ![s] = Append(@, [task |-> p, n |-> published[p]])]
           ELSE UNCHANGED backlog
        /\ IF Wanted(p, s) /\ Len(backlog[s]) >= QueueSize
           THEN dead' = [dead EXCEPT ![p] = @ \cup {Id(s)}]
           ELSE UNCHANGED dead
        /\ UNCHANGED <<registry, published, publishing, streamVars>>

\* Mutant: a subscriber that missed an event stays registered.
KeepAll(p) == registry

\* Mutant: the entries of the dictionary become undefined.
Undefined(p) == [i \in Ids \ dead[p] |-> registry[i]]

\* The subscribers that missed the event are removed, by id.
Survivors(p) == [i \in Ids |-> IF i \in dead[p] THEN None ELSE registry[i]]

Return(p) ==
    /\ p \in publishing
    /\ targets[p] = {}
    /\ registry' = Survivors(p)
    /\ dead' = [dead EXCEPT ![p] = {}]
    /\ publishing' = publishing \ {p}
    /\ UNCHANGED <<backlog, published, targets, streamVars>>

-----------------------------------------------------------------------------
Worker(s) == Subscribe(s) \/ Get(s) \/ Yield(s) \/ Quit(s) \/ Unsubscribe(s)

Publish(p) == Snapshot(p) \/ Put(p) \/ Return(p)

Next ==
    \/ \E g \in Gateways : Open(g) \/ Break(g)
    \/ \E s \in Streams : Learn(s) \/ Worker(s)
    \/ \E p \in Publishers : Publish(p)

Spec == Init /\ [][Next]_vars

\* The workers and the threads of the tasks keep running; no connection has to
\* break and no task to publish.
Fairness ==
    /\ \A s \in Streams : WF_vars(Worker(s))
    /\ \A p \in Publishers : WF_vars(Put(p) \/ Return(p))

-----------------------------------------------------------------------------
TypeOK ==
    /\ registry \in [Ids -> Streams \cup {None}]
    /\ backlog \in [Streams -> Seq(Events)]
    /\ gen \in [Streams -> {"unused", "queued", "wait", "yield", "close", "ended"}]
    /\ hand \in [Streams -> Events \cup {None}]
    /\ owner \in [Streams -> Gateways \cup {None}]
    /\ gone \subseteq Streams
    /\ opened \in 0..MaxStreams
    /\ link \in [Gateways -> Streams \cup {None}]
    /\ published \in [Publishers -> 0..MaxEvents]
    /\ targets \in [Publishers -> SUBSET Streams]
    /\ dead \in [Publishers -> SUBSET Ids]
    /\ publishing \subseteq Publishers
    /\ heard \in [Streams -> Seq(Events)]

\* A gateway never hears half a task: what it hears of one task over one stream is a
\* run of consecutive events in their order, although a full queue takes room again
\* before the subscriber is removed and other publishers hold older snapshots.
HeardWithoutGap ==
    \A s \in Streams : \A i, j \in DOMAIN heard[s] :
        /\ i < j /\ heard[s][i].task = heard[s][j].task => heard[s][i].n < heard[s][j].n
        /\ \A n \in heard[s][i].n..heard[s][j].n :
               heard[s][i].task = heard[s][j].task =>
                   \E k \in i..j : heard[s][k] = [task |-> heard[s][i].task, n |-> n]

\* Over all the streams it opens one after the other a gateway hears every event at
\* most once and those of a task in their order: reconnecting repeats nothing.
HeardOnce ==
    \A r, s \in Streams : r < s /\ owner[r] = owner[s] =>
        \A i \in DOMAIN heard[r], j \in DOMAIN heard[s] :
            heard[r][i].task = heard[s][j].task => heard[r][i].n < heard[s][j].n

\* The task-scheduler publishes to the gateways that are subscribed (README.md:11 of
\* the service): the queue of a stream that a gateway reads is registered, as long as no
\* queue has been full.
SubscriberListens ==
    \A g \in Gateways : link[g] # None /\ gen[link[g]] \in {"wait", "yield"} =>
        registry[Id(link[g])] = link[g]

\* A worker whose stream is cancelled comes back to the pool if an event is still in
\* its queue: q.get() (21) is the only place where it may wait for ever.
WorkerReturns == \A s \in Streams : s \in gone /\ backlog[s] # <<>> ~> gen[s] = "ended"

\* What is in the queue of a stream that is read gets read.
BacklogIsHeard ==
    \A s \in Streams : \A e \in Events :
        (\E i \in DOMAIN backlog[s] : backlog[s][i] = e) ~>
            \/ \E i \in DOMAIN heard[s] : heard[s][i] = e
            \/ owner[s] # None /\ link[owner[s]] # s
=============================================================================
