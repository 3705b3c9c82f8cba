# TLA+ models of My_Agent_MSA

My_Agent_MSA is a chat agent that was split from a monolith into gRPC services. This
directory holds TLA+ models of the services' own logic, TLC configurations that check them
on small instances, and TLAPS proofs of the properties that matter most, for every value of
the constants.

Paths below are relative to `src/`. In this file `scheduler.py:245` is line 245 of
`task-scheduler-service/app/scheduler.py`; the other services' files are named likewise.

## 1. The system

```
browser --HTTP--> gateway-backend --CreateTask--> task-scheduler --ExecuteTask--> agent-orchestrator
   ^                  |   ^                         |      ^                        |      |     |
   +----SSE-----------+   +----SubscribeEvents------+      +----stream of events----+   model  context  tools
```

| component | state it keeps | operations | interacts through | what is hard |
|---|---|---|---|---|
| **scheduler core** `scheduler.py`, `orchestrator_client.py`, `scheduled_task.py`, `server.py` | a queue per user, batch slots, busy users, a counter, the index of idempotency keys; five locks | `submit_task` (a gRPC worker each), `slot_scheduler` (one thread), `run_task` (a thread per task) | shared memory under several locks; the stream of `ExecuteTask`; the event bus | checks and acts in different critical sections of different locks; failures between them; a lock taken twice |
| **event bus** `event_bus.py`, `server.py` `SubscribeEvents` | subscriptions by id, a bounded queue each | `publish` (threads of tasks), `subscribe` (a generator per stream) | queues; the pool of gRPC workers | snapshots, overflow, removal by id, streams whose reader is gone |
| **gateway event consumer** `scheduler_client.py`, `app.py` | the one stream it reads | subscribe, reconnect | gRPC stream; SSE hub | reconnection under a fixed id |
| **agent runtime** `agent_runtime.py`, `task_runtime.py`, `response_parser.py`, `server.py` | a task's stack of callers, its output, its status; the default agent of each session | `process_task`, `send`, `call_agent`, `_run_tool` | calls of model, context and tool services | recursion, exceptions caught at three levels, a stack driven by what a model writes |
| **syntax parser** `syntax_parser.py` | none | `parse_syntax` | called by `send` | priorities between directives |
| **agent cache** `agent_runtime.py` `get_agent` | an LRU of 20 agents | lookup, insertion, eviction | shared by 16 gRPC workers without a lock | check-then-act |
| **timer tasks** `timer_task.py` | one JSON file per task, the scan interval | add, list, delete, scan, execute | files; `submit_task` | execute-then-remove, deletion during a scan, restarts |
| **SSE hub** `sse_hub.py` | a set of bounded queues per user | subscribe, publish, unsubscribe | asyncio | overflow drops the oldest event |
| **model proxy** `provider_client.py`, `model_profiles.py`, `server.py` | none; a list of models in a file | one completion, two attempts | HTTP; `model_proxy_client.py` | retries against the caller's deadline, a list replaced between calls |
| **context store** `viking_store.py`, `server.py` | its mode; sessions in the external OpenViking server | search, append a turn, commit | HTTP; `context_client.py` | several writes, none of them undone, of tasks that overlap |
| **tool runtime** `skill_runtime.py`, `workspace.py` | skills as folders and as entries of OpenViking | install, add, delete, list, run; files of a user | ssh, files, HTTP | two stores that must agree, commands that outlive their caller |
| **agent configuration** `agent_config.py` | none | merge of a default and a user's configuration | file | - |
| **gateway HTTP handlers, frontend, deployment, legacy code** | none of their own | - | - | not modelled, see section 7 |

What makes each correct: a user's tasks run one at a time and in order, each once, within
the capacity, and end (scheduler); a gateway hears the events of a task in order, once and
without gaps, as long as it is connected (bus, consumer, hub); a task is answered exactly
once and ends (runtime); two stores agree after every failure (tools, context); a timer
fires once unless it was deleted (timers); a model is found and the answer of a request that
somebody still waits for is the one that is used (proxy); the cache stays near its limit.

## 2. Plan

The order is that of importance: who runs what and when, how its events travel, what a task
does, and then the services at the leaves.

| # | module | models | state |
|---|---|---|---|
| 1 | `TaskService` | what the scheduler promises, without locks and threads | done |
| 2 | `Scheduler`, `MCScheduler`, `SchedulerProofs` | scheduler core; implements `TaskService` | done, eleven theorems |
| 3 | `EventBus`, `MCEventBus` | event bus, streams, reconnecting gateway | done, three theorems |
| 4 | `AgentRuntime`, `MCAgentRuntime`, `AgentRuntimeProofs` | agent runtime and the decision table of the parser | done, five theorems |
| 5 | `SseHub`; `GatewayEvents` composes it with `EventBus`; `MCGatewayEvents`, `GatewayEventsProofs` | delivery from a task to a browser | done, four theorems of the composition |
| 6 | `TimerTask`, `MCTimerTask`, `TimerTaskProofs` | scan, add, delete, restart | done, five theorems |
| 7 | `TaskKeys`, `AgentCache`, `ContextStore`, `ModelProxy`; `Session`, `MCSession` composes the three; `ContextStoreProofs`, `ModelProxyProofs`, `SessionProofs` | what the workers of the orchestrator share, with the deadline of the scheduler against workers that go on | done, twelve theorems |
| 8 | `SkillRuntime`, `MCSkillRuntime`, `SkillRuntimeProofs` | folder and knowledge base of a skill | done, three theorems |

Every safety property the passing runs check is stated by a theorem; liveness is left to the
runs (section 6). Worth adding: an abstract specification of what a page is shown, as
`TaskService` is one of what the scheduler promises, and `GatewayEvents` shown to implement it.

## 3. The modules and the code

### Scheduler and TaskService

`Scheduler.tla` has one variable per shared object of `scheduler.py` (`queues` and
`userOrder` for `USER_QUEUES`, `slots` for `BATCH_SLOTS`, `busy`, `processed`, `index` for
`IDEMPOTENCY_INDEX`) and one program counter per thread: `sub[t]` for the gRPC worker that
serves the request of task t, `dpc` with the locals `todo`, `dslot`, `dtask` for the
dispatcher, `run[t]` with `outcome` for the thread of a running task. A step is what a thread
does between two points where another thread may be seen. Critical sections that call nothing
are one step and their locks need no variable; `USER_LOCK` and `IDEMPOTENCY_LOCK` do, because
`submit_task` calls `waiting_count()`, which takes `USER_LOCK`, while it holds one of them.

| thread | actions, in the order of the code |
|---|---|
| `submit_task` 218-260 | `SubmitReserveKey` or `SubmitFindKey` (idempotency), `SubmitDuplicate`, `SubmitPut` or `SubmitFull` (queue), `SubmitAnnounce` |
| `slot_scheduler` 97-163 | `DispatchIdle` or `DispatchScan`, `DispatchPick`, `DispatchCheckBusy`, `DispatchClaimSlot`, `DispatchTake`, `DispatchMarkBusy`, `DispatchStart` or `DispatchStartFails` or `DispatcherDies`, `DispatchEndPass` |
| `run_task` 169-212 | `RunStart` or `RunStartFails`, `StreamStarted`, `StreamProgress`, `StreamTerminal`, `StreamEnds` or `StreamBreaks` or `StreamRaises`, `RunFreeSlot`, `RunFreeUser`, `RunUncount`, `RunSynthesize` |

What `run_task` publishes is kept twice as a history: `log[t]` has the types of a task's events,
`turns[u]` the tasks of a user in the order their events were published. The first event of the
stream is a `task_started` of the orchestrator's own (agent_runtime.py:196), so `StreamStarted`
is a second one after the scheduler's.

`TaskService` is the promise: `Accept`, `Begin` (oldest task of a user who has none running,
within the capacity) and `Finish`. `Scheduler` implements it (`ImplementsTaskService`): a task
in the dispatcher's hands is still pending, one that has left `BUSY_USERS` is finished.

### EventBus

Streams are numbered in the order they are opened. `registry` is `_subscribers`, `backlog`
the queue of each stream, `gen` and `hand` the place and the local of the generator,
`targets` and `dead` the locals of each publisher, `link` the stream a gateway reads and
`gone` what the server knows of broken streams. `Anonymous` tells whether the gateways send
an id of their own (the deployed one does) or let the server make one up for each stream.
`heard` is a history. `Subscribe` takes calls in the order they were made: the
gateway waits two seconds before it calls again.

### AgentRuntime

One session whose tasks run one after the other. `stack`, `out`, `status` and `sendText` are
the fields of `TaskRuntime`; `agent`, `depth` and `top` say whose `send` runs, how deep it is
nested, and who catches its exceptions; `default` is the session's entry of `default_agent`.
A reply of the model is a record of the directives it contains; `ToolLine`, `RunsTool`,
`Switches`, `Callee` and `Asks` are the decision table of `parse_syntax`, and each branch of
`send` is an action. A text is a kind and the number of the model call it stems from, enough
to say which text was shown, handed on or stored. `depth` stands for Python's recursion: the
step limit counts only what is popped from the stack, so nothing else bounds nested calls.
`get_agent` reads the agent's configuration and may raise for any name: `FirstCallFails` and
`ReplyCallFails`. Exceptions deep in a `send` that can only come from a broken installation
are merged into `SendRaises`.

### SseHub and GatewayEvents

`SseHub` has the queue of each page (`_queues`), where the generator of the page is (`page`:
it sends, it waits for its queue, or it was left by its browser and waits for its finalizer)
and the event it is sending. The gateway is one event loop, so what a coroutine does between
two suspensions is one step: `publish` suspends nowhere and is `HubPublish`, which drops the
oldest event of a full queue (`Pushed`). A browser that does not keep up holds its generator
in `Send`. `shown` and `offered` are histories of one opening of the page.

`GatewayEvents` joins it to `EventBus` where the code does: `scheduler_event_consumer`
publishes an event before it reads the next (`Deliver`, the bus' `Yield` with `HubPublish`),
and a gateway that restarts loses its stream and its pages (`Restart`).

### TimerTask

`file` is the directory: a file is opened and then written (`Opens`, `Writes`), so a scan can
meet one that is `partial`. `needFast`, `lastAdd` and `interval` are `NEED_FAST_SCAN`,
`LAST_TASK_ADD_TIME` and `scan_interval`; `scan`, `todo`, `cur` and `wake` place the thread of
`timer_scan_loop` between listing, reading, executing, removing and sleeping; `add` and `del`
place the callers of `add_timer_task` and `delete_user_task`. What happens in `Execute` is
`submit_task` or a message to the user, which may raise (the file stays) or never return
(`ExecuteHangs`: `submit_task` waits for a lock its own thread holds, see
`scheduler_queue_full`). Only files survive `Restart`. `has_nearby_task` lists the directory
(`StartScan`) and then opens one file after the other (`CheckNearby`), so that a file can be
deleted or begun in between; `blind` notes that it gave up at one. The search of a deletion is
one step. `add_timer_task` has no caller in
the repository and the scan is switched off in the deployment; the module models what runs
once it is switched on.

### Session: AgentCache, ContextStore, ModelProxy

`Session` is what the sixteen workers of the orchestrator (`MaxWorkers`) share. `first_call` is
three steps: a task reads the default agent of its session (`StartTask`), writes it back
(`KeepDefault`) and asks the cache for it (`FirstCall`). Then it searches the context, calls the
model once, may switch the default agent (`Switch`) or call further agents (`CallAgent`), stores
its turn, or ends without. The scheduler starts the next task of a session when it has
done with the one before: that may have ended, or its RPC may have passed its deadline while
the worker goes on (`GiveUp`). The decisions between these calls are the subject of
`AgentRuntime`.

- `AgentCache`: `get_agent`. Each access to the ordered dictionary is a step (`LookUp`,
  `Touch` and `Fetch`, or `PickOldest` and `DeleteOldest`, then `Insert`), because nothing
  locks it. A worker comes back to `LookUp` for every agent that is called, any number of times;
  no more than `MaxWorkers` are in `get_agent` at once.
- `ContextStore`: `append_turn` is the calls of OpenViking it consists of: a message each, a
  count and perhaps a commit, any of which may fail. `client` is what the orchestrator's client
  made of it, `"late"` if it did not wait; the handler goes on. A store whose ping fails at
  start is in another mode until it restarts (`Modes`, `StoreRestart`). A message is its turn
  and its place in the turn. `_add_message_compat` tries signatures one after the other and is
  modelled as storing once.
- `ModelProxy`: `Resolve` is `get_profile` over the three formats of the list (models with
  aliases, profiles, agents at the top level), read anew at every call. `clock` is how long the
  client has waited, `begun` when the current of the two requests was sent. The handler is not
  followed after its client gave up: its answer reaches nobody.

### SkillRuntime

One skill. `folder` and `entry` are the version installed in `SKILL_ROOT_DIR` and the version
under `viking://agent/skills/`. Each worker's call (`install`, `add`, `delete`, `run`,
`overview`) goes through the ssh command, the folder and the knowledge base in the code's order
(`at`). A command at work takes the folder apart (`CommandWrites`; `Torn` is a folder without its
SKILL.md), and one that fails leaves anything between what was there and what it was to do
(`Outcomes`). A worker that gives up its ssh command (`ClawhubTimesOut`) or whose ssh client
loses its connection (`ClawhubFails`, after which the call goes on) leaves the command running at
the other end (`astray`, `StrayEnds`); a request to the knowledge base that failed for its worker
may still be carried out (`late`, `LateLands`). A failing `rm` of the entry is swallowed (`kept`).
Two variables are histories: `made` is what the command of an installation left, and `sound`
whether changes of the skill have met, a removal was swallowed or the command of an installation
failed, since a change last had the skill to itself (`alone`) and came through. Modelled is the deployed mode, in which
clawhub runs on an external machine.

## 4. Runs

| run | configuration | what it shows |
|---|---|---|
| `scheduler_safety` | two users, four requests (one message sent twice), two slots, queues that never fill | one task per user at a time (`OneTaskPerUser`), claims never come up empty (`ClaimSucceeds`), one task per key (`KeyAcceptedOnce`), and `ImplementsTaskService` |
| `scheduler_hostile` | three requests, queues of one, one task whose stream may break or raise, up to two failures of threads or of the log file | `SlotsAccounted`, `CapacityRespected`, `EnqueuedOnce`, `EventsWellFormed`, `VerdictIsLastEvent` survive all of it |
| `scheduler_liveness` | three requests, one failure, fairness | every submission returns (`EverySubmitReturns`), the task an answer names ends (`AnsweredTaskEnds`) unless a thread of its user died |
| `scheduler_queue_full` | a queue of one that does fill | **violated**: `submit_task` deadlocks instead of answering `queue_full` |
| `bus` | one task of three events, the gateway with its fixed id, three streams for two workers, queues of one, a page with a queue of one, fairness | `HeardWithoutGap`, `HeardOnce`: whatever is lost, no task is heard with a gap, twice or out of order; `NewestKept`: a page loses the oldest events only; `WorkerReturns`, `BacklogIsHeard` |
| `bus_reconnect` | the fixed id, queues that never fill | **violated**: after a reconnection the old stream removes the new one's subscription |
| `agent_runtime` | two tasks, two agents and an unknown name, seventeen kinds of reply, three steps, one nested call, fairness | `AnsweredOnce`, `StackRooted`, `OutputKept`, `SilenceAfterAnswer`, `TaskEnds` |
| `agent_question` | one task | **violated**: a question asked after an output was handed on is not what is stored |
| `agent_failure` | one task | **violated**: a task whose model cannot be reached is completed |
| `timer` | two timers, a scan that is fast or slow, users that delete, one failure or restart | `FiresOnce` up to the failures, `NoneForgotten`, `DeletedStaysQuiet`, and `Prompt`: how late a timer can be |
| `session` | two tasks of one session or two, two workers, a cache for one agent, one switch or one further agent, turns of three messages and of one, a commit limit of three, one failure, three model lists | `CacheBounded`, `AckMeansStored`, `TurnsWhole`, `SeesLastTurn` and `DefaultIsKept` as long as somebody waits, `DefaultServes`, `RetryAfterTimeoutIsLost` |
| `skills` | two workers, two versions of which the second has no script, four calls, two failures | `IndexedMeansInstalled`: what the knowledge base knows can be executed, but for what it names; `HonestAnswers` |

The four violated properties state what a comment or README of the repository says; the
findings in `PROJECT.json` quote them. Other disagreements show in properties that pass,
because these state what does hold:

- a gateway hears `task_started` twice, from the scheduler (`scheduler.py:176`) and from the
  orchestrator (`agent_runtime.py:196`, forwarded at `scheduler.py:186`), and `EventsWellFormed`
  says so;
- a `task_failed` may follow a `task_completed`, because `execute_task` emits one
  (`EventsWellFormed`);
- tasks of one user are serial (README.md:12 of the scheduler) for the scheduler only: after the
  deadline of an RPC two of them run in the orchestrator, and their turns interleave in the
  store; `TurnsWhole` and `SeesLastTurn` therefore speak of tasks that are still waited for;
- `provider_client.py:162` speaks of one retry after a status of 500; every failure is retried,
  timeouts included, and `RetryAfterTimeoutIsLost` shows that the answer to such a retry
  reaches nobody with the timeouts as deployed;
- `clawhub_install` answers that the skill is installed and imported (`skill_runtime.py:396`)
  also when its command failed and an earlier version was there to import; the failure is in the
  text further down. `HonestAnswers` speaks of installations whose command came through (`made`);
- a session whose default agent was switched to a name that is not configured fails at every
  later task before a model is called (`agent_runtime.py:184-186`): `FirstCallFails` in
  `AgentRuntime`, and no property;
- `skill_delete` answers that the entry is removed (`skill_runtime.py:433`) also when the
  removal failed and was swallowed: `HonestAnswers` excepts that (`kept`).

### Bounds and why they are enough

- *Scheduler*: two users are the fewest for which serial and parallel differ; `a1`, `a2` are
  one message sent twice and `a3` another of the same user, so both "same key" and "same user,
  other key" occur (in `scheduler_safety`, which checks safety only, the two are symmetric); two
  slots let the other user run meanwhile. `Flaky` names the tasks whose
  execution may fail (one suffices to break each event property and it keeps the histories
  few), `MaxProgress` the events between the first and the last of a stream (one for a flaky
  task), `MaxFaults` the failures of the process' own resources: two, because the dispatcher
  dies of two at once.
- *GatewayEvents*: the races need two streams of one id, an event in the old queue and a
  publisher with a snapshot; a third event makes gaps possible, a third stream a removal by a
  stream two reconnections old, and exhausts two workers; queues of one overflow at once. One
  publisher keeps the run small; several at a time, the case of older snapshots, are covered by
  the proofs, which hold for any number.
- *AgentRuntime*: one nested call and three steps reach every combination of who calls and
  who catches; `MaxCalls` is what these limits allow, so no call is ever numbered twice.
  `MCReplies` has each directive alone and the combinations whose priority matters.
- *TimerTask*: two timers, of which one can hide the other from `has_nearby_task`; a trigger
  time of 4 with intervals of 1 and 2, `Recent` 1 and `Near` 3 lets every decision of the
  interval fall on either side before the clock stops at 7; one failure tells `FiresOnce` with
  it from `FiresOnce` without. The timers are symmetric.
- *Session*: two tasks overlap; a turn of three messages has an inside, into which the other's
  single message can fall; a window of two and a commit limit of three are passed by two turns; a
  cache of one agent, filled by another session, evicts at once, and two workers can be in it
  together. `MaxNamed` is one: one reply switches the default agent, or one calls a further agent,
  with which a worker comes back to the cache. The timeouts are equal as deployed (300 s both); a
  unit of time is enough to be before or after both. The proofs hold for any of these. The lists have one of each
  format, one with an alias as its default, and lack names that others have.
- *SkillRuntime*: two workers meet in every pair of calls; two failures are a command gone
  astray and a swallowed removal in one behaviour; four calls install, disturb, repair and look
  again. The workers are symmetric.
- `CHECK_DEADLOCK FALSE` is set where the system may really stop: the dispatcher may die,
  `submit_task` may deadlock, tasks, events, calls and time may run out.

### Fairness

Threads of a Python process keep running and every wait of theirs is timed or ended by
another thread that keeps running: the dispatcher waits half a second at most (102), the
stream of a task ends within `GRPC_DEADLINE_SECONDS`, every RPC of the orchestrator has a
timeout. So each thread's next step is weakly fair: in `GatewaySpec`
the workers of streams and a publisher that has begun. No fairness is assumed of clients: nobody
has to submit, to connect or to stay. `q.get()` of a stream is the one wait without a timeout;
it is never assumed to end, which is why `WorkerReturns` needs an event in the queue.

## 5. Proofs

`SchedulerProofs.tla` proves for any users, tasks, keys, slots, queue size and any number of
failures:

| theorem | states |
|---|---|
| `TypeCorrect` | `Spec => []TypeOK` |
| `SerialPerUser` | `Spec => []OneTaskPerUser` |
| `SlotsMatchTasks` | `Spec => []SlotsAccounted` |
| `CapacityHolds` | `Spec => []CapacityRespected` |
| `ClaimAlwaysSucceeds` | `Spec => []ClaimSucceeds` |
| `EnqueuedExactlyOnce` | `Spec => []EnqueuedOnce` |
| `KeyAccepted` | `Spec => []KeyAcceptedOnce` |
| `EventsInOrder` | `Spec => []EventsWellFormed` |
| `VerdictAgrees` | `Spec => []VerdictIsLastEvent` |
| `ServiceImplemented` | `Spec => ImplementsTaskService` |
| `RoomMeansNoDeadlock` | `Room => (Spec => []NobodyHangs)` |

None of these is inductive alone. Type correctness needs to know what the dispatcher's place
says of its locals (`DispatcherOK`). That a user has one task needs that everyone who holds a
user is in `BUSY_USERS`, except for the one task the dispatcher carries between its check and
its entry, whose user nobody else can enter: the dispatcher is one thread (`SerialInv`). Slots
then match tasks by where each task is (`PlaceInv`), and the counter equals the number of
counted tasks (`CountInv`), because every step that changes one changes the other. That the
claim of a slot succeeds is a pigeonhole argument: occupied slots map injectively to counted
tasks, of which there are fewer than `BatchSize` when the claim is made.

Where a request is, is told twice: by what its caller was answered, or will be, and by a queue,
the dispatcher's hands or a thread. `WhereInv` says that the two agree for every task
(`PlacedInv`), and that a thread which has found a key in the index will read there a task that
holds the key (`KeyInv`), although it reads in a later step than it found. `EnqueuedOnce`,
`KeyAcceptedOnce` and the refinement rest on it. The events of a task are a matter of where its
thread is and what the stream has told it: `LogInv` gives the shape of the log at each place, a
failure after the last event included. That the events of a user's tasks are in order, but for a
last one that comes late, is `TurnsInv`: a task whose events another of the same user has
overtaken has left `BUSY_USERS` (`OneTaskPerUser`), and from there its thread publishes one event
at most.

The refinement is proved action by action: `put()` is `Accept`, the step that creates the
thread of a task is `Begin`, also if that thread never runs, leaving `BUSY_USERS` is `Finish`,
and every other step leaves the abstract state alone. That `Begin` finds its task at the head
of the abstract queue is what the dispatcher's hands are for; that it finds room is
`CapacityRespected` with the claimed slot, and that nobody else of the user runs is `SerialInv`.

`RoomMeansNoDeadlock` is the other side of the violated run `scheduler_queue_full`: `Room`, that
the different messages of each user fit in the user's queue, is enough to exclude that deadlock.
Under it `USER_LOCK` is never held from one step to the next, and `IDEMPOTENCY_LOCK` only by a
thread that answers next (`NobodyHangs`). It is a hypothesis of this theorem alone and the code
does not establish it.

Assumptions are those of `Scheduler.tla`: the sizes are positive numbers, the tasks finitely
many, a key determines its user.

`AgentRuntimeProofs.tla` proves for any configured agents, any set of replies a model may give
and any limits:

| theorem | states |
|---|---|
| `TypeCorrect` | `Spec => []TypeOK` |
| `ExactlyOneAnswer` | `Spec => []AnsweredOnce` |
| `StackLeadsToUser` | `Spec => []StackRooted` |
| `NoOutputLost` | `Spec => []OutputKept` |
| `NothingAfterAnswer` | `Spec => SilenceAfterAnswer` |

The four invariants are proved together, because they rest on each other: that a popped frame
is the user's or a configured agent's (the type) needs a stack that is not empty (rooted), and
the one answer needs that the status determines where `process_task` may be. The conjunction
`IInv` adds that (`PlaceOfStatus`) and that the user has been answered before the last event is
emitted (`AnsweredBefore`); `StepsBounded`, that the loop stops before its counter passes the
limit, is inductive alone and is proved first. Every exit of `send` is one of two kinds, an
answer (`SayFromSend`) or an output handed on (`OutputFromSend`), and each kind is proved once.
`NothingAfterAnswer` follows from `PlaceOfStatus`.
Assumptions are those of `AgentRuntime.tla`: `main` is configured, the user is no agent, the
limits are numbers.

`GatewayEventsProofs.tla` proves for any gateways, tasks, streams, pages and events, and queues
of any size:

| theorem | states |
|---|---|
| `BusTypeCorrect` | `Spec => []TypeOK` |
| `NoGapInTask` | `Spec => []HeardWithoutGap` |
| `NothingTwice` | `Spec => []HeardOnce` |
| `GatewayTypeCorrect` | `GatewaySafe => []GatewayTypeOK` |
| `NewestReachesPage` | `GatewaySafe => []NewestKept` |
| `BusImplemented` | `GatewaySafe => Spec` |
| `GatewayHearsInOrder` | `GatewaySafe => []HeardWithoutGap /\ []HeardOnce` |

What is heard grows at its end, but what is put into a queue is not what is heard next. So the
argument is about `seen`: what was heard over a stream and, as long as it is read, what is in
the generator's hand and in its queue. It grows only in `Put`, and only by the event in the
publisher's hands. That event is new, because what a publisher has yet to put into the queue
of a stream is `Behind` nothing that the gateway has seen over this stream or an older one; and
it follows the last one of its task, because a stream that has an event of a task has the
latest too unless it is removed, or about to be (`UpToDate`): a subscriber that misses one event
misses all later ones, even when its queue has room again. `Across` says that a new stream goes
on after the old ones, which holds because a gateway reads one stream at a time. The subject of
`NewestKept` is the queue as the end of what was offered (`Follows`), and that no event is
offered twice, which is `HeardOnce` of the bus carried over to the hub (`NewsIsNew`). A step of
the composition is one of the bus or leaves the bus alone (`BusImplemented`), so what is proved
of the bus holds of a gateway with its pages and its restarts (`GatewayHearsInOrder`).

`TimerTaskProofs.tla` proves, for any timers, intervals and number of failures, `TypeOK`,
`FiresOnce`, `NoneForgotten` and `DeletedStaysQuiet`. `Inv` adds what `add` and `del` say of the
file (`AddInv`, `DelInv`), that a file the scan has not just executed accounts for every
execution with a failure (`CountInv`), and what the scan knows of the file in its hands
(`ScanInv`).

`TimersArePrompt` is `Slow <= Near + Fast => (Spec => []Prompt)`. The two intervals come from
the environment (`config.py:25`, `config.py:26`) and 180 is in the code (`timer_task.py:173`), so
the hypothesis is about a deployment; the defaults, 60 <= 180 + 5, satisfy it. Without it a scan
that sees no timer within `Near` may sleep past one that falls due more than `Fast` before it
wakes. `LateInv` says what a look for near timers has left unread (`NearbyInv`), what a scan has yet to treat (`TreatedInv`), that none of the files a slow
scan goes through is due soon unless it was added just now (`AheadInv`), and when it wakes next
against what is due (`SleepInv`).

`ContextStoreProofs.tla` proves the types and `AckMeansStored` for any number of tasks: one
thread appends a turn, so what is stored of it is a prefix in its order, whatever others store
in between (`Own`, `Turns`).

`ModelProxyProofs.tla` proves the types, `DefaultServes` for every set of lists, and
`RetryAfterTimeoutIsLost` for all timeouts: a request after a timeout begins no earlier than the
client stops waiting (`RetryComesLate`).

`SkillRuntimeProofs.tla` proves the types, `IndexedMeansInstalled` and `HonestAnswers` for any
workers, calls and failures: while the state is sound, a change in progress is alone (`Kept`,
`Alone`), so what it has found still holds at its next step (`Finds`). What is under way beside a
change that is alone is its own, and comes from a step it knows to have failed (`Alone`); in a
sound state a command gone astray is a removal of a folder that no entry names, and a late request
finds the folder it was made of (`Strays`).

`SessionProofs.tla` proves, for any number of tasks, workers, sessions and agents:

| theorem | states |
|---|---|
| `CacheStaysBounded` | `CacheSpec => []CacheBounded` |
| `SessionTypeCorrect` | `Spec => []TypeOK` |
| `PartsImplemented` | `Spec => CacheSpec /\ StoreSpec /\ ProxySpec` |
| `PartsKeepTheirWord` | what is proved of the three parts holds under `Session`'s `Spec` |
| `TurnsStayWhole` | `Spec => []TurnsWhole` |
| `LastTurnIsSeen` | `Spec => SeesLastTurn` |
| `SwitchIsKept` | `Spec => DefaultIsKept` |

For the cache, which has at most `MaxInstances - 1 + MaxWorkers` entries however often the workers
come back to it: entries and workers about to insert one are together no more than
`MaxInstances - 1` and the workers in `get_agent`, because a worker comes to `Insert` only past the
test of the limit or an eviction, and leaves with its entry (`SizeInv`); keys in the cache are
distinct, which makes an eviction shorten it.
Each step of `Session` is a step of each part or leaves it alone (`PartSteps`).

The turns need what no part knows: who writes to which session, and that a task starts when the
one before it is over or given up (`LinkInv`). From this, messages of a task that is waited for
come before those of later tasks, in whatever order the others arrive (`OrderInv`), and a commit
archives complete turns as long as all who write to the session are waited for (`CutInv`).
`DefaultIsKept` rests on the same order: between the reading of the default agent and its use no
other task of the session acts, unless it was given up (`HeldInv`).
`SeesLastTurn` is about the step of a search: the turn before is complete, either in what is
shown or archived.

The assumptions are those named in each module.

## 6. What only TLC checks

Liveness: `EverySubmitReturns` and `AnsweredTaskEnds` of the scheduler, `WorkerReturns` and
`BacklogIsHeard` of the gateway, `TaskEnds` of the runtime. Each rests on weak fairness, which is
about ENABLED, and the installed provers do not reason about that. TLC checks them on the
instances of section 4 and for no other values of the constants. `RoomMeansNoDeadlock` is the
safety side of `EverySubmitReturns`.

`SubscriberListens`, `QuestionIsStored` and `FailureExposed` are false of the code, and
`EverySubmitReturns` is where a queue fills.

## 7. What is not modelled

- The number of waiting tasks in answers and events, and the place of `task_queued` among the
  events of a task: it is published outside the lock and may come anywhere.
- Time: an interval or a timeout may pass at any moment, except that a gateway's second call
  comes after its first, and except for `TimerTask` and `ModelProxy`, whose clocks matter.
- Regular expressions of the parser, prompts, logs, image lists; texts, summaries, memories and
  archives of the context store, its filter of messages that contain "智能体返回：" and its token
  budget, which may leave out of what is shown messages that the window would hold; messages,
  parameters and the fields of a model's profile.
- A call of OpenViking that has failed for the context store (`AddMessage`, the commit) and is
  carried out later all the same. Requests of the tool runtime that come late are in
  `SkillRuntime`.
- Restart of the tool runtime: for folder and entry it is the failure of every call in progress.
- Restart of the scheduler or the orchestrator. Neither persists anything nor recovers from
  anything, so there is no promise to check. The timer files, the context store's mode and the
  gateway are restarted in their modules.
- The workspace and shell tools: single calls of the file system in the directory of a user
  whose tasks run one at a time; the shell is switched off as deployed. `clawhub` searching and
  listing only read. What a skill's script does to the world is its own affair.
- The merge of an agent's configuration with the default: two dictionaries, no state. That it
  may fail is a step of `AgentRuntime` and `AgentCache`.
- Frontend, HTTP handlers of the gateway, manifests and scripts: no state or no program.
  `legacy_original/` is not executed. OpenViking and the model providers are external.
