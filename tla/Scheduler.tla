----------------------------- MODULE Scheduler -----------------------------
(***************************************************************************)
(* task-scheduler-service/app/scheduler.py: the threads that accept tasks  *)
(* (submit_task, one gRPC worker per CreateTask request), the one thread   *)
(* that dispatches them (slot_scheduler) and the thread of every running   *)
(* task (run_task), with the state they share: the queue of each user, the *)
(* batch slots, the busy users, the count of running tasks, the index of   *)
(* idempotency keys and the two locks that can be held across a step.      *)
(*                                                                         *)
(* A step is what a thread does between two points at which another thread *)
(* can be seen: one critical section, one queue.Queue operation, one       *)
(* publish.  `processed += 1' and `processed -= 1' (149, 199) are single   *)
(* steps: the service runs on CPython 3.11 (Dockerfile), which does not    *)
(* switch threads between the load and the store of these statements.      *)
(* BUSY_LOCK, SLOTS_LOCK and TASK_AVAILABLE guard sections that call       *)
(* nothing and so never appear as state.  IDEMPOTENCY_LOCK and USER_LOCK   *)
(* are held across a call of waiting_count(), which takes USER_LOCK        *)
(* (79-81), and do.  The number it returns is data that no property is     *)
(* about; that it must wait for the lock is not.                           *)
(***************************************************************************)
EXTENDS Integers, Sequences, FiniteSets

CONSTANTS
    Users,          \* user_id values
    Tasks,          \* one ScheduledTask per CreateTask request: its task_id
    Keys,           \* (user_id, session_id, client_message_id) triples
    NoKey,          \* key of a task with an empty client_message_id
    NoTask,         \* no task; no holder of a lock; no entry of the index
    Free,           \* None in BATCH_SLOTS
    UserOf,         \* task -> user
    KeyOf,          \* task -> key or NoKey
    BatchSize,      \* SCHEDULER_BATCH_SIZE
    UserQueueSize,  \* SCHEDULER_USER_QUEUE_SIZE
    Flaky,          \* bound: tasks whose execution may fail (all of them may)
    MaxProgress,    \* bound: events of a stream between its first and its last
    MaxFaults       \* bound: failures of the process' own resources

ASSUME SizesAssumption ==
    /\ BatchSize \in Nat \ {0}
    /\ UserQueueSize \in Nat \ {0}
    /\ MaxFaults \in Nat

ASSUME BoundAssumption == MaxProgress \in [Tasks -> Nat]

ASSUME TasksAssumption ==
    /\ IsFiniteSet(Tasks)
    /\ UserOf \in [Tasks -> Users]
    /\ KeyOf \in [Tasks -> Keys \cup {NoKey}]
    /\ Flaky \subseteq Tasks

ASSUME SentinelsAssumption ==
    /\ NoTask \notin Tasks
    /\ NoKey \notin Keys
    /\ Free \notin Users

\* The user_id is a component of the key.
ASSUME KeyAssumption ==
    \A s, t \in Tasks : KeyOf[s] = KeyOf[t] /\ KeyOf[t] # NoKey => UserOf[s] = UserOf[t]

VARIABLES
    queues,     \* USER_QUEUES: the tasks waiting of each user
    userOrder,  \* the keys of USER_QUEUES in their order of insertion
    slots,      \* BATCH_SLOTS
    busy,       \* BUSY_USERS
    processed,  \* processed
    index,      \* IDEMPOTENCY_INDEX: key -> task_id
    userLock,   \* the thread that holds USER_LOCK across steps: its task
    idemLock,   \* the thread that holds IDEMPOTENCY_LOCK across steps
    sub,        \* where the thread that submits a task is
    answer,     \* task_id of the SubmitResult with ok=True, NoTask before
    dpc,        \* where slot_scheduler is
    todo,       \* the rest of its user_list; the current user is its head
    dslot,      \* slot_idx of the pass, -1 while it has none
    dtask,      \* the task it has taken and not yet started
    run,        \* where the thread of run_task is
    slotOf,     \* task.slot_index
    status,     \* task.status
    outcome,    \* run_task's success and saw_terminal_event
    log,        \* types of the events run_task published for a task, in order
    turns,      \* the task of every such event of a user, in order
    faults      \* resource failures so far

queueVars == <<queues, userOrder>>
poolVars == <<slots, busy, processed>>
submitVars == <<index, userLock, idemLock, sub, answer>>
dispatchVars == <<dpc, todo, dslot, dtask>>
runVars == <<run, slotOf, status, outcome>>
vars == <<queues, userOrder, slots, busy, processed, index, userLock, idemLock, sub, answer,
          dpc, todo, dslot, dtask, run, slotOf, status, outcome, log, turns, faults>>

SlotIndex == 0..(BatchSize - 1)

TerminalEvents == {"task_completed", "task_failed"}
EventTypes == {"task_started", "progress"} \cup TerminalEvents

\* Publishing appends to the history of the task and to that of its user.
Publish(t, type) ==
    /\ log' = [log EXCEPT ![t] = Append(@, type)]
    /\ turns' = [turns EXCEPT ![UserOf[t]] = Append(@, t)]

Init ==
    /\ queues = [u \in Users |-> <<>>]
    /\ userOrder = <<>>
    /\ slots = [i \in SlotIndex |-> Free]
    /\ busy = {}
    /\ processed = 0
    /\ index = [k \in Keys |-> NoTask]
    /\ userLock = NoTask
    /\ idemLock = NoTask
    /\ sub = [t \in Tasks |-> "idle"]
    /\ answer = [t \in Tasks |-> NoTask]
    /\ dpc = "scan"
    /\ todo = <<>>
    /\ dslot = -1
    /\ dtask = NoTask
    /\ run = [t \in Tasks |-> "none"]
    /\ slotOf = [t \in Tasks |-> -1]
    /\ status = [t \in Tasks |-> "queued"]
    /\ outcome = [t \in Tasks |-> [success |-> TRUE, terminal |-> FALSE]]
    /\ log = [t \in Tasks |-> <<>>]
    /\ turns = [u \in Users |-> <<>>]
    /\ faults = 0

-----------------------------------------------------------------------------
(* submit_task, run by the gRPC worker that serves CreateTask for t.       *)

\* What no step of a submitting thread touches.
othersOfSubmit == <<poolVars, dispatchVars, runVars, log, turns, faults>>

\* Mutant: the index is not asked.
KeyNeverKnown(t) == FALSE

KnownKey(t) == index[KeyOf[t]] # NoTask

\* The key is new: it is reserved, and stays reserved whatever happens next.
SubmitReserveKey(t) ==
    /\ sub[t] = "idle"
    /\ KeyOf[t] # NoKey
    /\ idemLock = NoTask
    /\ ~ KnownKey(t)
    /\ index' = [index EXCEPT ![KeyOf[t]] = t]
    /\ sub' = [sub EXCEPT ![t] = "put"]
    /\ UNCHANGED <<queueVars, userLock, idemLock, answer, othersOfSubmit>>

\* The key is known: IDEMPOTENCY_LOCK stays held during waiting_count().
SubmitFindKey(t) ==
    /\ sub[t] = "idle"
    /\ KeyOf[t] # NoKey
    /\ idemLock = NoTask
    /\ KnownKey(t)
    /\ idemLock' = t
    /\ sub' = [sub EXCEPT ![t] = "dup"]
    /\ UNCHANGED <<queueVars, index, userLock, answer, othersOfSubmit>>

SubmitDuplicate(t) ==
    /\ sub[t] = "dup"
    /\ userLock = NoTask
    /\ answer' = [answer EXCEPT ![t] = index[KeyOf[t]]]
    /\ idemLock' = NoTask
    /\ sub' = [sub EXCEPT ![t] = "done"]
    /\ UNCHANGED <<queueVars, index, userLock, othersOfSubmit>>

\* Next comes the queue: at once without a key, with one when it is reserved.
AtQueue(t) == sub[t] = "put" \/ (sub[t] = "idle" /\ KeyOf[t] = NoKey)

\* Mutant: full one task too early.
QueueFullOffByOne(u) == Len(queues[u]) + 1 >= UserQueueSize

QueueFull(u) == Len(queues[u]) >= UserQueueSize

\* Mutant: no user is entered in USER_QUEUES.
EveryUserKnown(u) == TRUE

KnownUser(u) == \E i \in DOMAIN userOrder : userOrder[i] = u

\* Mutant: the newest task comes first.
PutFirst(u, t) == <<t>> \o queues[u]

QueueWith(u, t) == Append(queues[u], t)

SubmitPut(t) ==
    LET u == UserOf[t] IN
    /\ AtQueue(t)
    /\ userLock = NoTask
    /\ ~ QueueFull(u)
    /\ queues' = [queues EXCEPT ![u] = QueueWith(u, t)]
    /\ userOrder' = IF KnownUser(u) THEN userOrder ELSE Append(userOrder, u)
    /\ sub' = [sub EXCEPT ![t] = "announce"]
    /\ UNCHANGED <<index, userLock, idemLock, answer, othersOfSubmit>>

\* queue.Full: the handler evaluates waiting_count() inside the `with USER_LOCK'
\* block.  threading.Lock is not reentrant, so the thread waits for itself: it
\* keeps USER_LOCK and has no further step.
SubmitFull(t) ==
    /\ AtQueue(t)
    /\ userLock = NoTask
    /\ QueueFull(UserOf[t])
    /\ userLock' = t
    /\ sub' = [sub EXCEPT ![t] = "full"]
    /\ UNCHANGED <<queueVars, index, idemLock, answer, othersOfSubmit>>

\* waiting_count(), publish of task_queued, notify, return.  The task may be
\* running by now or have ended, so task_queued can come anywhere among the events
\* of run_task: no order could be promised and `log' leaves it out.
SubmitAnnounce(t) ==
    /\ sub[t] = "announce"
    /\ userLock = NoTask
    /\ answer' = [answer EXCEPT ![t] = t]
    /\ sub' = [sub EXCEPT ![t] = "done"]
    /\ UNCHANGED <<queueVars, index, userLock, idemLock, othersOfSubmit>>

-----------------------------------------------------------------------------
(* slot_scheduler: the one thread that begins tasks.                       *)

\* What no step of the dispatcher touches.
othersOfDispatch == <<submitVars, outcome, log, turns>>

\* What its steps that only look at the shared state leave alone.
othersOfScan == <<queueVars, poolVars, dslot, dtask, run, slotOf, status, faults, othersOfDispatch>>

Waiting == \E u \in Users : queues[u] # <<>>

\* Nothing waits: TASK_AVAILABLE.wait() times out after half a second at the
\* latest and the loop looks again, so no wakeup can be missed for good.
DispatchIdle ==
    /\ dpc = "scan"
    /\ userLock = NoTask
    /\ ~ Waiting
    /\ UNCHANGED vars

\* _has_pending_task() and the snapshot of the users.  Two critical sections, one
\* step: nobody else takes tasks from a queue, so what was waiting still is.
DispatchScan ==
    /\ dpc = "scan"
    /\ userLock = NoTask
    /\ Waiting
    /\ todo' = userOrder
    /\ dpc' = "pick"
    /\ UNCHANGED othersOfScan

\* Mutant: one task too many may run.
AtCapacityOffByOne == processed > BatchSize

AtCapacity == processed >= BatchSize

\* The pass is over: every user was looked at, or as many tasks run as may.
DispatchEndPass ==
    /\ dpc = "pick"
    /\ todo = <<>> \/ AtCapacity
    /\ todo' = <<>>
    /\ dpc' = "scan"
    /\ UNCHANGED othersOfScan

\* `continue': on to the next user of the pass.
NextUser ==
    /\ todo' = Tail(todo)
    /\ dpc' = "pick"

\* Mutant: the queue is taken for non-empty.
NeverEmpty(u) == FALSE

NothingQueued(u) == queues[u] = <<>>

DispatchPick ==
    /\ dpc = "pick"
    /\ todo # <<>>
    /\ ~ AtCapacity
    /\ userLock = NoTask
    /\ IF NothingQueued(Head(todo)) THEN NextUser ELSE dpc' = "busy" /\ UNCHANGED todo
    /\ UNCHANGED othersOfScan

\* Mutant: BUSY_USERS is not asked.
NoUserBusy(u) == FALSE

UserBusy(u) == u \in busy

DispatchCheckBusy ==
    /\ dpc = "busy"
    /\ IF UserBusy(Head(todo)) THEN NextUser ELSE dpc' = "slot" /\ UNCHANGED todo
    /\ UNCHANGED othersOfScan

\* BATCH_SLOTS.index(None): the first free slot; with none the pass is over.
DispatchClaimSlot ==
    /\ dpc = "slot"
    /\ IF \A i \in SlotIndex : slots[i] # Free
       THEN /\ dpc' = "scan"
            /\ todo' = <<>>
            /\ UNCHANGED <<slots, dslot>>
       ELSE \E i \in SlotIndex :
            /\ slots[i] = Free
            /\ \A j \in 0..(i - 1) : slots[j] # Free
            /\ slots' = [slots EXCEPT ![i] = Head(todo)]
            /\ dslot' = i
            /\ dpc' = "take"
            /\ UNCHANGED todo
    /\ UNCHANGED <<queueVars, busy, processed, dtask, run, slotOf, status, faults, othersOfDispatch>>

\* Mutant: the task is looked at and left in the queue.
QueuePeeked(u) == queues[u]

QueueTaken(u) == Tail(queues[u])

\* user_q.get_nowait(); on queue.Empty the slot is given back.
DispatchTake ==
    LET u == Head(todo) IN
    /\ dpc = "take"
    /\ IF queues[u] = <<>>
       THEN /\ slots' = [slots EXCEPT ![dslot] = Free]
            /\ dslot' = -1
            /\ NextUser
            /\ UNCHANGED <<queues, dtask, slotOf, status>>
       ELSE /\ dtask' = Head(queues[u])
            /\ queues' = [queues EXCEPT ![u] = QueueTaken(u)]
            /\ slotOf' = [slotOf EXCEPT ![Head(queues[u])] = dslot]
            /\ status' = [status EXCEPT ![Head(queues[u])] = "running"]
            /\ dpc' = "mark"
            /\ UNCHANGED <<slots, dslot, todo>>
    /\ UNCHANGED <<userOrder, busy, processed, run, faults, othersOfDispatch>>

DispatchMarkBusy ==
    /\ dpc = "mark"
    /\ busy' = busy \cup {Head(todo)}
    /\ dpc' = "start"
    /\ UNCHANGED <<queueVars, slots, processed, todo, dslot, dtask, run, slotOf, status, faults, othersOfDispatch>>

\* The iteration that has counted its task ends, with the thread of the task in
\* `state' and the dispatcher in `next'.
LeaveIteration(state, next) ==
    /\ dpc = "start"
    /\ processed' = processed + 1
    /\ run' = [run EXCEPT ![dtask] = state]
    /\ dpc' = next
    /\ todo' = Tail(todo)
    /\ dslot' = -1
    /\ dtask' = NoTask
    /\ UNCHANGED <<queueVars, slots, busy, slotOf, status, othersOfDispatch>>

DispatchStart == LeaveIteration("start", "pick") /\ UNCHANGED faults

\* Thread.start() raises (no more threads): the handler logs and goes on to the
\* next user.  Slot, busy user and count are not given back.
DispatchStartFails ==
    /\ faults < MaxFaults
    /\ faults' = faults + 1
    /\ LeaveIteration("dead", "pick")

\* The same, and the handler's own gateway_log() raises as well (it appends to a
\* file): the dispatcher's thread ends.
DispatcherDies ==
    /\ faults + 1 < MaxFaults
    /\ faults' = faults + 2
    /\ LeaveIteration("dead", "dead")

-----------------------------------------------------------------------------
(* run_task: the thread of one running task.                               *)

\* What no step of a running task touches.
othersOfRun == <<queueVars, submitVars, dispatchVars, slotOf>>

RunStart(t) ==
    /\ run[t] = "start"
    /\ userLock = NoTask
    /\ Publish(t, "task_started")
    /\ run' = [run EXCEPT ![t] = "stream"]
    /\ UNCHANGED <<poolVars, status, outcome, faults, othersOfRun>>

\* gateway_log() raises (it appends to a file) ahead of the `try': nothing is
\* given back and no event is published.
RunStartFails(t) ==
    /\ run[t] = "start"
    /\ faults < MaxFaults
    /\ faults' = faults + 1
    /\ run' = [run EXCEPT ![t] = "dead"]
    /\ UNCHANGED <<poolVars, status, outcome, log, turns, othersOfRun>>

\* process_task emits a task_started of its own first (agent_runtime.py:196), and
\* run_task forwards it.
StreamStarted(t) ==
    /\ run[t] = "stream"
    /\ ~ outcome[t].terminal
    /\ Len(log[t]) = 1
    /\ Publish(t, "task_started")
    /\ UNCHANGED <<run, poolVars, status, outcome, faults, othersOfRun>>

\* Another event of the orchestrator that ends nothing: assistant_message,
\* assistant_intermediate.  A terminal event is its last.
StreamProgress(t) ==
    /\ run[t] = "stream"
    /\ ~ outcome[t].terminal
    /\ Len(log[t]) \in 2..(1 + MaxProgress[t])
    /\ Publish(t, "progress")
    /\ UNCHANGED <<run, poolVars, status, outcome, faults, othersOfRun>>

StreamTerminal(t, type) ==
    /\ run[t] = "stream"
    /\ ~ outcome[t].terminal
    /\ Len(log[t]) > 1
    /\ type = "task_failed" => t \in Flaky
    /\ Publish(t, type)
    /\ outcome' = [outcome EXCEPT ![t] = [success |-> type # "task_failed", terminal |-> TRUE]]
    /\ UNCHANGED <<run, poolVars, status, faults, othersOfRun>>

\* The stream is exhausted, after a terminal event or without one; it had the
\* orchestrator's task_started at least.
StreamEnds(t) ==
    /\ run[t] = "stream"
    /\ Len(log[t]) > 1
    /\ run' = [run EXCEPT ![t] = "slot"]
    /\ UNCHANGED <<poolVars, status, outcome, log, turns, faults, othersOfRun>>

\* The RPC fails or its deadline passes, at any point of the stream: the client
\* yields a task_failed of its own as the last event.
StreamBreaks(t) ==
    /\ run[t] = "stream"
    /\ t \in Flaky
    /\ Publish(t, "task_failed")
    /\ outcome' = [outcome EXCEPT ![t] = [success |-> FALSE, terminal |-> TRUE]]
    /\ run' = [run EXCEPT ![t] = "slot"]
    /\ UNCHANGED <<poolVars, status, faults, othersOfRun>>

\* The request cannot be built, so execute_task() raises before any event;
\* run_task publishes the failure without noting that it was terminal.
StreamRaises(t) ==
    /\ run[t] = "stream"
    /\ t \in Flaky
    /\ ~ outcome[t].terminal
    /\ Len(log[t]) = 1
    /\ userLock = NoTask
    /\ Publish(t, "task_failed")
    /\ outcome' = [outcome EXCEPT ![t].success = FALSE]
    /\ run' = [run EXCEPT ![t] = "slot"]
    /\ UNCHANGED <<poolVars, status, faults, othersOfRun>>

\* Mutant: slot_index is not looked at.
FirstSlot(t) == 0

SlotToFree(t) == slotOf[t]

RunFreeSlot(t) ==
    /\ run[t] = "slot"
    /\ slots' = [slots EXCEPT ![SlotToFree(t)] = Free]
    /\ run' = [run EXCEPT ![t] = "busy"]
    /\ UNCHANGED <<busy, processed, status, outcome, log, turns, faults, othersOfRun>>

RunFreeUser(t) ==
    /\ run[t] = "busy"
    /\ busy' = busy \ {UserOf[t]}
    /\ run' = [run EXCEPT ![t] = "uncount"]
    /\ UNCHANGED <<slots, processed, status, outcome, log, turns, faults, othersOfRun>>

\* Mutant: a success is stored under a name of its own.
OkOnSuccess(t, good, bad) == IF outcome[t].success THEN "ok" ELSE bad

\* Mutant: the two cases are swapped.
VerdictSwapped(t, good, bad) == IF outcome[t].success THEN bad ELSE good

Verdict(t, good, bad) == IF outcome[t].success THEN good ELSE bad

SynthesisNeeded(t) == ~ outcome[t].terminal

RunUncount(t) ==
    /\ run[t] = "uncount"
    /\ processed' = processed - 1
    /\ status' = [status EXCEPT ![t] = Verdict(t, "completed", "failed")]
    /\ run' = [run EXCEPT ![t] = IF SynthesisNeeded(t) THEN "synth" ELSE "done"]
    /\ UNCHANGED <<slots, busy, outcome, log, turns, faults, othersOfRun>>

\* The orchestrator sent no terminal event: the scheduler adds one, at a time
\* when the user's next task may already be running.
RunSynthesize(t) ==
    /\ run[t] = "synth"
    /\ userLock = NoTask
    /\ Publish(t, Verdict(t, "task_completed", "task_failed"))
    /\ run' = [run EXCEPT ![t] = "done"]
    /\ UNCHANGED <<poolVars, status, outcome, faults, othersOfRun>>

-----------------------------------------------------------------------------
Submit(t) ==
    \/ SubmitReserveKey(t)
    \/ SubmitFindKey(t)
    \/ SubmitDuplicate(t)
    \/ SubmitPut(t)
    \/ SubmitFull(t)
    \/ SubmitAnnounce(t)

Dispatch ==
    \/ DispatchScan
    \/ DispatchEndPass
    \/ DispatchPick
    \/ DispatchCheckBusy
    \/ DispatchClaimSlot
    \/ DispatchTake
    \/ DispatchMarkBusy
    \/ DispatchStart
    \/ DispatchStartFails
    \/ DispatcherDies

Run(t) ==
    \/ RunStart(t)
    \/ RunStartFails(t)
    \/ StreamStarted(t)
    \/ StreamProgress(t)
    \/ \E type \in TerminalEvents : StreamTerminal(t, type)
    \/ StreamEnds(t)
    \/ StreamBreaks(t)
    \/ StreamRaises(t)
    \/ RunFreeSlot(t)
    \/ RunFreeUser(t)
    \/ RunUncount(t)
    \/ RunSynthesize(t)

Next ==
    \/ DispatchIdle
    \/ Dispatch
    \/ \E t \in Tasks : Submit(t) \/ Run(t)

Spec == Init /\ [][Next]_vars

\* Every thread keeps running: the gRPC workers, the dispatcher (a daemon thread
\* with timed waits) and the thread of each task, whose stream ends within
\* GRPC_DEADLINE_SECONDS.  Nobody has to call submit_task.
FairSpec ==
    /\ Spec
    /\ WF_vars(Dispatch)
    /\ \A t \in Tasks : WF_vars(sub[t] # "idle" /\ Submit(t)) /\ WF_vars(Run(t))

-----------------------------------------------------------------------------
(* Safety.                                                                 *)

\* Every variable keeps its type.
TypeOK ==
    /\ queues \in [Users -> Seq(Tasks)]
    /\ userOrder \in Seq(Users)
    /\ slots \in [SlotIndex -> Users \cup {Free}]
    /\ busy \subseteq Users
    /\ processed \in Int
    /\ index \in [Keys -> Tasks \cup {NoTask}]
    /\ userLock \in Tasks \cup {NoTask}
    /\ idemLock \in Tasks \cup {NoTask}
    /\ sub \in [Tasks -> {"idle", "dup", "put", "full", "announce", "done"}]
    /\ answer \in [Tasks -> Tasks \cup {NoTask}]
    /\ dpc \in {"scan", "pick", "busy", "slot", "take", "mark", "start", "dead"}
    /\ todo \in Seq(Users)
    /\ dslot \in SlotIndex \cup {-1}
    /\ dtask \in Tasks \cup {NoTask}
    /\ run \in [Tasks -> {"none", "start", "stream", "slot", "busy", "uncount", "synth", "done", "dead"}]
    /\ slotOf \in [Tasks -> SlotIndex \cup {-1}]
    /\ status \in [Tasks -> {"queued", "running", "completed", "failed"}]
    /\ outcome \in [Tasks -> [success : BOOLEAN, terminal : BOOLEAN]]
    /\ log \in [Tasks -> Seq(EventTypes)]
    /\ turns \in [Users -> Seq(Tasks)]
    /\ faults \in 0..MaxFaults

\* A task has a place in BATCH_SLOTS, has its user in BUSY_USERS, is in processed:
\* run_task gives the three back one after the other, and never if it dies.
HoldsSlot(t) == run[t] \in {"start", "stream", "slot", "dead"}
HoldsUser(t) == HoldsSlot(t) \/ run[t] = "busy"
Counted(t) == HoldsUser(t) \/ run[t] = "uncount"

\* The dispatcher has claimed a slot for the user it looks at.
Claimed == dpc \in {"take", "mark", "start"}

\* A user's tasks run strictly one after the other (README.md:12 of the service),
\* although the dispatcher checks BUSY_USERS three critical sections before it
\* enters the user there, and run_task leaves it between two others.
OneTaskPerUser ==
    \A s, t \in Tasks : HoldsUser(s) /\ HoldsUser(t) /\ UserOf[s] = UserOf[t] => s = t

\* The slots are exactly accounted for: a slot bears a user if and only if the
\* dispatcher has just claimed it for that user or one task of that user holds it.
\* In particular run_task (193-195) never clears a slot that was given to another.
SlotsAccounted ==
    /\ \A t \in Tasks : HoldsSlot(t) => slotOf[t] \in SlotIndex /\ slots[slotOf[t]] = UserOf[t]
    /\ \A s, t \in Tasks : HoldsSlot(s) /\ HoldsSlot(t) /\ slotOf[s] = slotOf[t] => s = t
    /\ Claimed => slots[dslot] = Head(todo) /\ \A t \in Tasks : HoldsSlot(t) => slotOf[t] # dslot
    /\ \A i \in SlotIndex : slots[i] # Free =>
           (Claimed /\ i = dslot) \/ \E t \in Tasks : HoldsSlot(t) /\ slotOf[t] = i

\* `processed' is the number of tasks begun and not ended, never above BATCH_SIZE,
\* although it is read, raised and lowered without a lock (110, 149, 199).
CapacityRespected ==
    /\ processed = Cardinality({t \in Tasks : Counted(t)})
    /\ processed <= BatchSize

\* The two checks that follow the check of `processed' always succeed: a slot is
\* free when one is claimed (126) and the queue still has a task when one is taken
\* (133), whatever run_task and submit_task do meanwhile.
ClaimSucceeds ==
    /\ dpc = "slot" => \E i \in SlotIndex : slots[i] = Free
    /\ dpc = "take" => queues[Head(todo)] # <<>>

\* Places where an enqueued task can be, with multiplicity.
Places(t) ==
    {<<"queue", i>> : i \in {j \in DOMAIN queues[UserOf[t]] : queues[UserOf[t]][j] = t}}
        \cup {<<"dispatcher", 0>> : x \in {y \in {dtask} : y = t}}
        \cup {<<"thread", 0>> : x \in {y \in {run[t]} : y # "none"}}

\* A task answered as accepted is in exactly one place, its queue, the hands of the
\* dispatcher or a thread of its own, and no task that was refused, answered as a
\* duplicate or is still being submitted is in any: none is lost, none runs twice.
EnqueuedOnce ==
    \A t \in Tasks :
        IF sub[t] = "announce" \/ answer[t] = t
        THEN Cardinality(Places(t)) = 1
        ELSE Places(t) = {}

\* Of the requests with one (user_id, session_id, client_message_id) only one is
\* enqueued, and the others are answered with that one's task_id (README.md:143).
KeyAcceptedOnce ==
    \A s, t \in Tasks : s # t /\ KeyOf[s] = KeyOf[t] /\ KeyOf[t] # NoKey =>
        /\ Places(s) = {} \/ Places(t) = {}
        /\ Places(s) # {} => answer[t] \in {NoTask, s}

\* The events of one task: task_started first, once from the scheduler (176) and
\* once more from the orchestrator whose stream follows (186); nothing that is not
\* terminal after a terminal event; and after a terminal event at most one more, a
\* task_failed (a stream that broke after its last event; a raised failure published
\* a second time by the synthesis).
InOrder(l) ==
    \A i \in DOMAIN l :
        /\ i = 1 => l[i] = "task_started"
        /\ l[i] = "task_started" => i <= 2
        /\ l[i] \in TerminalEvents =>
               i = Len(l) \/ (i = Len(l) - 1 /\ l[i + 1] = "task_failed")

\* Event k of a user is late: its task had an event, i, before the first event of a
\* task of the same user that has begun since, at j.
Late(q, k) ==
    \E i, j \in 1..(k - 1) :
        /\ i < j
        /\ q[i] = q[k]
        /\ q[j] # q[k]
        /\ \A l \in 1..i : q[l] # q[j]

\* What run_task publishes of a task is in order, and of a user's tasks one after the
\* other: run_task gives its user back (197) before it publishes the event it may
\* have to add (205-210), so an event can be late, but only the last of its task,
\* which tells how it ended.  (task_queued is submit_task's and comes anywhere.)
EventsWellFormed ==
    /\ \A t \in Tasks : InOrder(log[t])
    /\ \A u \in Users : \A k \in DOMAIN turns[u] : Late(turns[u], k) =>
           /\ \A m \in (k + 1)..Len(turns[u]) : turns[u][m] # turns[u][k]
           /\ log[turns[u][k]][Len(log[turns[u][k]])] \in TerminalEvents

\* The last event of an ended task says what its status says.
VerdictIsLastEvent ==
    \A t \in Tasks : run[t] = "done" =>
        log[t][Len(log[t])] = IF status[t] = "completed" THEN "task_completed" ELSE "task_failed"

-----------------------------------------------------------------------------
(* Liveness.                                                               *)

\* Every CreateTask call that has taken its first lock is answered, with an id or
\* with queue_full (241-247).
EverySubmitReturns == \A t \in Tasks : sub[t] # "idle" ~> sub[t] = "done"

\* The task whose id an answer names ends, its last event published, be it the
\* caller's own task or, for a duplicate, the one that holds the key.  A thread that
\* dies breaks this for the tasks of its own user only, while a slot remains.
AnsweredTaskEnds ==
    \A t \in Tasks : answer[t] # NoTask ~>
        /\ answer[t] # NoTask
        /\ \/ run[answer[t]] = "done"
           \/ \E s \in Tasks : run[s] = "dead" /\ UserOf[s] = UserOf[t]

-----------------------------------------------------------------------------
(* The scheduler implements TaskService: a task the dispatcher has taken is *)
(* still pending, one that has given its user back is finished.             *)

Service == INSTANCE TaskService WITH
    pending <- [u \in Users |->
        (IF dtask # NoTask /\ UserOf[dtask] = u THEN <<dtask>> ELSE <<>>) \o queues[u]],
    running <- {t \in Tasks : HoldsUser(t)},
    finished <- {t \in Tasks : run[t] \in {"uncount", "synth", "done"}}

\* Serial, in order of acceptance, at most once, within the capacity and once per
\* key, for every interleaving of the threads.
ImplementsTaskService == Service!Spec
=============================================================================
