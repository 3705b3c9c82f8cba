-------------------------- MODULE SchedulerProofs --------------------------
(***************************************************************************)
(* Proofs about Scheduler, for every value of its constants.               *)
(***************************************************************************)
EXTENDS Scheduler, FiniteSetTheorems, SequenceTheorems, TLAPS

USE SizesAssumption, TasksAssumption, SentinelsAssumption

\* What the place of the dispatcher says of its local variables.
DispatcherOK ==
    /\ dpc \in {"busy", "slot", "take", "mark", "start"} => todo # <<>>
    /\ Claimed => dslot \in SlotIndex
    /\ dpc \in {"mark", "start"} => dtask \in Tasks /\ slotOf[dtask] = dslot
    /\ \A t \in Tasks : sub[t] = "dup" => KeyOf[t] # NoKey
    /\ \A t \in Tasks : HoldsSlot(t) => slotOf[t] \in SlotIndex

TInv == TypeOK /\ DispatcherOK

LEMMA InitTInv == Init => TInv
  BY DEF Init, TInv, TypeOK, DispatcherOK, Claimed, HoldsSlot, SlotIndex

LEMMA SubmitTInv ==
  ASSUME TInv, NEW t \in Tasks, Submit(t)
  PROVE  TInv'
<1>1. UNCHANGED <<slots, busy, processed, dpc, todo, dslot, dtask, run, slotOf, status, outcome, log, turns, faults>>
  BY DEF Submit, SubmitReserveKey, SubmitFindKey, SubmitDuplicate, SubmitPut, SubmitFull, SubmitAnnounce, othersOfSubmit, poolVars, dispatchVars, runVars
<1>2. queues' \in [Users -> Seq(Tasks)] /\ userOrder' \in Seq(Users)
  <2>1. CASE SubmitPut(t)
    <3>1. UserOf[t] \in Users
      BY TasksAssumption
    <3> QED
      BY <2>1, <3>1 DEF SubmitPut, QueueWith, TInv, TypeOK
  <2>2. CASE ~ SubmitPut(t)
    <3>1. UNCHANGED queueVars
      BY <2>2 DEF Submit, SubmitReserveKey, SubmitFindKey, SubmitDuplicate, SubmitFull, SubmitAnnounce
    <3> QED
      BY <3>1 DEF queueVars, TInv, TypeOK
  <2> QED
    BY <2>1, <2>2
<1>3. /\ index' \in [Keys -> Tasks \cup {NoTask}]
      /\ userLock' \in Tasks \cup {NoTask}
      /\ idemLock' \in Tasks \cup {NoTask}
  <2>0. index \in [Keys -> Tasks \cup {NoTask}] /\ {userLock, idemLock} \subseteq Tasks \cup {NoTask}
    BY DEF TInv, TypeOK
  <2>1. UNCHANGED index \/ \E k : index' = [index EXCEPT ![k] = t]
    BY DEF Submit, SubmitReserveKey, SubmitFindKey, SubmitDuplicate, SubmitPut, SubmitFull, SubmitAnnounce
  <2>2. userLock' \in {userLock, t} /\ idemLock' \in {idemLock, t, NoTask}
    BY DEF Submit, SubmitReserveKey, SubmitFindKey, SubmitDuplicate, SubmitPut, SubmitFull, SubmitAnnounce
  <2> QED
    BY <2>0, <2>1, <2>2
<1>4. /\ sub' \in [Tasks -> {"idle", "dup", "put", "full", "announce", "done"}]
      /\ \A s \in Tasks : sub'[s] = "dup" => KeyOf[s] # NoKey
  <2>0. /\ sub \in [Tasks -> {"idle", "dup", "put", "full", "announce", "done"}]
        /\ \A s \in Tasks : sub[s] = "dup" => KeyOf[s] # NoKey
    BY DEF TInv, TypeOK, DispatcherOK
  <2>1. \/ KeyOf[t] # NoKey /\ sub' = [sub EXCEPT ![t] = "dup"]
        \/ \E place \in {"put", "full", "announce", "done"} : sub' = [sub EXCEPT ![t] = place]
    BY DEF Submit, SubmitReserveKey, SubmitFindKey, SubmitDuplicate, SubmitPut, SubmitFull, SubmitAnnounce
  <2> QED
    BY <2>0, <2>1
<1>5. answer' \in [Tasks -> Tasks \cup {NoTask}]
  <2>1. CASE SubmitDuplicate(t)
    <3>1. KeyOf[t] \in Keys
      BY <2>1, TasksAssumption DEF SubmitDuplicate, TInv, DispatcherOK
    <3> QED
      BY <2>1, <3>1 DEF SubmitDuplicate, TInv, TypeOK
  <2>2. CASE ~ SubmitDuplicate(t)
    <3>1. answer \in [Tasks -> Tasks \cup {NoTask}]
      BY DEF TInv, TypeOK
    <3>2. UNCHANGED answer \/ answer' = [answer EXCEPT ![t] = t]
      BY <2>2 DEF Submit, SubmitReserveKey, SubmitFindKey, SubmitPut, SubmitFull, SubmitAnnounce
    <3> QED
      BY <3>1, <3>2
  <2> QED
    BY <2>1, <2>2
<1>6. TypeOK'
  BY <1>1, <1>2, <1>3, <1>4, <1>5 DEF TInv, TypeOK
<1>7. DispatcherOK'
  BY <1>1, <1>4 DEF TInv, DispatcherOK, Claimed, HoldsSlot
<1> QED
  BY <1>6, <1>7 DEF TInv

LEMMA DispatchTInv ==
  ASSUME TInv, Dispatch
  PROVE  TInv'
<1>a. dpc \in {"busy", "slot", "take", "mark", "start"} => Head(todo) \in Users
  BY DEF TInv, TypeOK, DispatcherOK
<1>b. todo # <<>> => Tail(todo) \in Seq(Users)
  BY DEF TInv, TypeOK
<1>1. CASE DispatchScan
  <2>1. dpc' = "pick" /\ todo' = userOrder /\ UNCHANGED othersOfScan
    BY <1>1 DEF DispatchScan
  <2> QED
    BY <2>1 DEF TInv, TypeOK, DispatcherOK, Claimed, HoldsSlot, othersOfScan, othersOfDispatch, queueVars, poolVars, submitVars
<1>2. CASE DispatchEndPass
  <2>1. dpc' = "scan" /\ todo' = <<>> /\ UNCHANGED othersOfScan
    BY <1>2 DEF DispatchEndPass
  <2> QED
    BY <2>1 DEF TInv, TypeOK, DispatcherOK, Claimed, HoldsSlot, othersOfScan, othersOfDispatch, queueVars, poolVars, submitVars
<1>3. CASE DispatchPick \/ DispatchCheckBusy
  <2>1. /\ dpc' \in {"pick", "busy", "slot"}
        /\ todo' \in Seq(Users)
        /\ dpc' # "pick" => todo' # <<>>
    BY <1>3, <1>b DEF DispatchPick, NothingQueued, DispatchCheckBusy, NextUser, TInv, TypeOK, DispatcherOK
  <2>2. UNCHANGED othersOfScan
    BY <1>3 DEF DispatchPick, NothingQueued, DispatchCheckBusy
  <2> QED
    BY <2>1, <2>2 DEF TInv, TypeOK, DispatcherOK, Claimed, HoldsSlot, othersOfScan, othersOfDispatch, queueVars, poolVars, submitVars
<1>4. CASE DispatchClaimSlot
  <2>1. /\ dpc = "slot"
        /\ UNCHANGED <<queueVars, busy, processed, dtask, run, slotOf, status, faults, othersOfDispatch>>
    BY <1>4 DEF DispatchClaimSlot
  <2>2. CASE \A i \in SlotIndex : slots[i] # Free
    <3>1. dpc' = "scan" /\ todo' = <<>> /\ UNCHANGED <<slots, dslot>>
      BY <1>4, <2>2 DEF DispatchClaimSlot
    <3>2. TypeOK'
      BY <2>1, <3>1 DEF TInv, TypeOK, othersOfDispatch, queueVars, submitVars
    <3>3. DispatcherOK'
      BY <2>1, <3>1 DEF TInv, DispatcherOK, Claimed, HoldsSlot, othersOfDispatch, queueVars, submitVars
    <3> QED
      BY <3>2, <3>3 DEF TInv
  <2>3. CASE ~ \A i \in SlotIndex : slots[i] # Free
    <3>1. PICK i \in SlotIndex :
            /\ slots' = [slots EXCEPT ![i] = Head(todo)]
            /\ dslot' = i
            /\ dpc' = "take"
            /\ UNCHANGED todo
      BY <1>4, <2>3 DEF DispatchClaimSlot
    <3>2. slots' \in [SlotIndex -> Users \cup {Free}]
      BY <3>1, <1>a, <2>1 DEF TInv, TypeOK
    <3>3. TypeOK'
      BY <2>1, <3>1, <3>2 DEF TInv, TypeOK, othersOfDispatch, queueVars, submitVars
    <3>4. DispatcherOK'
      BY <2>1, <3>1 DEF TInv, DispatcherOK, Claimed, HoldsSlot, othersOfDispatch, queueVars, submitVars
    <3> QED
      BY <3>3, <3>4 DEF TInv
  <2> QED
    BY <2>2, <2>3
<1>5. CASE DispatchTake
  <2>1. /\ dpc = "take"
        /\ UNCHANGED <<userOrder, busy, processed, run, faults, othersOfDispatch>>
    BY <1>5 DEF DispatchTake
  <2>2. CASE queues[Head(todo)] = <<>>
    <3>1. /\ slots' = [slots EXCEPT ![dslot] = Free]
          /\ dslot' = -1
          /\ todo' = Tail(todo)
          /\ dpc' = "pick"
          /\ UNCHANGED <<queues, dtask, slotOf, status>>
      BY <1>5, <2>2 DEF DispatchTake, NextUser
    <3>2. todo' \in Seq(Users)
      BY <3>1, <1>b, <2>1 DEF TInv, DispatcherOK
    <3> QED
      BY <2>1, <3>1, <3>2 DEF TInv, TypeOK, DispatcherOK, Claimed, HoldsSlot, othersOfDispatch, submitVars
  <2>3. CASE queues[Head(todo)] # <<>>
    <3> DEFINE t == Head(queues[Head(todo)])
    <3>1. /\ dtask' = t
          /\ queues' = [queues EXCEPT ![Head(todo)] = Tail(queues[Head(todo)])]
          /\ slotOf' = [slotOf EXCEPT ![t] = dslot]
          /\ status' = [status EXCEPT ![t] = "running"]
          /\ dpc' = "mark"
          /\ UNCHANGED <<slots, dslot, todo>>
      BY <1>5, <2>3 DEF DispatchTake, QueueTaken
    <3>2. queues[Head(todo)] \in Seq(Tasks) /\ dslot \in SlotIndex
      BY <1>a, <2>1 DEF TInv, TypeOK, DispatcherOK, Claimed
    <3>3. t \in Tasks /\ Tail(queues[Head(todo)]) \in Seq(Tasks)
      BY <2>3, <3>2
    <3> HIDE DEF t
    <3>4. /\ queues' \in [Users -> Seq(Tasks)]
          /\ slotOf' \in [Tasks -> SlotIndex \cup {-1}]
          /\ status' \in [Tasks -> {"queued", "running", "completed", "failed"}]
      BY <3>1, <3>2, <3>3, <1>a, <2>1 DEF TInv, TypeOK
    <3>5. TypeOK'
      BY <2>1, <3>1, <3>3, <3>4 DEF TInv, TypeOK, othersOfDispatch, submitVars
    <3>6. DispatcherOK'
      BY <2>1, <3>1, <3>2, <3>3 DEF TInv, TypeOK, DispatcherOK, Claimed, HoldsSlot, othersOfDispatch, submitVars
    <3> QED
      BY <3>5, <3>6 DEF TInv
  <2> QED
    BY <2>2, <2>3
<1>6. CASE DispatchMarkBusy
  <2>1. /\ dpc = "mark" /\ dpc' = "start" /\ busy' = busy \cup {Head(todo)}
        /\ UNCHANGED <<queueVars, slots, processed, todo, dslot, dtask, run, slotOf, status, faults, othersOfDispatch>>
    BY <1>6 DEF DispatchMarkBusy
  <2> QED
    BY <2>1, <1>a DEF TInv, TypeOK, DispatcherOK, Claimed, HoldsSlot, othersOfDispatch, queueVars, submitVars
<1>7. CASE DispatchStart \/ DispatchStartFails \/ DispatcherDies
  <2>1. PICK state \in {"start", "dead"}, next \in {"pick", "dead"} : LeaveIteration(state, next)
    BY <1>7 DEF DispatchStart, DispatchStartFails, DispatcherDies
  <2>2. faults' \in 0..MaxFaults
    BY <1>7 DEF DispatchStart, DispatchStartFails, DispatcherDies, TInv, TypeOK
  <2>3. dpc = "start" /\ dtask \in Tasks /\ dpc' = next
    BY <2>1 DEF LeaveIteration, TInv, DispatcherOK
  <2>4. /\ run' = [run EXCEPT ![dtask] = state]
        /\ run' \in [Tasks -> {"none", "start", "stream", "slot", "busy", "uncount", "synth", "done", "dead"}]
    BY <2>1, <2>3 DEF LeaveIteration, TInv, TypeOK
  <2>5. todo' \in Seq(Users)
    BY <2>1, <2>3, <1>b DEF LeaveIteration, TInv, DispatcherOK
  <2>6. /\ processed' \in Int /\ dslot' = -1 /\ dtask' = NoTask
        /\ UNCHANGED <<queueVars, slots, busy, slotOf, status, othersOfDispatch>>
    BY <2>1 DEF LeaveIteration, TInv, TypeOK
  <2>7. TypeOK'
    BY <2>2, <2>3, <2>4, <2>5, <2>6 DEF TInv, TypeOK, othersOfDispatch, queueVars, submitVars
  <2>8. DispatcherOK'
    BY <2>3, <2>4, <2>6 DEF TInv, TypeOK, DispatcherOK, Claimed, HoldsSlot, othersOfDispatch, queueVars, submitVars
  <2> QED
    BY <2>7, <2>8 DEF TInv
<1> QED
  BY <1>1, <1>2, <1>3, <1>4, <1>5, <1>6, <1>7 DEF Dispatch

LEMMA OutcomeUpdate ==
  ASSUME NEW o \in [Tasks -> [success : BOOLEAN, terminal : BOOLEAN]], NEW t \in Tasks
  PROVE  [o EXCEPT ![t].success = FALSE] \in [Tasks -> [success : BOOLEAN, terminal : BOOLEAN]]
<1> DEFINE r == [o[t] EXCEPT !.success = FALSE]
<1>1. r \in [success : BOOLEAN, terminal : BOOLEAN]
  OBVIOUS
<1>2. [o EXCEPT ![t].success = FALSE] = [o EXCEPT ![t] = r]
  OBVIOUS
<1> HIDE DEF r
<1> QED
  BY <1>1, <1>2

LEMMA PublishTypes ==
  ASSUME TInv, NEW t \in Tasks, NEW type \in EventTypes, Publish(t, type)
  PROVE  log' \in [Tasks -> Seq(EventTypes)] /\ turns' \in [Users -> Seq(Tasks)]
<1>1. UserOf[t] \in Users
  BY TasksAssumption
<1> QED
  BY <1>1 DEF Publish, TInv, TypeOK

LEMMA RunTInv ==
  ASSUME TInv, NEW t \in Tasks, Run(t)
  PROVE  TInv'
<1>1. UNCHANGED <<queues, userOrder, index, userLock, idemLock, sub, answer, dpc, todo, dslot, dtask, slotOf>>
  BY DEF Run, RunStart, RunStartFails, StreamStarted, StreamProgress, StreamTerminal, StreamEnds, StreamBreaks, StreamRaises, RunFreeSlot, RunFreeUser, RunUncount, RunSynthesize, othersOfRun, queueVars, submitVars, dispatchVars
<1>2. log' \in [Tasks -> Seq(EventTypes)] /\ turns' \in [Users -> Seq(Tasks)]
  <2>1. UNCHANGED <<log, turns>> \/ \E type \in EventTypes : Publish(t, type)
    BY DEF Run, RunStart, RunStartFails, StreamStarted, StreamProgress, StreamTerminal, StreamEnds, StreamBreaks, StreamRaises, RunFreeSlot, RunFreeUser, RunUncount, RunSynthesize, Verdict, EventTypes, TerminalEvents
  <2> QED
    BY <2>1, PublishTypes DEF TInv, TypeOK
<1>3. /\ run' \in [Tasks -> {"none", "start", "stream", "slot", "busy", "uncount", "synth", "done", "dead"}]
      /\ \A s \in Tasks : HoldsSlot(s)' => HoldsSlot(s)
  <2>0. run \in [Tasks -> {"none", "start", "stream", "slot", "busy", "uncount", "synth", "done", "dead"}]
    BY DEF TInv, TypeOK
  <2>1. \/ UNCHANGED run
        \/ run[t] = "start" /\ run' = [run EXCEPT ![t] = "stream"]
        \/ run[t] = "start" /\ run' = [run EXCEPT ![t] = "dead"]
        \/ run[t] = "stream" /\ run' = [run EXCEPT ![t] = "slot"]
        \/ run[t] = "slot" /\ run' = [run EXCEPT ![t] = "busy"]
        \/ \E state \in {"uncount", "synth", "done"} : run' = [run EXCEPT ![t] = state]
    BY DEF Run, RunStart, RunStartFails, StreamStarted, StreamProgress, StreamTerminal, StreamEnds, StreamBreaks, StreamRaises, RunFreeSlot, RunFreeUser, RunUncount, RunSynthesize
  <2> QED
    BY <2>0, <2>1 DEF HoldsSlot
<1>4. /\ slots' \in [SlotIndex -> Users \cup {Free}]
      /\ busy' \subseteq Users
      /\ processed' \in Int
  <2>0. slots \in [SlotIndex -> Users \cup {Free}] /\ busy \subseteq Users /\ processed \in Int
    BY DEF TInv, TypeOK
  <2>1. CASE RunFreeSlot(t)
    BY <2>0, <2>1 DEF RunFreeSlot
  <2>2. CASE RunFreeUser(t)
    BY <2>0, <2>2 DEF RunFreeUser
  <2>3. CASE RunUncount(t)
    BY <2>0, <2>3 DEF RunUncount
  <2>4. CASE ~ RunFreeSlot(t) /\ ~ RunFreeUser(t) /\ ~ RunUncount(t)
    <3>1. UNCHANGED poolVars
      BY <2>4 DEF Run, RunStart, RunStartFails, StreamStarted, StreamProgress, StreamTerminal, StreamEnds, StreamBreaks, StreamRaises, RunSynthesize
    <3> QED
      BY <2>0, <3>1 DEF poolVars
  <2> QED
    BY <2>1, <2>2, <2>3, <2>4
<1>5. status' \in [Tasks -> {"queued", "running", "completed", "failed"}] /\ faults' \in 0..MaxFaults
  <2>0. status \in [Tasks -> {"queued", "running", "completed", "failed"}] /\ faults \in 0..MaxFaults
    BY DEF TInv, TypeOK
  <2>1. \/ UNCHANGED status
        \/ \E v \in {"completed", "failed"} : status' = [status EXCEPT ![t] = v]
    BY DEF Run, RunStart, RunStartFails, StreamStarted, StreamProgress, StreamTerminal, StreamEnds, StreamBreaks, StreamRaises, RunFreeSlot, RunFreeUser, RunUncount, RunSynthesize, Verdict
  <2>2. UNCHANGED faults \/ (faults < MaxFaults /\ faults' = faults + 1)
    BY DEF Run, RunStart, RunStartFails, StreamStarted, StreamProgress, StreamTerminal, StreamEnds, StreamBreaks, StreamRaises, RunFreeSlot, RunFreeUser, RunUncount, RunSynthesize
  <2> QED
    BY <2>0, <2>1, <2>2, SizesAssumption
<1>6. outcome' \in [Tasks -> [success : BOOLEAN, terminal : BOOLEAN]]
  <2>0. outcome \in [Tasks -> [success : BOOLEAN, terminal : BOOLEAN]]
    BY DEF TInv, TypeOK
  <2>1. CASE StreamRaises(t)
    BY <2>0, <2>1, OutcomeUpdate DEF StreamRaises
  <2>2. ASSUME NEW type \in TerminalEvents, StreamTerminal(t, type)
        PROVE  outcome' \in [Tasks -> [success : BOOLEAN, terminal : BOOLEAN]]
    BY <2>0, <2>2 DEF StreamTerminal
  <2>3. CASE StreamBreaks(t)
    BY <2>0, <2>3 DEF StreamBreaks
  <2>4. CASE ~ StreamRaises(t) /\ ~ StreamBreaks(t) /\ ~ \E type \in TerminalEvents : StreamTerminal(t, type)
    <3>1. UNCHANGED outcome
      BY <2>4 DEF Run, RunStart, RunStartFails, StreamStarted, StreamProgress, StreamEnds, RunFreeSlot, RunFreeUser, RunUncount, RunSynthesize
    <3> QED
      BY <2>0, <3>1
  <2> QED
    BY <2>1, <2>2, <2>3, <2>4
<1>7. TypeOK'
  BY <1>1, <1>2, <1>3, <1>4, <1>5, <1>6 DEF TInv, TypeOK
<1>8. DispatcherOK'
  BY <1>1, <1>3 DEF TInv, DispatcherOK, Claimed
<1> QED
  BY <1>7, <1>8 DEF TInv

LEMMA TInvStep == TInv /\ [Next]_vars => TInv'
<1> SUFFICES ASSUME TInv, [Next]_vars PROVE TInv'
  OBVIOUS
<1>1. CASE DispatchIdle \/ UNCHANGED vars
  BY <1>1 DEF DispatchIdle, vars, TInv, TypeOK, DispatcherOK, Claimed, HoldsSlot
<1> QED
  BY <1>1, DispatchTInv, SubmitTInv, RunTInv DEF Next

\* Every variable keeps its type, for any number of users and tasks and any sizes.
THEOREM TypeCorrect == Spec => []TypeOK
<1>1. Init => TInv
  BY InitTInv
<1> QED
  BY <1>1, TInvStep, PTL DEF Spec, TInv

-----------------------------------------------------------------------------
(* One task per user.                                                      *)

\* A queue holds tasks of its own user only.
QueuesByUser ==
    \A u \in Users : \A i \in 1..Len(queues[u]) : UserOf[queues[u][i]] = u

\* OneTaskPerUser is not inductive: that a user found idle at 120 is still idle at
\* 147, and stays marked until run_task unmarks it, is what makes it so.
SerialInv ==
    /\ OneTaskPerUser
    /\ QueuesByUser
    /\ \A t \in Tasks : HoldsUser(t) => UserOf[t] \in busy
    /\ dpc \in {"slot", "take", "mark"} => Head(todo) \notin busy
    /\ dpc = "start" => Head(todo) \in busy /\ \A t \in Tasks : HoldsUser(t) => UserOf[t] # Head(todo)
    /\ dpc \in {"mark", "start"} => UserOf[dtask] = Head(todo)

LEMMA InitSerial == Init => SerialInv
  BY DEF Init, SerialInv, OneTaskPerUser, QueuesByUser, HoldsUser, HoldsSlot

LEMMA SubmitSerial ==
  ASSUME TInv, SerialInv, NEW t \in Tasks, Submit(t)
  PROVE  SerialInv'
<1>1. UNCHANGED <<busy, dpc, todo, dtask, run>>
  BY DEF Submit, SubmitReserveKey, SubmitFindKey, SubmitDuplicate, SubmitPut, SubmitFull, SubmitAnnounce, othersOfSubmit, poolVars, dispatchVars, runVars
<1>2. QueuesByUser'
  <2>1. CASE SubmitPut(t)
    <3>1. /\ queues' = [queues EXCEPT ![UserOf[t]] = Append(queues[UserOf[t]], t)]
      BY <2>1 DEF SubmitPut, QueueWith
    <3>2. UserOf[t] \in Users /\ queues \in [Users -> Seq(Tasks)]
      BY DEF TInv, TypeOK
    <3> QED
      BY <3>1, <3>2 DEF SerialInv, QueuesByUser
  <2>2. CASE ~ SubmitPut(t)
    <3>1. UNCHANGED queues
      BY <2>2 DEF Submit, SubmitReserveKey, SubmitFindKey, SubmitDuplicate, SubmitFull, SubmitAnnounce, queueVars
    <3> QED
      BY <3>1 DEF SerialInv, QueuesByUser
  <2> QED
    BY <2>1, <2>2
<1> QED
  BY <1>1, <1>2 DEF SerialInv, OneTaskPerUser, HoldsUser, HoldsSlot

LEMMA DispatchSerial ==
  ASSUME TInv, SerialInv, Dispatch
  PROVE  SerialInv'
<1>1. CASE DispatchScan \/ DispatchEndPass \/ DispatchPick
  <2>1. dpc' \in {"scan", "pick", "busy"} /\ UNCHANGED othersOfScan
    BY <1>1 DEF DispatchScan, DispatchEndPass, DispatchPick, NextUser
  <2> QED
    BY <2>1 DEF SerialInv, OneTaskPerUser, QueuesByUser, HoldsUser, HoldsSlot, othersOfScan, queueVars, poolVars
<1>2. CASE DispatchCheckBusy
  <2>1. /\ dpc' = "pick" \/ (dpc' = "slot" /\ todo' = todo /\ Head(todo) \notin busy)
        /\ UNCHANGED othersOfScan
    BY <1>2 DEF DispatchCheckBusy, NextUser, UserBusy
  <2> QED
    BY <2>1 DEF SerialInv, OneTaskPerUser, QueuesByUser, HoldsUser, HoldsSlot, othersOfScan, queueVars, poolVars
<1>3. CASE DispatchClaimSlot
  <2>1. /\ dpc = "slot"
        /\ dpc' = "scan" \/ (dpc' = "take" /\ todo' = todo)
        /\ UNCHANGED <<queues, busy, run>>
    BY <1>3 DEF DispatchClaimSlot, queueVars
  <2> QED
    BY <2>1 DEF SerialInv, OneTaskPerUser, QueuesByUser, HoldsUser, HoldsSlot
<1>4. CASE DispatchTake
  <2>1. dpc = "take" /\ UNCHANGED <<busy, run>>
    BY <1>4 DEF DispatchTake
  <2>2. CASE queues[Head(todo)] = <<>>
    <3>1. dpc' = "pick" /\ UNCHANGED queues
      BY <1>4, <2>2 DEF DispatchTake, NextUser
    <3> QED
      BY <2>1, <3>1 DEF SerialInv, OneTaskPerUser, QueuesByUser, HoldsUser, HoldsSlot
  <2>3. CASE queues[Head(todo)] # <<>>
    <3> DEFINE u == Head(todo)
               q == queues[u]
    <3>1. /\ dtask' = Head(q)
          /\ queues' = [queues EXCEPT ![u] = Tail(q)]
          /\ dpc' = "mark"
          /\ todo' = todo
      BY <1>4, <2>3 DEF DispatchTake, QueueTaken
    <3>2. u \in Users /\ queues \in [Users -> Seq(Tasks)]
      BY <2>1 DEF TInv, TypeOK, DispatcherOK
    <3>3. q \in Seq(Tasks) /\ q # <<>>
      BY <2>3, <3>2
    <3>4. UserOf[Head(q)] = u
      BY <3>2, <3>3 DEF SerialInv, QueuesByUser
    <3>5. \A i \in 1..Len(Tail(q)) : UserOf[Tail(q)[i]] = u
      BY <3>2, <3>3 DEF SerialInv, QueuesByUser
    <3> HIDE DEF u, q
    <3>6. QueuesByUser'
      BY <3>1, <3>2, <3>5 DEF SerialInv, QueuesByUser
    <3> QED
      BY <2>1, <3>1, <3>4, <3>6 DEF SerialInv, OneTaskPerUser, HoldsUser, HoldsSlot, u
  <2> QED
    BY <2>2, <2>3
<1>5. CASE DispatchMarkBusy
  <2>1. /\ dpc = "mark" /\ dpc' = "start" /\ busy' = busy \cup {Head(todo)}
        /\ UNCHANGED <<queues, todo, dtask, run>>
    BY <1>5 DEF DispatchMarkBusy, queueVars
  <2> QED
    BY <2>1 DEF SerialInv, OneTaskPerUser, QueuesByUser, HoldsUser, HoldsSlot
<1>6. CASE DispatchStart \/ DispatchStartFails \/ DispatcherDies
  <2>1. PICK state \in {"start", "dead"}, next \in {"pick", "dead"} : LeaveIteration(state, next)
    BY <1>6 DEF DispatchStart, DispatchStartFails, DispatcherDies
  <2>2. /\ dpc = "start" /\ dpc' = next /\ run' = [run EXCEPT ![dtask] = state]
        /\ UNCHANGED <<queues, busy>>
    BY <2>1 DEF LeaveIteration, queueVars
  <2>3. \A t \in Tasks : run'[t] = IF t = dtask THEN state ELSE run[t]
    BY <2>2 DEF TInv, TypeOK
  <2> QED
    BY <2>2, <2>3 DEF SerialInv, OneTaskPerUser, QueuesByUser, HoldsUser, HoldsSlot
<1> QED
  BY <1>1, <1>2, <1>3, <1>4, <1>5, <1>6 DEF Dispatch

LEMMA RunSerial ==
  ASSUME TInv, SerialInv, NEW t \in Tasks, Run(t)
  PROVE  SerialInv'
<1>1. UNCHANGED <<queues, dpc, todo, dtask>>
  BY DEF Run, RunStart, RunStartFails, StreamStarted, StreamProgress, StreamTerminal, StreamEnds, StreamBreaks, StreamRaises, RunFreeSlot, RunFreeUser, RunUncount, RunSynthesize, othersOfRun, queueVars, dispatchVars
<1>2. CASE RunFreeUser(t)
  <2>1. run[t] = "busy" /\ busy' = busy \ {UserOf[t]} /\ run' = [run EXCEPT ![t] = "uncount"]
    BY <1>2 DEF RunFreeUser
  <2>2. \A s \in Tasks : run'[s] = IF s = t THEN "uncount" ELSE run[s]
    BY <2>1 DEF TInv, TypeOK
  <2> QED
    BY <1>1, <2>1, <2>2 DEF SerialInv, OneTaskPerUser, QueuesByUser, HoldsUser, HoldsSlot
<1>3. CASE ~ RunFreeUser(t)
  <2>1. UNCHANGED busy
    BY <1>3 DEF Run, RunStart, RunStartFails, StreamStarted, StreamProgress, StreamTerminal, StreamEnds, StreamBreaks, StreamRaises, RunFreeSlot, RunUncount, RunSynthesize, poolVars
  <2>2. \A s \in Tasks : HoldsUser(s)' => HoldsUser(s)
    BY <1>3 DEF Run, RunStart, RunStartFails, StreamStarted, StreamProgress, StreamTerminal, StreamEnds, StreamBreaks, StreamRaises, RunFreeSlot, RunUncount, RunSynthesize, TInv, TypeOK, HoldsUser, HoldsSlot
  <2> QED
    BY <1>1, <2>1, <2>2 DEF SerialInv, OneTaskPerUser, QueuesByUser
<1> QED
  BY <1>2, <1>3

LEMMA SerialStep == TInv /\ SerialInv /\ [Next]_vars => SerialInv'
<1> SUFFICES ASSUME TInv, SerialInv, [Next]_vars PROVE SerialInv'
  OBVIOUS
<1>1. CASE DispatchIdle \/ UNCHANGED vars
  BY <1>1 DEF DispatchIdle, vars, SerialInv, OneTaskPerUser, QueuesByUser, HoldsUser, HoldsSlot
<1> QED
  BY <1>1, SubmitSerial, DispatchSerial, RunSerial DEF Next

\* A user's tasks run one after the other, for any number of users, tasks and slots
\* and however the threads interleave.
THEOREM SerialPerUser == Spec => []OneTaskPerUser
<1>1. Init => TInv /\ SerialInv
  BY InitTInv, InitSerial
<1> QED
  BY <1>1, TInvStep, SerialStep, PTL DEF Spec, SerialInv

-----------------------------------------------------------------------------
(* The slots.                                                              *)

LEMMA SubmitSlots ==
  ASSUME SlotsAccounted, NEW t \in Tasks, Submit(t)
  PROVE  SlotsAccounted'
<1>1. UNCHANGED <<slots, slotOf, run, dpc, dslot, todo>>
  BY DEF Submit, SubmitReserveKey, SubmitFindKey, SubmitDuplicate, SubmitPut, SubmitFull, SubmitAnnounce, othersOfSubmit, poolVars, dispatchVars, runVars
<1> QED
  BY <1>1 DEF SlotsAccounted, HoldsSlot, Claimed

LEMMA DispatchSlots ==
  ASSUME TInv, SerialInv, SlotsAccounted, Dispatch
  PROVE  SlotsAccounted'
<1>1. CASE DispatchScan \/ DispatchEndPass \/ DispatchPick \/ DispatchCheckBusy
  <2>1. dpc \in {"scan", "pick", "busy"} /\ dpc' \in {"scan", "pick", "busy", "slot"}
    BY <1>1 DEF DispatchScan, DispatchEndPass, DispatchPick, DispatchCheckBusy, NextUser
  <2>2. UNCHANGED <<slots, slotOf, run>>
    BY <1>1 DEF DispatchScan, DispatchEndPass, DispatchPick, DispatchCheckBusy, othersOfScan, poolVars
  <2> QED
    BY <2>1, <2>2 DEF SlotsAccounted, HoldsSlot, Claimed
<1>2. CASE DispatchClaimSlot
  <2>1. dpc = "slot" /\ UNCHANGED <<slotOf, run>>
    BY <1>2 DEF DispatchClaimSlot
  <2>2. CASE \A i \in SlotIndex : slots[i] # Free
    <3>1. dpc' = "scan" /\ UNCHANGED slots
      BY <1>2, <2>2 DEF DispatchClaimSlot
    <3> QED
      BY <2>1, <3>1 DEF SlotsAccounted, HoldsSlot, Claimed
  <2>3. CASE ~ \A i \in SlotIndex : slots[i] # Free
    <3>1. PICK i \in SlotIndex :
            /\ slots[i] = Free
            /\ slots' = [slots EXCEPT ![i] = Head(todo)]
            /\ dslot' = i
            /\ dpc' = "take"
            /\ UNCHANGED todo
      BY <1>2, <2>3 DEF DispatchClaimSlot
    <3>2. \A j \in SlotIndex : slots'[j] = IF j = i THEN Head(todo) ELSE slots[j]
      BY <3>1 DEF TInv, TypeOK
    <3>3. \A t \in Tasks : HoldsSlot(t) => slotOf[t] # i /\ UserOf[t] # Free
      BY <3>1, TasksAssumption, SentinelsAssumption DEF SlotsAccounted
    <3> QED
      BY <2>1, <3>1, <3>2, <3>3 DEF SlotsAccounted, HoldsSlot, Claimed
  <2> QED
    BY <2>2, <2>3
<1>3. CASE DispatchTake
  <2>1. dpc = "take" /\ dslot \in SlotIndex /\ UNCHANGED run
    BY <1>3 DEF DispatchTake, TInv, DispatcherOK, Claimed
  <2>2. CASE queues[Head(todo)] = <<>>
    <3>1. slots' = [slots EXCEPT ![dslot] = Free] /\ dpc' = "pick" /\ UNCHANGED slotOf
      BY <1>3, <2>2 DEF DispatchTake, NextUser
    <3>2. \A j \in SlotIndex : slots'[j] = IF j = dslot THEN Free ELSE slots[j]
      BY <2>1, <3>1 DEF TInv, TypeOK
    <3> QED
      BY <2>1, <3>1, <3>2 DEF SlotsAccounted, HoldsSlot, Claimed
  <2>3. CASE queues[Head(todo)] # <<>>
    <3> DEFINE u == Head(todo)
               t == Head(queues[u])
    <3>1. slotOf' = [slotOf EXCEPT ![t] = dslot] /\ dpc' = "mark" /\ UNCHANGED <<slots, dslot, todo>>
      BY <1>3, <2>3 DEF DispatchTake
    <3>2. u \in Users /\ queues[u] \in Seq(Tasks)
      BY <2>1 DEF TInv, TypeOK, DispatcherOK
    <3>3. t \in Tasks /\ UserOf[t] = u
      BY <2>3, <3>2 DEF SerialInv, QueuesByUser
    <3>4. ~ HoldsSlot(t)
      BY <2>1, <3>3 DEF SerialInv, HoldsUser
    <3> HIDE DEF t
    <3>5. \A s \in Tasks : HoldsSlot(s) => slotOf'[s] = slotOf[s]
      BY <3>1, <3>4 DEF TInv, TypeOK
    <3> QED
      BY <2>1, <3>1, <3>5 DEF SlotsAccounted, HoldsSlot, Claimed
  <2> QED
    BY <2>2, <2>3
<1>4. CASE DispatchMarkBusy
  <2>1. dpc = "mark" /\ dpc' = "start" /\ UNCHANGED <<slots, slotOf, run, dslot, todo>>
    BY <1>4 DEF DispatchMarkBusy
  <2> QED
    BY <2>1 DEF SlotsAccounted, HoldsSlot, Claimed
<1>5. CASE DispatchStart \/ DispatchStartFails \/ DispatcherDies
  <2>1. PICK state \in {"start", "dead"}, next \in {"pick", "dead"} : LeaveIteration(state, next)
    BY <1>5 DEF DispatchStart, DispatchStartFails, DispatcherDies
  <2>2. /\ dpc = "start" /\ dpc' = next /\ run' = [run EXCEPT ![dtask] = state]
        /\ UNCHANGED <<slots, slotOf>>
    BY <2>1 DEF LeaveIteration
  <2>3. /\ dtask \in Tasks /\ slotOf[dtask] = dslot /\ dslot \in SlotIndex
        /\ slots[dslot] = UserOf[dtask]
    BY <2>2 DEF TInv, DispatcherOK, Claimed, SerialInv, SlotsAccounted
  <2>4. \A t \in Tasks : HoldsSlot(t)' <=> t = dtask \/ HoldsSlot(t)
    BY <2>2, <2>3 DEF TInv, TypeOK, HoldsSlot
  <2>5. ~ HoldsSlot(dtask) /\ \A t \in Tasks : HoldsSlot(t) => slotOf[t] # dslot
    BY <2>2, <2>3 DEF SlotsAccounted, Claimed
  <2> QED
    BY <2>2, <2>3, <2>4, <2>5 DEF SlotsAccounted, Claimed
<1> QED
  BY <1>1, <1>2, <1>3, <1>4, <1>5 DEF Dispatch

LEMMA RunSlots ==
  ASSUME TInv, SlotsAccounted, NEW t \in Tasks, Run(t)
  PROVE  SlotsAccounted'
<1>1. UNCHANGED <<dpc, dslot, todo, slotOf>>
  BY DEF Run, RunStart, RunStartFails, StreamStarted, StreamProgress, StreamTerminal, StreamEnds, StreamBreaks, StreamRaises, RunFreeSlot, RunFreeUser, RunUncount, RunSynthesize, othersOfRun, dispatchVars
<1>2. CASE RunFreeSlot(t)
  <2>1. run[t] = "slot" /\ slots' = [slots EXCEPT ![slotOf[t]] = Free] /\ run' = [run EXCEPT ![t] = "busy"]
    BY <1>2 DEF RunFreeSlot, SlotToFree
  <2>2. \A s \in Tasks : HoldsSlot(s)' <=> HoldsSlot(s) /\ s # t
    BY <2>1 DEF TInv, TypeOK, HoldsSlot
  <2>3. HoldsSlot(t) /\ slotOf[t] \in SlotIndex
    BY <2>1 DEF HoldsSlot, SlotsAccounted
  <2>4. \A i \in SlotIndex : slots'[i] = IF i = slotOf[t] THEN Free ELSE slots[i]
    BY <2>1, <2>3 DEF TInv, TypeOK
  <2>5. Claimed => dslot \in SlotIndex
    BY DEF TInv, DispatcherOK
  <2> QED
    BY <1>1, <2>2, <2>3, <2>4, <2>5 DEF SlotsAccounted, Claimed
<1>3. CASE ~ RunFreeSlot(t)
  <2>1. UNCHANGED slots
    BY <1>3 DEF Run, RunStart, RunStartFails, StreamStarted, StreamProgress, StreamTerminal, StreamEnds, StreamBreaks, StreamRaises, RunFreeUser, RunUncount, RunSynthesize, poolVars
  <2>2. \A s \in Tasks : HoldsSlot(s)' <=> HoldsSlot(s)
    BY <1>3 DEF Run, RunStart, RunStartFails, StreamStarted, StreamProgress, StreamTerminal, StreamEnds, StreamBreaks, StreamRaises, RunFreeUser, RunUncount, RunSynthesize, TInv, TypeOK, HoldsSlot
  <2> QED
    BY <1>1, <2>1, <2>2 DEF SlotsAccounted, Claimed
<1> QED
  BY <1>2, <1>3

LEMMA BaseStep == TInv /\ SerialInv /\ SlotsAccounted /\ [Next]_vars => (TInv /\ SerialInv /\ SlotsAccounted)'
<1> SUFFICES ASSUME TInv, SerialInv, SlotsAccounted, [Next]_vars
             PROVE  (TInv /\ SerialInv /\ SlotsAccounted)'
  OBVIOUS
<1>1. TInv' /\ SerialInv'
  BY TInvStep, SerialStep
<1>2. CASE DispatchIdle \/ UNCHANGED vars
  BY <1>1, <1>2 DEF DispatchIdle, vars, SlotsAccounted, HoldsSlot, Claimed
<1> QED
  BY <1>1, <1>2, SubmitSlots, DispatchSlots, RunSlots DEF Next

\* Slots and running tasks match one to one, for any number of either: no slot is
\* ever given to two tasks, cleared under a task that holds it or lost, but for a
\* task whose thread died.
THEOREM SlotsMatchTasks == Spec => []SlotsAccounted
<1>1. Init => TInv /\ SerialInv /\ SlotsAccounted
  BY InitTInv, InitSerial DEF Init, SlotsAccounted, HoldsSlot, Claimed
<1> QED
  BY <1>1, BaseStep, PTL DEF Spec

-----------------------------------------------------------------------------
(* The count of running tasks.                                             *)

\* Not enqueued yet.
Unplaced(t) == sub[t] \in {"idle", "put"}

\* A task that waits, or that the dispatcher holds, has no thread and waits nowhere
\* else: this is what makes `processed + 1' count one task more.
PlaceInv ==
    /\ \A t \in Tasks : Unplaced(t) => run[t] = "none"
    /\ \A u \in Users : \A i \in 1..Len(queues[u]) :
           /\ run[queues[u][i]] = "none"
           /\ ~ Unplaced(queues[u][i])
           /\ \A j \in 1..Len(queues[u]) : queues[u][i] = queues[u][j] => i = j
           /\ dpc \in {"mark", "start"} => queues[u][i] # dtask
    /\ dpc \in {"mark", "start"} => run[dtask] = "none" /\ ~ Unplaced(dtask)

LEMMA SubmitPlace ==
  ASSUME TInv, PlaceInv, NEW t \in Tasks, Submit(t)
  PROVE  PlaceInv'
<1>1. UNCHANGED <<dpc, dtask, run>>
  BY DEF Submit, SubmitReserveKey, SubmitFindKey, SubmitDuplicate, SubmitPut, SubmitFull, SubmitAnnounce, othersOfSubmit, dispatchVars, runVars
<1>2. \A s \in Tasks : s # t => sub'[s] = sub[s]
  BY DEF Submit, SubmitReserveKey, SubmitFindKey, SubmitDuplicate, SubmitPut, SubmitFull, SubmitAnnounce, TInv, TypeOK
<1>3. Unplaced(t)' => Unplaced(t)
  BY DEF Submit, SubmitReserveKey, SubmitFindKey, SubmitDuplicate, SubmitPut, SubmitFull, SubmitAnnounce, TInv, TypeOK, Unplaced
<1>4. CASE SubmitPut(t)
  <2> DEFINE u == UserOf[t]
  <2>1. /\ queues' = [queues EXCEPT ![u] = Append(queues[u], t)]
        /\ Unplaced(t) /\ ~ Unplaced(t)'
    BY <1>4 DEF SubmitPut, QueueWith, AtQueue, TInv, TypeOK, Unplaced
  <2>2. u \in Users /\ queues \in [Users -> Seq(Tasks)]
    BY TasksAssumption DEF TInv, TypeOK
  <2>3. \A s \in Tasks : sub'[s] \in {"idle", "put"} => Unplaced(s) /\ s # t
    BY <1>2, <2>1 DEF Unplaced
  <2>4. run[t] = "none" /\ (dpc \in {"mark", "start"} => t # dtask)
    BY <2>1 DEF PlaceInv
  <2> HIDE DEF u
  <2>5. ASSUME NEW v \in Users, NEW i \in 1..Len(queues'[v])
        PROVE  /\ run[queues'[v][i]] = "none"
               /\ sub'[queues'[v][i]] \notin {"idle", "put"}
               /\ \A j \in 1..Len(queues'[v]) : queues'[v][i] = queues'[v][j] => i = j
               /\ dpc \in {"mark", "start"} => queues'[v][i] # dtask
    <3>1. CASE v # u
      <4>1. queues'[v] = queues[v] /\ queues[v] \in Seq(Tasks) /\ queues[v][i] \in Tasks
        BY <2>1, <2>2, <3>1
      <4> QED
        BY <2>3, <2>5, <4>1 DEF PlaceInv
    <3>2. CASE v = u
      <4> DEFINE q == queues[u]
      <4>1. q \in Seq(Tasks) /\ queues'[v] = Append(q, t)
        BY <2>1, <2>2, <3>2
      <4>2. \A j \in 1..Len(q) : q[j] \in Tasks /\ ~ Unplaced(q[j]) /\ q[j] # t
        BY <2>1, <2>2, <4>1 DEF PlaceInv
      <4>3. Len(Append(q, t)) = Len(q) + 1 /\ Append(q, t)[Len(q) + 1] = t
            /\ \A j \in 1..Len(q) : Append(q, t)[j] = q[j]
        BY <4>1
      <4>4. \A j \in 1..Len(q) : \A k \in 1..Len(q) : q[j] = q[k] => j = k
        BY <2>2 DEF PlaceInv
      <4>5. \A j \in 1..Len(q) : run[q[j]] = "none" /\ (dpc \in {"mark", "start"} => q[j] # dtask)
        BY <2>2 DEF PlaceInv
      <4>6. i \in 1..(Len(q) + 1) /\ Len(q) \in Nat
        BY <4>1, <4>3, <2>5
      <4> HIDE DEF q
      <4>7. CASE i \in 1..Len(q)
        BY <4>7, <4>1, <4>2, <4>3, <4>4, <4>5, <4>6, <2>3
      <4>8. CASE i = Len(q) + 1
        <5>1. queues'[v][i] = t
          BY <4>8, <4>1, <4>3
        <5>2. \A j \in 1..Len(queues'[v]) : j # i => j \in 1..Len(q)
          BY <4>8, <4>1, <4>3, <4>6
        <5>3. \A j \in 1..Len(queues'[v]) : queues'[v][i] = queues'[v][j] => i = j
          BY <5>1, <5>2, <4>1, <4>2, <4>3
        <5> QED
          BY <5>1, <5>3, <2>3, <2>4
      <4> QED
        BY <4>6, <4>7, <4>8
    <3> QED
      BY <3>1, <3>2
  <2> QED
    BY <1>1, <2>3, <2>5 DEF PlaceInv, TInv, DispatcherOK, Unplaced
<1>5. CASE ~ SubmitPut(t)
  <2>1. UNCHANGED queues
    BY <1>5 DEF Submit, SubmitReserveKey, SubmitFindKey, SubmitDuplicate, SubmitFull, SubmitAnnounce, queueVars
  <2>2. \A s \in Tasks : Unplaced(s)' => Unplaced(s)
    BY <1>2, <1>3 DEF Unplaced
  <2>3. \A u \in Users : \A i \in 1..Len(queues[u]) : queues[u][i] \in Tasks
    BY DEF TInv, TypeOK
  <2> QED
    BY <1>1, <2>1, <2>2, <2>3 DEF PlaceInv, TInv, DispatcherOK
<1> QED
  BY <1>4, <1>5

LEMMA DispatchPlace ==
  ASSUME TInv, SerialInv, PlaceInv, Dispatch
  PROVE  PlaceInv'
<1>0. UNCHANGED sub
  BY DEF Dispatch, DispatchScan, DispatchEndPass, DispatchPick, DispatchCheckBusy, DispatchClaimSlot, DispatchTake, DispatchMarkBusy, DispatchStart, DispatchStartFails, DispatcherDies, LeaveIteration, othersOfScan, othersOfDispatch, submitVars
<1>1. CASE DispatchScan \/ DispatchEndPass \/ DispatchPick \/ DispatchCheckBusy \/ DispatchClaimSlot
  <2>1. dpc' \notin {"mark", "start"} /\ UNCHANGED <<queues, run>>
    BY <1>1 DEF DispatchScan, DispatchEndPass, DispatchPick, DispatchCheckBusy, DispatchClaimSlot, NextUser, othersOfScan, queueVars
  <2> QED
    BY <1>0, <2>1 DEF PlaceInv, Unplaced
<1>2. CASE DispatchTake
  <2>1. dpc = "take" /\ UNCHANGED run
    BY <1>2 DEF DispatchTake
  <2>2. CASE queues[Head(todo)] = <<>>
    <3>1. dpc' = "pick" /\ UNCHANGED queues
      BY <1>2, <2>2 DEF DispatchTake, NextUser
    <3> QED
      BY <1>0, <2>1, <3>1 DEF PlaceInv, Unplaced
  <2>3. CASE queues[Head(todo)] # <<>>
    <3> DEFINE u == Head(todo)
               q == queues[u]
    <3>1. /\ dtask' = Head(q)
          /\ queues' = [queues EXCEPT ![u] = Tail(q)]
          /\ dpc' = "mark"
      BY <1>2, <2>3 DEF DispatchTake, QueueTaken
    <3>2. u \in Users /\ queues \in [Users -> Seq(Tasks)]
      BY <2>1 DEF TInv, TypeOK, DispatcherOK
    <3>3. q \in Seq(Tasks) /\ q # <<>>
      BY <2>3, <3>2
    <3>4. /\ Len(q) \in Nat /\ Len(q) > 0 /\ Head(q) = q[1]
          /\ Len(Tail(q)) = Len(q) - 1
          /\ \A i \in 1..Len(Tail(q)) : Tail(q)[i] = q[i + 1] /\ i + 1 \in 1..Len(q)
      BY <3>3
    <3>5. \A i \in 1..Len(q) :
            /\ run[q[i]] = "none" /\ ~ Unplaced(q[i]) /\ UserOf[q[i]] = u
            /\ \A j \in 1..Len(q) : q[i] = q[j] => i = j
      BY <3>2 DEF PlaceInv, SerialInv, QueuesByUser
    <3>6. run[Head(q)] = "none" /\ ~ Unplaced(Head(q)) /\ UserOf[Head(q)] = u
      BY <3>4, <3>5
    <3> HIDE DEF q, u
    <3>7. ASSUME NEW v \in Users, NEW i \in 1..Len(queues'[v])
          PROVE  /\ run[queues'[v][i]] = "none"
                 /\ ~ Unplaced(queues'[v][i])
                 /\ \A j \in 1..Len(queues'[v]) : queues'[v][i] = queues'[v][j] => i = j
                 /\ queues'[v][i] # Head(q)
      <4>1. CASE v # u
        <5>1. queues'[v] = queues[v]
          BY <3>1, <3>2, <4>1
        <5> QED
          BY <3>6, <3>7, <4>1, <5>1 DEF PlaceInv, SerialInv, QueuesByUser
      <4>2. CASE v = u
        <5>1. queues'[v] = Tail(q)
          BY <3>1, <3>2, <4>2
        <5>2. i + 1 \in 1..Len(q) /\ Tail(q)[i] = q[i + 1]
          BY <3>4, <3>7, <5>1
        <5>3. q[i + 1] # q[1]
          BY <3>4, <3>5, <3>7, <5>2
        <5>4. \A j \in 1..Len(Tail(q)) : Tail(q)[i] = Tail(q)[j] => i = j
          BY <3>4, <3>5, <3>7, <5>1, <5>2
        <5> QED
          BY <3>4, <3>5, <5>1, <5>2, <5>3, <5>4
      <4> QED
        BY <4>1, <4>2
    <3> QED
      BY <1>0, <2>1, <3>1, <3>6, <3>7 DEF PlaceInv, Unplaced
  <2> QED
    BY <2>2, <2>3
<1>3. CASE DispatchMarkBusy
  <2>1. dpc = "mark" /\ UNCHANGED <<queues, run, dtask>>
    BY <1>3 DEF DispatchMarkBusy, queueVars
  <2> QED
    BY <1>0, <2>1 DEF PlaceInv, Unplaced
<1>4. CASE DispatchStart \/ DispatchStartFails \/ DispatcherDies
  <2>1. PICK state \in {"start", "dead"}, next \in {"pick", "dead"} : LeaveIteration(state, next)
    BY <1>4 DEF DispatchStart, DispatchStartFails, DispatcherDies
  <2>2. /\ dpc = "start" /\ dpc' = next /\ run' = [run EXCEPT ![dtask] = state]
        /\ UNCHANGED queues
    BY <2>1 DEF LeaveIteration, queueVars
  <2>3. \A t \in Tasks : t # dtask => run'[t] = run[t]
    BY <2>2 DEF TInv, TypeOK
  <2>4. \A u \in Users : \A i \in 1..Len(queues[u]) : queues[u][i] \in Tasks
    BY DEF TInv, TypeOK
  <2>5. \A t \in Tasks : Unplaced(t) => t # dtask
    BY <2>2 DEF PlaceInv
  <2> QED
    BY <1>0, <2>2, <2>3, <2>4, <2>5 DEF PlaceInv, Unplaced
<1> QED
  BY <1>1, <1>2, <1>3, <1>4 DEF Dispatch

LEMMA RunPlace ==
  ASSUME TInv, PlaceInv, NEW t \in Tasks, Run(t)
  PROVE  PlaceInv'
<1>1. UNCHANGED <<queues, dpc, dtask, sub>>
  BY DEF Run, RunStart, RunStartFails, StreamStarted, StreamProgress, StreamTerminal, StreamEnds, StreamBreaks, StreamRaises, RunFreeSlot, RunFreeUser, RunUncount, RunSynthesize, othersOfRun, queueVars, dispatchVars, submitVars
<1>2. \A s \in Tasks : run[s] = "none" => run'[s] = "none"
  BY DEF Run, RunStart, RunStartFails, StreamStarted, StreamProgress, StreamTerminal, StreamEnds, StreamBreaks, StreamRaises, RunFreeSlot, RunFreeUser, RunUncount, RunSynthesize, TInv, TypeOK
<1>3. \A u \in Users : \A i \in 1..Len(queues[u]) : queues[u][i] \in Tasks
  BY DEF TInv, TypeOK
<1> QED
  BY <1>1, <1>2, <1>3 DEF PlaceInv, Unplaced, TInv, DispatcherOK

LEMMA PlaceStep == TInv /\ SerialInv /\ PlaceInv /\ [Next]_vars => PlaceInv'
<1> SUFFICES ASSUME TInv, SerialInv, PlaceInv, [Next]_vars PROVE PlaceInv'
  OBVIOUS
<1>1. CASE DispatchIdle \/ UNCHANGED vars
  BY <1>1 DEF DispatchIdle, vars, PlaceInv, Unplaced
<1> QED
  BY <1>1, SubmitPlace, DispatchPlace, RunPlace DEF Next

CountedTasks == {t \in Tasks : Counted(t)}

\* The dispatcher has passed the check of `processed' for the user it looks at.
CountInv ==
    /\ CapacityRespected
    /\ dpc \in {"busy", "slot", "take", "mark", "start"} => processed < BatchSize

LEMMA CountedFinite == IsFiniteSet(CountedTasks) /\ Cardinality(CountedTasks) \in Nat
  BY TasksAssumption, FS_Subset, FS_CardinalityType DEF CountedTasks

\* A step that changes neither who is counted nor the count.
LEMMA SameCount ==
  ASSUME CountInv, UNCHANGED processed,
         \A t \in Tasks : Counted(t)' <=> Counted(t),
         dpc' \in {"busy", "slot", "take", "mark", "start"} =>
             dpc \in {"busy", "slot", "take", "mark", "start"} \/ processed < BatchSize
  PROVE  CountInv'
<1>1. {t \in Tasks : Counted(t)}' = {t \in Tasks : Counted(t)}
  OBVIOUS
<1> QED
  BY <1>1 DEF CountInv, CapacityRespected

LEMMA SubmitCount ==
  ASSUME CountInv, NEW t \in Tasks, Submit(t)
  PROVE  CountInv'
<1>1. UNCHANGED <<processed, dpc, run>>
  BY DEF Submit, SubmitReserveKey, SubmitFindKey, SubmitDuplicate, SubmitPut, SubmitFull, SubmitAnnounce, othersOfSubmit, poolVars, dispatchVars, runVars
<1> QED
  BY <1>1, SameCount DEF Counted, HoldsUser, HoldsSlot

LEMMA DispatchCount ==
  ASSUME TInv, PlaceInv, CountInv, Dispatch
  PROVE  CountInv'
<1>1. CASE DispatchScan \/ DispatchEndPass \/ DispatchPick \/ DispatchCheckBusy \/ DispatchClaimSlot \/ DispatchTake \/ DispatchMarkBusy
  <2>1. UNCHANGED <<processed, run>>
    BY <1>1 DEF DispatchScan, DispatchEndPass, DispatchPick, DispatchCheckBusy, DispatchClaimSlot, DispatchTake, DispatchMarkBusy, othersOfScan, poolVars
  <2>2. dpc' \in {"busy", "slot", "take", "mark", "start"} =>
            dpc \in {"busy", "slot", "take", "mark", "start"} \/ processed < BatchSize
    BY <1>1, SizesAssumption DEF DispatchScan, DispatchEndPass, DispatchPick, DispatchCheckBusy, DispatchClaimSlot, DispatchTake, DispatchMarkBusy, NextUser, AtCapacity, TInv, TypeOK
  <2> QED
    BY <2>1, <2>2, SameCount DEF Counted, HoldsUser, HoldsSlot
<1>2. CASE DispatchStart \/ DispatchStartFails \/ DispatcherDies
  <2>1. PICK state \in {"start", "dead"}, next \in {"pick", "dead"} : LeaveIteration(state, next)
    BY <1>2 DEF DispatchStart, DispatchStartFails, DispatcherDies
  <2>2. /\ dpc = "start" /\ dpc' = next /\ run' = [run EXCEPT ![dtask] = state]
        /\ processed' = processed + 1
    BY <2>1 DEF LeaveIteration
  <2>3. dtask \in Tasks /\ run[dtask] = "none"
    BY <2>2 DEF TInv, DispatcherOK, PlaceInv
  <2>4. CountedTasks' = CountedTasks \cup {dtask} /\ dtask \notin CountedTasks
    BY <2>2, <2>3 DEF CountedTasks, Counted, HoldsUser, HoldsSlot, TInv, TypeOK
  <2>5. Cardinality(CountedTasks') = Cardinality(CountedTasks) + 1
    BY <2>4, CountedFinite, FS_AddElement
  <2>6. processed = Cardinality(CountedTasks) /\ processed < BatchSize
    BY <2>2 DEF CountInv, CapacityRespected, CountedTasks
  <2> QED
    BY <2>2, <2>5, <2>6, CountedFinite, SizesAssumption DEF CountInv, CapacityRespected, CountedTasks
<1> QED
  BY <1>1, <1>2 DEF Dispatch

LEMMA RunCount ==
  ASSUME TInv, CountInv, NEW t \in Tasks, Run(t)
  PROVE  CountInv'
<1>1. UNCHANGED dpc
  BY DEF Run, RunStart, RunStartFails, StreamStarted, StreamProgress, StreamTerminal, StreamEnds, StreamBreaks, StreamRaises, RunFreeSlot, RunFreeUser, RunUncount, RunSynthesize, othersOfRun, dispatchVars
<1>2. CASE RunUncount(t)
  <2>1. /\ run[t] = "uncount" /\ processed' = processed - 1
        /\ \A s \in Tasks : run'[s] = IF s = t THEN run'[t] ELSE run[s]
        /\ run'[t] \in {"synth", "done"}
    BY <1>2 DEF RunUncount, TInv, TypeOK
  <2>2. CountedTasks' = CountedTasks \ {t} /\ t \in CountedTasks
    BY <2>1 DEF CountedTasks, Counted, HoldsUser, HoldsSlot
  <2>3. Cardinality(CountedTasks') = Cardinality(CountedTasks) - 1
    BY <2>2, CountedFinite, FS_RemoveElement
  <2> QED
    BY <1>1, <2>1, <2>3, CountedFinite, SizesAssumption DEF CountInv, CapacityRespected, CountedTasks
<1>3. CASE ~ RunUncount(t)
  <2>1. UNCHANGED processed
    BY <1>3 DEF Run, RunStart, RunStartFails, StreamStarted, StreamProgress, StreamTerminal, StreamEnds, StreamBreaks, StreamRaises, RunFreeSlot, RunFreeUser, RunSynthesize, poolVars
  <2>2. \A s \in Tasks : Counted(s)' <=> Counted(s)
    BY <1>3 DEF Run, RunStart, RunStartFails, StreamStarted, StreamProgress, StreamTerminal, StreamEnds, StreamBreaks, StreamRaises, RunFreeSlot, RunFreeUser, RunSynthesize, TInv, TypeOK, Counted, HoldsUser, HoldsSlot
  <2> QED
    BY <1>1, <2>1, <2>2, SameCount
<1> QED
  BY <1>2, <1>3

IInv == TInv /\ SerialInv /\ SlotsAccounted /\ PlaceInv /\ CountInv

LEMMA IInvInit == Init => IInv
<1> SUFFICES ASSUME Init PROVE IInv
  OBVIOUS
<1>1. SlotsAccounted /\ PlaceInv
  BY DEF Init, SlotsAccounted, HoldsSlot, Claimed, PlaceInv, Unplaced
<1>2. CountedTasks = {}
  BY DEF Init, CountedTasks, Counted, HoldsUser, HoldsSlot
<1>3. Cardinality({t \in Tasks : Counted(t)}) = 0
  BY <1>2, FS_EmptySet DEF CountedTasks
<1>4. CountInv
  BY <1>3, SizesAssumption DEF Init, CountInv, CapacityRespected
<1> QED
  BY <1>1, <1>4, InitTInv, InitSerial DEF IInv

LEMMA IInvStep == IInv /\ [Next]_vars => IInv'
<1> SUFFICES ASSUME IInv, [Next]_vars PROVE IInv'
  OBVIOUS
<1>1. TInv' /\ SerialInv' /\ SlotsAccounted' /\ PlaceInv'
  BY BaseStep, PlaceStep DEF IInv
<1>2. CountInv'
  <2>1. CASE DispatchIdle \/ UNCHANGED vars
    BY <2>1, SameCount DEF DispatchIdle, vars, IInv, Counted, HoldsUser, HoldsSlot
  <2> QED
    BY <2>1, SubmitCount, DispatchCount, RunCount DEF Next, IInv
<1> QED
  BY <1>1, <1>2 DEF IInv

\* The unlocked counter is exact and never above BATCH_SIZE, for any number of tasks.
THEOREM CapacityHolds == Spec => []CapacityRespected
<1>1. IInv => CapacityRespected
  BY DEF IInv, CountInv
<1> QED
  BY <1>1, IInvInit, IInvStep, PTL DEF Spec

\* The queue of the user the dispatcher looks at is not emptied under its hands.
QueueInv == dpc \in {"busy", "slot", "take"} => queues[Head(todo)] # <<>>

LEMMA QueueStep == TInv /\ QueueInv /\ [Next]_vars => QueueInv'
<1> SUFFICES ASSUME TInv, QueueInv, [Next]_vars PROVE QueueInv'
  OBVIOUS
<1>1. CASE DispatchIdle \/ UNCHANGED vars
  BY <1>1 DEF DispatchIdle, vars, QueueInv
<1>2. ASSUME NEW t \in Tasks, Run(t) PROVE QueueInv'
  BY <1>2 DEF Run, RunStart, RunStartFails, StreamStarted, StreamProgress, StreamTerminal, StreamEnds, StreamBreaks, StreamRaises, RunFreeSlot, RunFreeUser, RunUncount, RunSynthesize, othersOfRun, queueVars, dispatchVars, QueueInv
<1>3. ASSUME NEW t \in Tasks, Submit(t) PROVE QueueInv'
  <2>1. UNCHANGED <<dpc, todo>>
    BY <1>3 DEF Submit, SubmitReserveKey, SubmitFindKey, SubmitDuplicate, SubmitPut, SubmitFull, SubmitAnnounce, othersOfSubmit, dispatchVars
  <2>2. CASE SubmitPut(t)
    <3>1. queues' = [queues EXCEPT ![UserOf[t]] = Append(queues[UserOf[t]], t)]
      BY <2>2 DEF SubmitPut, QueueWith
    <3>2. dpc \in {"busy", "slot", "take"} => Head(todo) \in Users
      BY DEF TInv, TypeOK, DispatcherOK
    <3>3. Append(queues[UserOf[t]], t) # <<>>
      <4>1. queues[UserOf[t]] \in Seq(Tasks)
        BY TasksAssumption DEF TInv, TypeOK
      <4> QED
        BY <4>1, AppendProperties
    <3>4. \A u \in Users : queues'[u] = IF u = UserOf[t] THEN Append(queues[UserOf[t]], t) ELSE queues[u]
      BY <3>1 DEF TInv, TypeOK
    <3> QED
      BY <2>1, <3>2, <3>3, <3>4 DEF QueueInv
  <2>3. CASE ~ SubmitPut(t)
    <3>1. UNCHANGED queues
      BY <1>3, <2>3 DEF Submit, SubmitReserveKey, SubmitFindKey, SubmitDuplicate, SubmitFull, SubmitAnnounce, queueVars
    <3> QED
      BY <2>1, <3>1 DEF QueueInv
  <2> QED
    BY <2>2, <2>3
<1>4. CASE Dispatch
  <2>1. CASE DispatchPick \/ DispatchCheckBusy
    BY <2>1 DEF DispatchPick, NothingQueued, DispatchCheckBusy, NextUser, othersOfScan, queueVars, QueueInv
  <2>2. CASE DispatchClaimSlot
    <3>1. /\ dpc = "slot" /\ UNCHANGED queues
          /\ dpc' = "scan" \/ (dpc' = "take" /\ UNCHANGED todo)
      BY <2>2 DEF DispatchClaimSlot, queueVars
    <3> QED
      BY <3>1 DEF QueueInv
  <2>3. CASE ~ (DispatchPick \/ DispatchCheckBusy \/ DispatchClaimSlot)
    <3>1. dpc' \notin {"busy", "slot", "take"}
      BY <1>4, <2>3 DEF Dispatch, DispatchScan, DispatchEndPass, DispatchTake, DispatchMarkBusy, DispatchStart, DispatchStartFails, DispatcherDies, LeaveIteration, NextUser
    <3> QED
      BY <3>1 DEF QueueInv
  <2> QED
    BY <2>1, <2>2, <2>3
<1> QED
  BY <1>1, <1>2, <1>3, <1>4 DEF Next

\* With every slot taken by a task of its own, as many tasks as slots are counted.
LEMMA SlotIsFree ==
  ASSUME IInv, dpc = "slot"
  PROVE  \E i \in SlotIndex : slots[i] = Free
<1> SUFFICES ASSUME \A i \in SlotIndex : slots[i] # Free PROVE FALSE
  OBVIOUS
<1>1. \A i \in SlotIndex : \E t \in Tasks : HoldsSlot(t) /\ slotOf[t] = i
  BY DEF IInv, SlotsAccounted, Claimed
<1> DEFINE holder == [i \in SlotIndex |-> CHOOSE t \in Tasks : HoldsSlot(t) /\ slotOf[t] = i]
<1>2. \A i \in SlotIndex : holder[i] \in CountedTasks /\ slotOf[holder[i]] = i
  BY <1>1 DEF CountedTasks, Counted, HoldsUser
<1>3. holder \in [SlotIndex -> CountedTasks]
  BY <1>2
<1>4. IsFiniteSet(SlotIndex) /\ Cardinality(SlotIndex) = BatchSize
  BY FS_Interval, SizesAssumption DEF SlotIndex
<1>5. Cardinality(CountedTasks) < Cardinality(SlotIndex)
  BY <1>4 DEF IInv, CountInv, CapacityRespected, CountedTasks
<1> HIDE DEF holder
<1>6. \E i, j \in SlotIndex : i # j /\ holder[i] = holder[j]
  BY <1>3, <1>4, <1>5, CountedFinite, FS_PigeonHole
<1> QED
  BY <1>2, <1>6

\* Once `processed' was below BATCH_SIZE a slot is free, and once the queue had a
\* task it still has: the `break' at 125 and the handler at 134-137 are never
\* reached.
THEOREM ClaimAlwaysSucceeds == Spec => []ClaimSucceeds
<1>1. Init => IInv /\ QueueInv
  BY IInvInit DEF Init, QueueInv
<1>2. IInv /\ QueueInv /\ [Next]_vars => (IInv /\ QueueInv)'
  BY IInvStep, QueueStep DEF IInv
<1>3. IInv /\ QueueInv => ClaimSucceeds
  BY SlotIsFree DEF ClaimSucceeds, QueueInv
<1> QED
  BY <1>1, <1>2, <1>3, PTL DEF Spec

-----------------------------------------------------------------------------
(* The index of idempotency keys.                                          *)

\* What a request with a key was answered, or will be, is the task in the index, and
\* that task holds its own key from the moment it was reserved: a thread reads the
\* index (SubmitDuplicate) after another step than the one that found the key.
KeyInv ==
    /\ \A t \in Tasks : sub[t] = "put" => KeyOf[t] # NoKey
    /\ \A t \in Tasks : sub[t] # "done" <=> answer[t] = NoTask
    /\ \A t \in Tasks : sub[t] = "done" =>
           answer[t] = IF KeyOf[t] = NoKey THEN t ELSE index[KeyOf[t]]
    /\ \A t \in Tasks : sub[t] \in {"put", "full", "announce"} /\ KeyOf[t] # NoKey =>
           index[KeyOf[t]] = t
    /\ \A t \in Tasks : sub[t] = "dup" => index[KeyOf[t]] # NoTask
    /\ \A k \in Keys : index[k] # NoTask =>
           KeyOf[index[k]] = k /\ sub[index[k]] \notin {"idle", "dup"}

LEMMA InitKey == Init => KeyInv
  BY DEF Init, KeyInv

LEMMA SubmitKey ==
  ASSUME TInv, KeyInv, NEW t \in Tasks, Submit(t)
  PROVE  KeyInv'
<1>0. /\ sub \in [Tasks -> {"idle", "dup", "put", "full", "announce", "done"}]
      /\ answer \in [Tasks -> Tasks \cup {NoTask}]
      /\ index \in [Keys -> Tasks \cup {NoTask}]
      /\ \A s \in Tasks : KeyOf[s] \in Keys \cup {NoKey}
      /\ sub[t] = "dup" => KeyOf[t] # NoKey
  BY DEF TInv, TypeOK, DispatcherOK
<1>1. CASE SubmitReserveKey(t)
  <2>1. /\ sub[t] = "idle" /\ KeyOf[t] \in Keys /\ index[KeyOf[t]] = NoTask
        /\ index' = [index EXCEPT ![KeyOf[t]] = t]
        /\ sub' = [sub EXCEPT ![t] = "put"]
        /\ answer' = answer
    BY <1>0, <1>1 DEF SubmitReserveKey, KnownKey
  <2>2. \A k \in Keys : index'[k] = IF k = KeyOf[t] THEN t ELSE index[k]
    BY <1>0, <2>1
  <2>3. \A s \in Tasks : sub'[s] = IF s = t THEN "put" ELSE sub[s]
    BY <1>0, <2>1
  <2> QED
    BY <1>0, <2>1, <2>2, <2>3 DEF KeyInv
<1>2. CASE SubmitFindKey(t)
  <2>1. /\ sub[t] = "idle" /\ index[KeyOf[t]] # NoTask
        /\ UNCHANGED <<index, answer>>
        /\ sub' = [sub EXCEPT ![t] = "dup"]
    BY <1>2 DEF SubmitFindKey, KnownKey
  <2> QED
    BY <1>0, <2>1 DEF KeyInv
<1>3. CASE SubmitDuplicate(t)
  <2>1. /\ sub[t] = "dup" /\ KeyOf[t] \in Keys
        /\ answer' = [answer EXCEPT ![t] = index[KeyOf[t]]]
        /\ sub' = [sub EXCEPT ![t] = "done"]
        /\ index' = index
    BY <1>0, <1>3 DEF SubmitDuplicate
  <2> QED
    BY <1>0, <2>1 DEF KeyInv
<1>4. CASE SubmitPut(t) \/ SubmitFull(t)
  <2>1. /\ AtQueue(t) /\ UNCHANGED <<index, answer>>
        /\ sub' = [sub EXCEPT ![t] = sub'[t]] /\ sub'[t] \in {"announce", "full"}
    BY <1>0, <1>4 DEF SubmitPut, SubmitFull
  <2>2. sub[t] = "put" \/ (sub[t] = "idle" /\ KeyOf[t] = NoKey)
    BY <2>1 DEF AtQueue
  <2>3. \A s \in Tasks : s # t => sub'[s] = sub[s]
    BY <1>0, <2>1
  <2> QED
    BY <1>0, <2>1, <2>2, <2>3 DEF KeyInv
<1>5. CASE SubmitAnnounce(t)
  <2>1. /\ sub[t] = "announce" /\ index' = index
        /\ sub' = [sub EXCEPT ![t] = "done"]
        /\ answer' = [answer EXCEPT ![t] = t]
    BY <1>5 DEF SubmitAnnounce
  <2> QED
    BY <1>0, <2>1 DEF KeyInv
<1> QED
  BY <1>1, <1>2, <1>3, <1>4, <1>5 DEF Submit

LEMMA DispatchSubmitVars == Dispatch => UNCHANGED submitVars
  BY DEF Dispatch, DispatchScan, DispatchEndPass, DispatchPick, DispatchCheckBusy, DispatchClaimSlot, DispatchTake, DispatchMarkBusy, DispatchStart, DispatchStartFails, DispatcherDies, LeaveIteration, othersOfScan, othersOfDispatch

LEMMA RunOthers == ASSUME NEW t \in Tasks, Run(t) PROVE UNCHANGED othersOfRun
  BY DEF Run, RunStart, RunStartFails, StreamStarted, StreamProgress, StreamTerminal, StreamEnds, StreamBreaks, StreamRaises, RunFreeSlot, RunFreeUser, RunUncount, RunSynthesize

LEMMA SubmitOthers == ASSUME NEW t \in Tasks, Submit(t) PROVE UNCHANGED othersOfSubmit
  BY DEF Submit, SubmitReserveKey, SubmitFindKey, SubmitDuplicate, SubmitPut, SubmitFull, SubmitAnnounce

LEMMA KeyStep == TInv /\ KeyInv /\ [Next]_vars => KeyInv'
<1> SUFFICES ASSUME TInv, KeyInv, [Next]_vars PROVE KeyInv'
  OBVIOUS
<1>1. CASE UNCHANGED submitVars
  BY <1>1 DEF submitVars, KeyInv
<1>2. CASE \E t \in Tasks : Submit(t)
  BY <1>2, SubmitKey
<1>3. UNCHANGED submitVars \/ \E t \in Tasks : Submit(t)
  BY DispatchSubmitVars, RunOthers DEF Next, DispatchIdle, vars, submitVars, othersOfRun
<1> QED
  BY <1>1, <1>2, <1>3

-----------------------------------------------------------------------------
(* Where a task is.                                                        *)

\* Its put() has returned and its caller has been told so, or will be.
Enqueued(t) == sub[t] = "announce" \/ answer[t] = t

InQueue(t) == \E i \in 1..Len(queues[UserOf[t]]) : queues[UserOf[t]][i] = t

Placed(t) == InQueue(t) \/ dtask = t \/ run[t] # "none"

PlacedInv ==
    /\ dtask # NoTask => dpc \in {"mark", "start"}
    /\ \A t \in Tasks : Placed(t) <=> Enqueued(t)

LEMMA InitPlaced == Init => PlacedInv
  BY DEF Init, PlacedInv, Placed, InQueue, Enqueued

LEMMA SubmitPlaced ==
  ASSUME TInv, KeyInv, PlacedInv, NEW t \in Tasks, Submit(t)
  PROVE  PlacedInv'
<1>0. /\ sub \in [Tasks -> {"idle", "dup", "put", "full", "announce", "done"}]
      /\ answer \in [Tasks -> Tasks \cup {NoTask}]
      /\ index \in [Keys -> Tasks \cup {NoTask}]
      /\ queues \in [Users -> Seq(Tasks)]
      /\ \A s \in Tasks : UserOf[s] \in Users
  BY DEF TInv, TypeOK
<1>1. UNCHANGED <<dpc, dtask, run>>
  BY SubmitOthers DEF othersOfSubmit, dispatchVars, runVars
<1>2. \A s \in Tasks : s # t => (Enqueued(s)' <=> Enqueued(s))
  BY <1>0 DEF Submit, SubmitReserveKey, SubmitFindKey, SubmitDuplicate, SubmitPut, SubmitFull, SubmitAnnounce, Enqueued
<1>3. CASE SubmitPut(t)
  <2> DEFINE u == UserOf[t]
             q == queues[u]
  <2>1. /\ queues' = [queues EXCEPT ![u] = Append(q, t)]
        /\ Enqueued(t)'
    BY <1>0, <1>3 DEF SubmitPut, QueueWith, Enqueued
  <2>2. q \in Seq(Tasks) /\ u \in Users
    BY <1>0
  <2>3. /\ Len(q) \in Nat /\ Len(Append(q, t)) = Len(q) + 1 /\ Append(q, t)[Len(q) + 1] = t
        /\ \A i \in 1..Len(q) : Append(q, t)[i] = q[i]
    BY <2>2
  <2>4. \A v \in Users : queues'[v] = IF v = u THEN Append(q, t) ELSE queues[v]
    BY <1>0, <2>1, <2>2
  <2> HIDE DEF q
  <2>5. InQueue(t)'
    <3>1. queues'[UserOf[t]] = Append(q, t)
      BY <2>2, <2>4
    <3>2. Len(q) + 1 \in 1..Len(Append(q, t))
      BY <2>3
    <3> QED
      BY <2>3, <3>1, <3>2 DEF InQueue
  <2>6. ASSUME NEW s \in Tasks, s # t PROVE InQueue(s)' <=> InQueue(s)
    <3>1. CASE UserOf[s] # u
      BY <1>0, <2>4, <3>1 DEF InQueue
    <3>2. CASE UserOf[s] = u
      <4>1. queues'[UserOf[s]] = Append(q, t) /\ queues[UserOf[s]] = q
        BY <2>2, <2>4, <3>2 DEF q
      <4> QED
        BY <2>3, <2>6, <4>1 DEF InQueue
    <3> QED
      BY <3>1, <3>2
  <2> QED
    BY <1>1, <1>2, <2>1, <2>5, <2>6 DEF PlacedInv, Placed
<1>4. CASE ~ SubmitPut(t)
  <2>1. UNCHANGED queues
    BY <1>4 DEF Submit, SubmitReserveKey, SubmitFindKey, SubmitDuplicate, SubmitFull, SubmitAnnounce, queueVars
  <2>2. Enqueued(t)' <=> Enqueued(t)
    <3>1. CASE SubmitDuplicate(t)
      BY <1>0, <3>1 DEF SubmitDuplicate, KeyInv, Enqueued, TInv, DispatcherOK
    <3>2. CASE SubmitAnnounce(t)
      BY <1>0, <3>2 DEF SubmitAnnounce, Enqueued
    <3>3. CASE SubmitReserveKey(t) \/ SubmitFindKey(t) \/ SubmitFull(t)
      BY <1>0, <3>3 DEF SubmitReserveKey, SubmitFindKey, SubmitFull, AtQueue, Enqueued
    <3> QED
      BY <1>4, <3>1, <3>2, <3>3 DEF Submit
  <2> QED
    BY <1>1, <1>2, <2>1, <2>2 DEF PlacedInv, Placed, InQueue
<1> QED
  BY <1>3, <1>4

LEMMA DispatchPlaced ==
  ASSUME TInv, SerialInv, PlacedInv, Dispatch
  PROVE  PlacedInv'
<1>0. UNCHANGED <<sub, answer>> /\ \A t \in Tasks : UserOf[t] \in Users
  BY DispatchSubmitVars DEF submitVars
<1>1. CASE DispatchScan \/ DispatchEndPass \/ DispatchPick \/ DispatchCheckBusy \/ DispatchClaimSlot
  <2>1. dpc \notin {"mark", "start"} /\ UNCHANGED <<queues, run, dtask>>
    BY <1>1 DEF DispatchScan, DispatchEndPass, DispatchPick, DispatchCheckBusy, DispatchClaimSlot, othersOfScan, queueVars
  <2> QED
    BY <1>0, <2>1 DEF PlacedInv, Placed, InQueue, Enqueued
<1>2. CASE DispatchTake
  <2>1. dpc = "take" /\ dtask = NoTask /\ UNCHANGED run
    BY <1>2 DEF DispatchTake, PlacedInv
  <2>2. CASE queues[Head(todo)] = <<>>
    <3>1. dpc' = "pick" /\ UNCHANGED <<queues, dtask>>
      BY <1>2, <2>2 DEF DispatchTake, NextUser
    <3> QED
      BY <1>0, <2>1, <3>1 DEF PlacedInv, Placed, InQueue, Enqueued
  <2>3. CASE queues[Head(todo)] # <<>>
    <3> DEFINE u == Head(todo)
               q == queues[u]
    <3>1. /\ dtask' = Head(q)
          /\ queues' = [queues EXCEPT ![u] = Tail(q)]
          /\ dpc' = "mark"
      BY <1>2, <2>3 DEF DispatchTake, QueueTaken
    <3>2. u \in Users /\ queues \in [Users -> Seq(Tasks)]
      BY <2>1 DEF TInv, TypeOK, DispatcherOK
    <3>3. q \in Seq(Tasks) /\ q # <<>>
      BY <2>3, <3>2
    <3>4. /\ Len(q) \in Nat /\ Len(q) > 0 /\ Head(q) = q[1]
          /\ Len(Tail(q)) = Len(q) - 1
          /\ \A i \in 1..Len(Tail(q)) : Tail(q)[i] = q[i + 1]
      BY <3>3
    <3>5. \A i \in 1..Len(q) : UserOf[q[i]] = u
      BY <3>2 DEF SerialInv, QueuesByUser
    <3>6. q[1] \in Tasks /\ q[1] # NoTask /\ UserOf[q[1]] = u
      BY <3>3, <3>4, <3>5
    <3>7. \A v \in Users : queues'[v] = IF v = u THEN Tail(q) ELSE queues[v]
      BY <3>1, <3>2
    <3>8. queues[u] = q
      OBVIOUS
    <3> HIDE DEF q, u
    <3>9. ASSUME NEW t \in Tasks PROVE InQueue(t)' \/ dtask' = t <=> InQueue(t) \/ dtask = t
      <4>1. CASE UserOf[t] # u
        BY <1>0, <2>1, <3>1, <3>4, <3>6, <3>7, <4>1 DEF InQueue
      <4>2. CASE UserOf[t] = u
        <5>1. InQueue(t) <=> \E i \in 1..Len(q) : q[i] = t
          BY <3>8, <4>2 DEF InQueue
        <5>2. InQueue(t)' <=> \E i \in 1..(Len(q) - 1) : q[i + 1] = t
          <6>1. queues'[UserOf[t]] = Tail(q)
            BY <3>2, <3>7, <4>2
          <6>2. InQueue(t)' <=> \E i \in 1..Len(Tail(q)) : Tail(q)[i] = t
            BY <6>1 DEF InQueue
          <6> QED
            BY <3>4, <6>2
        <5>3. (\E i \in 1..Len(q) : q[i] = t) <=> q[1] = t \/ \E i \in 1..(Len(q) - 1) : q[i + 1] = t
          <6>1. ASSUME NEW i \in 1..Len(q), q[i] = t
                PROVE  q[1] = t \/ \E j \in 1..(Len(q) - 1) : q[j + 1] = t
            <7>1. CASE i = 1
              BY <6>1, <7>1
            <7>2. CASE i # 1
              <8>1. i - 1 \in 1..(Len(q) - 1) /\ (i - 1) + 1 = i
                BY <3>4, <6>1, <7>2
              <8> QED
                BY <6>1, <8>1
            <7> QED
              BY <7>1, <7>2
          <6>2. ASSUME NEW i \in 1..(Len(q) - 1), q[i + 1] = t
                PROVE  \E j \in 1..Len(q) : q[j] = t
            <7>1. i + 1 \in 1..Len(q)
              BY <3>4
            <7> QED
              BY <6>2, <7>1
          <6>3. 1 \in 1..Len(q)
            BY <3>4
          <6> QED
            BY <6>1, <6>2, <6>3
        <5>4. dtask' = q[1] /\ t # NoTask
          BY <3>1, <3>4
        <5> QED
          BY <2>1, <5>1, <5>2, <5>3, <5>4
      <4> QED
        BY <4>1, <4>2
    <3> QED
      BY <1>0, <2>1, <3>1, <3>9 DEF PlacedInv, Placed, Enqueued
  <2> QED
    BY <2>2, <2>3
<1>3. CASE DispatchMarkBusy
  <2>1. dpc' = "start" /\ UNCHANGED <<queues, run, dtask>>
    BY <1>3 DEF DispatchMarkBusy, queueVars
  <2> QED
    BY <1>0, <2>1 DEF PlacedInv, Placed, InQueue, Enqueued
<1>4. CASE DispatchStart \/ DispatchStartFails \/ DispatcherDies
  <2>1. PICK state \in {"start", "dead"}, next \in {"pick", "dead"} : LeaveIteration(state, next)
    BY <1>4 DEF DispatchStart, DispatchStartFails, DispatcherDies
  <2>2. /\ run' = [run EXCEPT ![dtask] = state] /\ dtask' = NoTask
        /\ UNCHANGED queues
    BY <2>1 DEF LeaveIteration, queueVars
  <2>3. \A t \in Tasks : run'[t] = IF t = dtask THEN state ELSE run[t]
    BY <2>2 DEF TInv, TypeOK
  <2> QED
    BY <1>0, <2>2, <2>3 DEF PlacedInv, Placed, InQueue, Enqueued
<1> QED
  BY <1>1, <1>2, <1>3, <1>4 DEF Dispatch

LEMMA RunPlaced ==
  ASSUME TInv, PlacedInv, NEW t \in Tasks, Run(t)
  PROVE  PlacedInv'
<1>1. UNCHANGED <<queues, dpc, dtask, sub, answer>>
  BY RunOthers DEF othersOfRun, queueVars, dispatchVars, submitVars
<1>2. \A s \in Tasks : run[s] = "none" <=> run'[s] = "none"
  BY DEF Run, RunStart, RunStartFails, StreamStarted, StreamProgress, StreamTerminal, StreamEnds, StreamBreaks, StreamRaises, RunFreeSlot, RunFreeUser, RunUncount, RunSynthesize, TInv, TypeOK
<1> QED
  BY <1>1, <1>2 DEF PlacedInv, Placed, InQueue, Enqueued

LEMMA PlacedStep == TInv /\ SerialInv /\ KeyInv /\ PlacedInv /\ [Next]_vars => PlacedInv'
<1> SUFFICES ASSUME TInv, SerialInv, KeyInv, PlacedInv, [Next]_vars PROVE PlacedInv'
  OBVIOUS
<1>1. CASE DispatchIdle \/ UNCHANGED vars
  BY <1>1 DEF DispatchIdle, vars, PlacedInv, Placed, InQueue, Enqueued
<1> QED
  BY <1>1, SubmitPlaced, DispatchPlaced, RunPlaced DEF Next



\* The inductive invariant of everything said about where a task is.
WhereInv == IInv /\ KeyInv /\ PlacedInv

LEMMA WhereInit == Init => WhereInv
  BY IInvInit, InitKey, InitPlaced DEF WhereInv

LEMMA WhereStep == WhereInv /\ [Next]_vars => WhereInv'
  BY IInvStep, KeyStep, PlacedStep DEF WhereInv, IInv

LEMMA WhereAlways == Spec => []WhereInv
  BY WhereInit, WhereStep, PTL DEF Spec

\* The three parts of Places, each without its set of one.
LEMMA PlacesParts ==
  ASSUME NEW t
  PROVE  Places(t) =
            {<<"queue", i>> : i \in {j \in DOMAIN queues[UserOf[t]] : queues[UserOf[t]][j] = t}}
                \cup (IF dtask = t THEN {<<"dispatcher", 0>>} ELSE {})
                \cup (IF run[t] # "none" THEN {<<"thread", 0>>} ELSE {})
<1>1. {<<"dispatcher", 0>> : x \in {y \in {dtask} : y = t}} = IF dtask = t THEN {<<"dispatcher", 0>>} ELSE {}
  OBVIOUS
<1>2. {<<"thread", 0>> : x \in {y \in {run[t]} : y # "none"}} = IF run[t] # "none" THEN {<<"thread", 0>>} ELSE {}
  OBVIOUS
<1> QED
  BY <1>1, <1>2 DEF Places

\* Only what has a place is in a queue, with the dispatcher or on a thread.
LEMMA PlacesOfNone ==
  ASSUME WhereInv, NEW t \in Tasks
  PROVE  Places(t) = {} <=> ~ Placed(t)
<1>1. queues[UserOf[t]] \in Seq(Tasks)
  BY DEF WhereInv, IInv, TInv, TypeOK
<1>2. DOMAIN queues[UserOf[t]] = 1..Len(queues[UserOf[t]])
  BY <1>1, LenProperties
<1> DEFINE P == {<<"queue", i>> : i \in {j \in DOMAIN queues[UserOf[t]] : queues[UserOf[t]][j] = t}}
<1>3. P = {} <=> ~ InQueue(t)
  <2>1. ASSUME NEW i \in 1..Len(queues[UserOf[t]]), queues[UserOf[t]][i] = t PROVE P # {}
    <3>1. <<"queue", i>> \in P
      BY <1>2, <2>1
    <3> QED
      BY <3>1
  <2>2. ASSUME NEW p \in P PROVE \E i \in 1..Len(queues[UserOf[t]]) : queues[UserOf[t]][i] = t
    BY <1>2, <2>2
  <2> QED
    BY <2>1, <2>2 DEF InQueue
<1>4. Places(t) = P \cup (IF dtask = t THEN {<<"dispatcher", 0>>} ELSE {})
                      \cup (IF run[t] # "none" THEN {<<"thread", 0>>} ELSE {})
  BY PlacesParts
<1> HIDE DEF P
<1> QED
  BY <1>3, <1>4 DEF Placed

LEMMA OnePlace ==
  ASSUME WhereInv, NEW t \in Tasks, Placed(t)
  PROVE  Cardinality(Places(t)) = 1
<1> DEFINE q == queues[UserOf[t]]
<1>1. q \in Seq(Tasks) /\ UserOf[t] \in Users
  BY DEF WhereInv, IInv, TInv, TypeOK
<1>2. DOMAIN q = 1..Len(q)
  BY <1>1, LenProperties
<1>3. \A i, j \in 1..Len(q) : q[i] = t /\ q[j] = t => i = j
  BY <1>1 DEF WhereInv, IInv, PlaceInv
<1>4. InQueue(t) => dtask # t /\ run[t] = "none"
  <2>1. ASSUME NEW i \in 1..Len(q), q[i] = t PROVE dtask # t /\ run[t] = "none"
    <3>1. run[t] = "none" /\ (dpc \in {"mark", "start"} => t # dtask)
      BY <1>1, <2>1 DEF WhereInv, IInv, PlaceInv
    <3>2. dtask # NoTask => dpc \in {"mark", "start"}
      BY DEF WhereInv, PlacedInv
    <3> QED
      BY <3>1, <3>2
  <2> QED
    BY <2>1 DEF InQueue
<1>5. dtask = t => run[t] = "none"
  BY DEF WhereInv, IInv, PlacedInv, PlaceInv
<1>6. \E p : Places(t) = {p}
  <2>1. CASE InQueue(t)
    <3>1. PICK i \in 1..Len(q) : q[i] = t
      BY <2>1 DEF InQueue
    <3>2. {j \in DOMAIN q : q[j] = t} = {i}
      BY <1>2, <1>3, <3>1
    <3>3. Places(t) = {<<"queue", i>>}
      BY <1>4, <2>1, <3>2, PlacesParts
    <3> QED
      BY <3>3
  <2>2. CASE ~ InQueue(t)
    <3>1. Places(t) = (IF dtask = t THEN {<<"dispatcher", 0>>} ELSE {})
                          \cup (IF run[t] # "none" THEN {<<"thread", 0>>} ELSE {})
      <4>1. {j \in DOMAIN q : q[j] = t} = {}
        BY <1>2, <2>2 DEF InQueue
      <4>2. {<<"queue", i>> : i \in {j \in DOMAIN q : q[j] = t}} = {}
        BY <4>1
      <4> QED
        BY <4>2, PlacesParts
    <3>2. CASE dtask = t
      BY <1>5, <3>1, <3>2
    <3>3. CASE dtask # t
      BY <2>2, <3>1, <3>3 DEF Placed
    <3> QED
      BY <3>2, <3>3
  <2> QED
    BY <2>1, <2>2
<1> QED
  BY <1>6, FS_Singleton

\* Nothing accepted is lost or runs twice and nothing else runs at all, for any number
\* of submitting threads and whatever the dispatcher is about.
THEOREM EnqueuedExactlyOnce == Spec => []EnqueuedOnce
<1>1. WhereInv => EnqueuedOnce
  BY PlacesOfNone, OnePlace DEF EnqueuedOnce, WhereInv, PlacedInv, Enqueued
<1> QED
  BY <1>1, WhereAlways, PTL

\* However many requests with one key are in flight, one is enqueued and the others
\* are answered with its task_id.
THEOREM KeyAccepted == Spec => []KeyAcceptedOnce
<1>1. ASSUME WhereInv, NEW s \in Tasks, NEW t \in Tasks,
             s # t, KeyOf[s] = KeyOf[t], KeyOf[t] # NoKey
      PROVE  /\ Places(s) = {} \/ Places(t) = {}
             /\ Places(s) # {} => answer[t] \in {NoTask, s}
  <2>1. \A r \in Tasks : Places(r) # {} => Enqueued(r)
    BY <1>1, PlacesOfNone DEF WhereInv, PlacedInv
  <2>2. \A r \in Tasks : Enqueued(r) /\ KeyOf[r] # NoKey => index[KeyOf[r]] = r
    BY <1>1 DEF WhereInv, KeyInv, Enqueued
  <2>3. answer[t] # NoTask => answer[t] = index[KeyOf[t]]
    BY <1>1 DEF WhereInv, KeyInv
  <2> QED
    BY <1>1, <2>1, <2>2, <2>3
<1>2. WhereInv => KeyAcceptedOnce
  BY <1>1 DEF KeyAcceptedOnce
<1> QED
  BY <1>2, WhereAlways, PTL

-----------------------------------------------------------------------------
(* The scheduler implements TaskService.                                   *)

\* The abstract queue of a user.
Held(u) == IF dtask # NoTask /\ UserOf[dtask] = u THEN <<dtask>> ELSE <<>>
Pending == [u \in Users |-> Held(u) \o queues[u]]
Running == {t \in Tasks : HoldsUser(t)}
Finished == {t \in Tasks : run[t] \in {"uncount", "synth", "done"}}

\* Service's definitions in these terms.
LEMMA ServiceInit ==
  Service!Init <=> Pending = [u \in Users |-> <<>>] /\ Running = {} /\ Finished = {}
  BY DEF Service!Init, Pending, Held, Running, Finished

LEMMA ServiceStutter ==
  UNCHANGED Service!serviceVars <=> Pending' = Pending /\ Running' = Running /\ Finished' = Finished
  BY DEF Service!serviceVars, Pending, Held, Running, Finished

\* TaskService has its own copy of the module FiniteSets.
LEMMA ServiceCardinality == ASSUME NEW S PROVE Service!Cardinality(S) = Cardinality(S)
  BY DEF Service!Cardinality, Cardinality

LEMMA ServiceBegin ==
  ASSUME NEW u
  PROVE  Service!Begin(u) <=>
            /\ Pending[u] # <<>>
            /\ \A t \in Running : UserOf[t] # u
            /\ Cardinality(Running) < BatchSize
            /\ Running' = Running \cup {Head(Pending[u])}
            /\ Pending' = [Pending EXCEPT ![u] = Tail(Pending[u])]
            /\ Finished' = Finished
  BY ServiceCardinality DEF Service!Begin, Pending, Held, Running, Finished

LEMMA ServiceFinish ==
  ASSUME NEW t
  PROVE  Service!Finish(t) <=>
            /\ t \in Running
            /\ Running' = Running \ {t}
            /\ Finished' = Finished \cup {t}
            /\ Pending' = Pending
  BY DEF Service!Finish, Pending, Held, Running, Finished

\* The tasks of a user's abstract queue.
PendingOf(u) == {Pending[u][i] : i \in 1..Len(Pending[u])}

LEMMA ServiceAccepted ==
  ASSUME NEW t, t \in Service!Accepted
  PROVE  \/ \E u \in Users : \E i \in 1..Len(Pending[u]) : t = Pending[u][i]
         \/ t \in Running \cup Finished
<1>1. Service!Accepted = (UNION {PendingOf(u) : u \in Users}) \cup Running \cup Finished
  BY DEF Service!Accepted, PendingOf, Pending, Held, Running, Finished
<1>2. CASE t \in UNION {PendingOf(u) : u \in Users}
  <2>1. PICK u \in Users : t \in PendingOf(u)
    BY <1>2
  <2> QED
    BY <2>1 DEF PendingOf
<1> QED
  BY <1>1, <1>2

LEMMA ServiceAccept ==
  ASSUME NEW t
  PROVE  Service!Accept(t) <=>
            /\ t \notin Service!Accepted
            /\ KeyOf[t] # NoKey => \A s \in Service!Accepted : KeyOf[s] # KeyOf[t]
            /\ Pending' = [Pending EXCEPT ![UserOf[t]] = Append(Pending[UserOf[t]], t)]
            /\ Running' = Running
            /\ Finished' = Finished
  BY DEF Service!Accept, Pending, Held, Running, Finished


\* What the service has accepted is what has a place in the scheduler.
LEMMA AcceptedIsPlaced ==
  ASSUME WhereInv, NEW t, t \in Service!Accepted
  PROVE  t \in Tasks /\ Placed(t)
<1>0. queues \in [Users -> Seq(Tasks)] /\ run \in [Tasks -> {"none", "start", "stream", "slot", "busy", "uncount", "synth", "done", "dead"}]
      /\ dtask \in Tasks \cup {NoTask}
  BY DEF WhereInv, IInv, TInv, TypeOK
<1>1. CASE t \in Running \cup Finished
  BY <1>1 DEF Running, Finished, HoldsUser, HoldsSlot, Placed
<1>2. CASE t \notin Running \cup Finished
  <2>1. PICK u \in Users : \E i \in 1..Len(Pending[u]) : t = Pending[u][i]
    BY <1>2, ServiceAccepted
  <2>2. PICK i \in 1..Len(Held(u) \o queues[u]) : t = (Held(u) \o queues[u])[i]
    BY <2>1 DEF Pending
  <2> DEFINE q == queues[u]
  <2>3. q \in Seq(Tasks) /\ Len(q) \in Nat
    BY <1>0
  <2>4. \A j \in 1..Len(q) : q[j] \in Tasks /\ UserOf[q[j]] = u
    BY <2>3 DEF WhereInv, IInv, SerialInv, QueuesByUser
  <2>5. CASE dtask # NoTask /\ UserOf[dtask] = u
    <3>1. Held(u) = <<dtask>> /\ dtask \in Tasks
      BY <1>0, <2>5 DEF Held
    <3>2. Len(<<dtask>> \o q) = Len(q) + 1
      BY <2>3, <3>1
    <3>3. \A j \in 1..(Len(q) + 1) : (<<dtask>> \o q)[j] = IF j = 1 THEN dtask ELSE q[j - 1]
      BY <2>3, <3>1
    <3> HIDE DEF q
    <3>4. i \in 1..(Len(q) + 1) /\ t = IF i = 1 THEN dtask ELSE q[i - 1]
      BY <2>2, <3>1, <3>2, <3>3 DEF q
    <3>5. CASE i = 1
      BY <3>1, <3>4, <3>5 DEF Placed
    <3>6. CASE i # 1
      <4>1. i - 1 \in 1..Len(q) /\ t = q[i - 1]
        BY <2>3, <3>4, <3>6
      <4>2. t \in Tasks /\ UserOf[t] = u
        BY <2>4, <4>1
      <4> QED
        BY <4>1, <4>2 DEF Placed, InQueue, q
    <3> QED
      BY <3>5, <3>6
  <2>6. CASE ~ (dtask # NoTask /\ UserOf[dtask] = u)
    <3>1. Held(u) = <<>> /\ <<>> \o q = q
      BY <2>3, <2>6 DEF Held
    <3>2. i \in 1..Len(q) /\ t = q[i]
      BY <2>2, <3>1
    <3>3. t \in Tasks /\ UserOf[t] = u
      BY <2>4, <3>2
    <3> QED
      BY <3>2, <3>3 DEF Placed, InQueue
  <2> QED
    BY <2>5, <2>6
<1> QED
  BY <1>1, <1>2

LEMMA SubmitRefines ==
  ASSUME WhereInv, NEW t \in Tasks, Submit(t)
  PROVE  Service!Next \/ UNCHANGED Service!serviceVars
<1>0. UNCHANGED <<dtask, run>>
  BY SubmitOthers DEF othersOfSubmit, dispatchVars, runVars
<1>1. Running' = Running /\ Finished' = Finished /\ \A u \in Users : Held(u)' = Held(u)
  BY <1>0 DEF Running, Finished, Held, HoldsUser, HoldsSlot
<1>2. CASE SubmitPut(t)
  <2> DEFINE u == UserOf[t]
             q == queues[u]
  <2>1. queues' = [queues EXCEPT ![u] = Append(q, t)] /\ AtQueue(t)
    BY <1>2 DEF SubmitPut, QueueWith
  <2>2. queues \in [Users -> Seq(Tasks)] /\ u \in Users /\ q \in Seq(Tasks)
    BY DEF WhereInv, IInv, TInv, TypeOK
  <2>3. Held(u) \in Seq(Tasks)
    BY DEF Held, WhereInv, IInv, TInv, TypeOK
  <2>4. PICK h \in Seq(Tasks) : h = Held(u)
    BY <2>3
  <2>5. h \o Append(q, t) = Append(h \o q, t)
    BY <2>2
  <2>6. Pending' = [Pending EXCEPT ![u] = Append(Pending[u], t)]
    <3>1. Pending' = [v \in Users |-> Held(v) \o queues'[v]]
      BY <1>1 DEF Pending
    <3>2. \A v \in Users : queues'[v] = IF v = u THEN Append(q, t) ELSE queues[v]
      BY <2>1, <2>2
    <3>3. \A v \in Users : Pending[v] = Held(v) \o queues[v]
      BY DEF Pending
    <3>4. \A v \in Users : Held(v) \o queues'[v] = IF v = u THEN Append(Pending[u], t) ELSE Pending[v]
      BY <2>2, <2>4, <2>5, <3>2, <3>3
    <3>5. Pending' = [v \in Users |-> IF v = u THEN Append(Pending[u], t) ELSE Pending[v]]
      BY <3>1, <3>4
    <3>6. [Pending EXCEPT ![u] = Append(Pending[u], t)] = [v \in Users |-> IF v = u THEN Append(Pending[u], t) ELSE Pending[v]]
      BY DEF Pending
    <3> QED
      BY <3>5, <3>6
  <2>7. ~ Enqueued(t) /\ (KeyOf[t] # NoKey => index[KeyOf[t]] = t)
    BY <2>1 DEF AtQueue, Enqueued, WhereInv, KeyInv
  <2>8. t \notin Service!Accepted
    BY <2>7, AcceptedIsPlaced DEF WhereInv, PlacedInv
  <2>9. KeyOf[t] # NoKey => \A s \in Service!Accepted : KeyOf[s] # KeyOf[t]
    <3>1. ASSUME KeyOf[t] # NoKey, NEW s \in Service!Accepted, KeyOf[s] = KeyOf[t] PROVE FALSE
      <4>1. s \in Tasks /\ Enqueued(s)
        BY AcceptedIsPlaced DEF WhereInv, PlacedInv
      <4>2. index[KeyOf[s]] = s
        BY <3>1, <4>1 DEF Enqueued, WhereInv, KeyInv
      <4> QED
        BY <2>7, <2>8, <3>1, <4>2
    <3> QED
      BY <3>1
  <2>10. Service!Accept(t)
    BY <1>1, <2>6, <2>8, <2>9, ServiceAccept
  <2> QED
    BY <2>10 DEF Service!Next
<1>3. CASE ~ SubmitPut(t)
  <2>1. UNCHANGED queues
    BY <1>3 DEF Submit, SubmitReserveKey, SubmitFindKey, SubmitDuplicate, SubmitFull, SubmitAnnounce, queueVars
  <2>2. Pending' = Pending
    BY <1>1, <2>1 DEF Pending
  <2> QED
    BY <1>1, <2>2, ServiceStutter
<1> QED
  BY <1>2, <1>3

LEMMA DispatchRefines ==
  ASSUME WhereInv, Dispatch
  PROVE  Service!Next \/ UNCHANGED Service!serviceVars
<1>0. queues \in [Users -> Seq(Tasks)]
  BY DEF WhereInv, IInv, TInv, TypeOK
<1>1. CASE ~ (DispatchTake \/ DispatchStart \/ DispatchStartFails \/ DispatcherDies)
  <2>1. UNCHANGED <<queues, dtask, run>>
    BY <1>1 DEF Dispatch, DispatchScan, DispatchEndPass, DispatchPick, DispatchCheckBusy, DispatchClaimSlot, DispatchMarkBusy, othersOfScan, queueVars
  <2>2. Pending' = Pending /\ Running' = Running /\ Finished' = Finished
    BY <2>1 DEF Pending, Held, Running, Finished, HoldsUser, HoldsSlot
  <2> QED
    BY <2>2, ServiceStutter
<1>2. CASE DispatchTake
  <2>1. dpc = "take" /\ UNCHANGED run /\ dtask = NoTask
    BY <1>2 DEF DispatchTake, WhereInv, PlacedInv
  <2>2. Running' = Running /\ Finished' = Finished
    BY <2>1 DEF Running, Finished, HoldsUser, HoldsSlot
  <2>3. Pending' = Pending
    <3>1. CASE queues[Head(todo)] = <<>>
      <4>1. UNCHANGED <<queues, dtask>>
        BY <1>2, <3>1 DEF DispatchTake
      <4> QED
        BY <4>1 DEF Pending, Held
    <3>2. CASE queues[Head(todo)] # <<>>
      <4>1. PICK u \in Users : u = Head(todo)
        BY <2>1 DEF WhereInv, IInv, TInv, TypeOK, DispatcherOK
      <4>2. PICK q \in Seq(Tasks) : q = queues[u] /\ q # <<>>
        BY <1>0, <3>2, <4>1
      <4>3. dtask' = Head(q) /\ queues' = [queues EXCEPT ![u] = Tail(q)]
        BY <1>2, <3>2, <4>1, <4>2 DEF DispatchTake, QueueTaken
      <4>4. Head(q) \in Tasks /\ UserOf[Head(q)] = u /\ Head(q) # NoTask
        BY <4>2 DEF WhereInv, IInv, SerialInv, QueuesByUser
      <4>5. <<Head(q)>> \o Tail(q) = q
        BY <4>2
      <4>6. \A v \in Users : Held(v) = <<>> /\ <<>> \o queues[v] = queues[v]
        BY <1>0, <2>1 DEF Held
      <4>7. \A v \in Users : Held(v)' = IF v = u THEN <<Head(q)>> ELSE <<>>
        BY <4>3, <4>4 DEF Held
      <4>8. \A v \in Users : queues'[v] = IF v = u THEN Tail(q) ELSE queues[v]
        BY <1>0, <4>3
      <4>9. \A v \in Users : Held(v)' \o queues'[v] = Held(v) \o queues[v]
        BY <4>2, <4>5, <4>6, <4>7, <4>8
      <4> QED
        BY <4>9 DEF Pending
    <3> QED
      BY <3>1, <3>2
  <2> QED
    BY <2>2, <2>3, ServiceStutter
<1>3. CASE DispatchStart \/ DispatchStartFails \/ DispatcherDies
  <2>1. PICK state \in {"start", "dead"}, next \in {"pick", "dead"} : LeaveIteration(state, next)
    BY <1>3 DEF DispatchStart, DispatchStartFails, DispatcherDies
  <2>2. /\ dpc = "start" /\ dtask' = NoTask
        /\ run' = [run EXCEPT ![dtask] = state]
        /\ UNCHANGED queues
    BY <2>1 DEF LeaveIteration, queueVars
  <2>3. PICK d \in Tasks : d = dtask /\ run[d] = "none"
    BY <2>2 DEF WhereInv, IInv, TInv, DispatcherOK, PlaceInv
  <2>4. PICK u \in Users : u = UserOf[d]
    OBVIOUS
  <2>5. \A t \in Tasks : run'[t] = IF t = d THEN state ELSE run[t]
    BY <2>2, <2>3 DEF WhereInv, IInv, TInv, TypeOK
  <2>6. Running' = Running \cup {d} /\ Finished' = Finished
    BY <2>3, <2>5 DEF Running, Finished, HoldsUser, HoldsSlot
  <2>7. \A v \in Users : Held(v) = (IF v = u THEN <<d>> ELSE <<>>) /\ Held(v)' = <<>>
    BY <2>2, <2>3, <2>4 DEF Held
  <2>8. PICK q \in Seq(Tasks) : q = queues[u]
    BY <1>0
  <2>9. Head(<<d>> \o q) = d /\ Tail(<<d>> \o q) = q /\ <<d>> \o q # <<>>
    BY <2>8
  <2>10. Pending[u] = <<d>> \o q
    BY <2>7, <2>8 DEF Pending
  <2>11. Pending' = [Pending EXCEPT ![u] = Tail(Pending[u])]
    <3>1. Pending' = [v \in Users |-> Held(v)' \o queues[v]]
      BY <2>2 DEF Pending
    <3>2. \A v \in Users : <<>> \o queues[v] = queues[v]
      BY <1>0
    <3>3. \A v \in Users : Held(v)' \o queues[v] = IF v = u THEN Tail(Pending[u]) ELSE Pending[v]
      BY <2>7, <2>8, <2>9, <2>10, <3>2 DEF Pending
    <3>4. [Pending EXCEPT ![u] = Tail(Pending[u])] = [v \in Users |-> IF v = u THEN Tail(Pending[u]) ELSE Pending[v]]
      BY DEF Pending
    <3> QED
      BY <3>1, <3>3, <3>4
  <2>12. \A t \in Running : UserOf[t] # u
    BY <2>2, <2>3, <2>4 DEF Running, WhereInv, IInv, SerialInv
  <2>13. Cardinality(Running) < BatchSize
    <3>1. Running \subseteq CountedTasks
      BY DEF Running, CountedTasks, Counted
    <3>2. Cardinality(Running) <= Cardinality(CountedTasks) /\ Cardinality(Running) \in Nat
      BY <3>1, CountedFinite, FS_Subset, FS_CardinalityType
    <3>3. processed = Cardinality(CountedTasks) /\ processed < BatchSize
      BY <2>2 DEF WhereInv, IInv, CountInv, CapacityRespected, CountedTasks
    <3> QED
      BY <3>2, <3>3, CountedFinite
  <2>14. Service!Begin(u)
    BY <2>6, <2>9, <2>10, <2>11, <2>12, <2>13, ServiceBegin
  <2> QED
    BY <2>14 DEF Service!Next
<1> QED
  BY <1>1, <1>2, <1>3

LEMMA RunRefines ==
  ASSUME WhereInv, NEW t \in Tasks, Run(t)
  PROVE  Service!Next \/ UNCHANGED Service!serviceVars
<1>0. UNCHANGED <<queues, dtask>> /\ run \in [Tasks -> {"none", "start", "stream", "slot", "busy", "uncount", "synth", "done", "dead"}]
  BY RunOthers DEF othersOfRun, queueVars, dispatchVars, WhereInv, IInv, TInv, TypeOK
<1>1. Pending' = Pending
  BY <1>0 DEF Pending, Held
<1>2. CASE RunFreeUser(t)
  <2>1. run[t] = "busy" /\ run' = [run EXCEPT ![t] = "uncount"]
    BY <1>2 DEF RunFreeUser
  <2>2. t \in Running /\ Running' = Running \ {t} /\ Finished' = Finished \cup {t}
    BY <1>0, <2>1 DEF Running, Finished, HoldsUser, HoldsSlot
  <2>3. Service!Finish(t)
    BY <1>1, <2>2, ServiceFinish
  <2> QED
    BY <2>3 DEF Service!Next
<1>3. CASE ~ RunFreeUser(t)
  <2>1. \A s \in Tasks : /\ HoldsUser(s)' <=> HoldsUser(s)
                         /\ run'[s] \in {"uncount", "synth", "done"} <=> run[s] \in {"uncount", "synth", "done"}
    BY <1>0, <1>3 DEF Run, RunStart, RunStartFails, StreamStarted, StreamProgress, StreamTerminal, StreamEnds, StreamBreaks, StreamRaises, RunFreeSlot, RunUncount, RunSynthesize, HoldsUser, HoldsSlot
  <2>2. Running' = Running /\ Finished' = Finished
    BY <2>1 DEF Running, Finished
  <2> QED
    BY <1>1, <2>2, ServiceStutter
<1> QED
  BY <1>2, <1>3

\* For every number of users, tasks and slots, and however the threads interleave,
\* fail and die: no behaviour of the scheduler is one that TaskService forbids.
THEOREM ServiceImplemented == Spec => ImplementsTaskService
<1>1. Init => Service!Init
  <2>1. Init => Pending = [u \in Users |-> <<>>] /\ Running = {} /\ Finished = {}
    BY DEF Init, Pending, Held, Running, Finished, HoldsUser, HoldsSlot
  <2> QED
    BY <2>1, ServiceInit
<1>2. WhereInv /\ [Next]_vars => [Service!Next]_(Service!serviceVars)
  <2> SUFFICES ASSUME WhereInv, [Next]_vars PROVE Service!Next \/ UNCHANGED Service!serviceVars
    OBVIOUS
  <2>1. CASE DispatchIdle \/ UNCHANGED vars
    <3>1. Pending' = Pending /\ Running' = Running /\ Finished' = Finished
      BY <2>1 DEF DispatchIdle, vars, Pending, Held, Running, Finished, HoldsUser, HoldsSlot
    <3> QED
      BY <3>1, ServiceStutter
  <2> QED
    BY <2>1, SubmitRefines, DispatchRefines, RunRefines DEF Next
<1> QED
  BY <1>1, <1>2, WhereAlways, PTL DEF Spec, ImplementsTaskService, Service!Spec

-----------------------------------------------------------------------------
(* The events of a task.                                                   *)

\* One task_started or two, and progress after that; nothing else yet.
PlainTo(l, n) ==
    \A i \in 1..n : /\ i = 1 => l[i] = "task_started"
                    /\ l[i] = "task_started" => i <= 2
                    /\ l[i] \notin TerminalEvents

Plain(l) == Len(l) > 0 /\ PlainTo(l, Len(l))

\* The same and one terminal event.
Ended(l) == Len(l) > 1 /\ PlainTo(l, Len(l) - 1) /\ l[Len(l)] \in TerminalEvents

\* What InOrder says, with the domain spelt out.
WellFormed(l) ==
    \A i \in 1..Len(l) :
        /\ i = 1 => l[i] = "task_started"
        /\ l[i] = "task_started" => i <= 2
        /\ l[i] \in TerminalEvents =>
               i = Len(l) \/ (i = Len(l) - 1 /\ l[i + 1] = "task_failed")

LastIs(l, type) == Len(l) > 0 /\ l[Len(l)] = type

\* Appending, in the terms the lemmas below need.
LEMMA Appended ==
  ASSUME NEW l \in Seq(EventTypes), NEW e \in EventTypes
  PROVE  /\ Append(l, e) \in Seq(EventTypes)
         /\ Len(l) \in Nat
         /\ Len(Append(l, e)) = Len(l) + 1
         /\ Append(l, e)[Len(l) + 1] = e
         /\ \A i \in 1..Len(l) : Append(l, e)[i] = l[i]
  OBVIOUS

LEMMA StartedPlain == Plain(Append(<<>>, "task_started"))
<1>1. Append(<<>>, "task_started") = <<"task_started">>
  OBVIOUS
<1> QED
  BY <1>1 DEF Plain, PlainTo, TerminalEvents

LEMMA ProgressPlain ==
  ASSUME NEW l \in Seq(EventTypes), Plain(l), NEW e \in {"task_started", "progress"},
         e = "task_started" => Len(l) = 1
  PROVE  Plain(Append(l, e))
<1> DEFINE m == Append(l, e)
           n == Len(l)
<1>1. /\ n \in Nat /\ Len(m) = n + 1 /\ m[n + 1] = e
      /\ \A i \in 1..n : m[i] = l[i]
  BY Appended DEF EventTypes
<1>2. n > 0 /\ PlainTo(l, n) /\ (e = "task_started" => n = 1)
  BY DEF Plain
<1> HIDE DEF m, n
<1>3. Len(m) > 0 /\ PlainTo(m, Len(m))
  BY <1>1, <1>2 DEF PlainTo, TerminalEvents
<1> QED
  BY <1>3 DEF Plain, m

LEMMA TerminalEnds ==
  ASSUME NEW l \in Seq(EventTypes), Plain(l), NEW e \in TerminalEvents
  PROVE  Ended(Append(l, e)) /\ LastIs(Append(l, e), e)
<1> DEFINE m == Append(l, e)
           n == Len(l)
<1>1. /\ n \in Nat /\ Len(m) = n + 1 /\ m[n + 1] = e
      /\ \A i \in 1..n : m[i] = l[i]
  BY Appended DEF EventTypes
<1>2. n > 0 /\ PlainTo(l, n)
  BY DEF Plain
<1> HIDE DEF m, n
<1>3. Len(m) > 1 /\ m[Len(m)] = e /\ PlainTo(m, Len(m) - 1)
  BY <1>1, <1>2 DEF PlainTo
<1> QED
  BY <1>3 DEF Ended, LastIs, m

LEMMA PlainWellFormed ==
  ASSUME NEW l \in Seq(EventTypes), Plain(l)
  PROVE  WellFormed(l)
  BY DEF Plain, PlainTo, WellFormed

LEMMA EndedWellFormed ==
  ASSUME NEW l \in Seq(EventTypes), Ended(l)
  PROVE  WellFormed(l)
<1> DEFINE n == Len(l)
<1>1. n \in Nat
  OBVIOUS
<1>2. n > 1 /\ l[n] \in TerminalEvents /\ PlainTo(l, n - 1)
  BY DEF Ended
<1> HIDE DEF n
<1>3. ASSUME NEW i \in 1..n
      PROVE  /\ i = 1 => l[i] = "task_started"
             /\ l[i] = "task_started" => i <= 2
             /\ l[i] \in TerminalEvents => i = n
  <2>1. CASE i = n
    BY <1>1, <1>2, <2>1 DEF TerminalEvents
  <2>2. CASE i # n
    <3>1. i \in 1..(n - 1)
      BY <1>1, <2>2
    <3> QED
      BY <1>2, <3>1 DEF PlainTo
  <2> QED
    BY <2>1, <2>2
<1> QED
  BY <1>3 DEF WellFormed, n

LEMMA FailedTwice ==
  ASSUME NEW l \in Seq(EventTypes), Ended(l)
  PROVE  WellFormed(Append(l, "task_failed")) /\ LastIs(Append(l, "task_failed"), "task_failed")
<1> DEFINE m == Append(l, "task_failed")
           n == Len(l)
<1>1. /\ n \in Nat /\ Len(m) = n + 1 /\ m[n + 1] = "task_failed"
      /\ \A i \in 1..n : m[i] = l[i]
  BY Appended DEF EventTypes, TerminalEvents
<1>2. n > 1 /\ l[n] \in TerminalEvents /\ PlainTo(l, n - 1)
  BY DEF Ended
<1> HIDE DEF m, n
<1>3. ASSUME NEW i \in 1..Len(m)
      PROVE  /\ i = 1 => m[i] = "task_started"
             /\ m[i] = "task_started" => i <= 2
             /\ m[i] \in TerminalEvents =>
                    i = Len(m) \/ (i = Len(m) - 1 /\ m[i + 1] = "task_failed")
  <2>1. CASE i = n + 1
    BY <1>1, <1>2, <2>1 DEF TerminalEvents
  <2>2. CASE i = n
    BY <1>1, <1>2, <2>2 DEF TerminalEvents
  <2>3. CASE i \in 1..(n - 1)
    <3>1. m[i] = l[i]
      BY <1>1, <2>3
    <3> QED
      BY <1>2, <2>3, <3>1 DEF PlainTo
  <2>4. i = n + 1 \/ i = n \/ i \in 1..(n - 1)
    BY <1>1, <1>3
  <2> QED
    BY <2>1, <2>2, <2>3, <2>4
<1>4. WellFormed(m)
  BY <1>3 DEF WellFormed
<1> QED
  BY <1>1, <1>4 DEF LastIs, m

\* What run_task knows of a task is what its events say: the place of its thread and
\* the two flags tell the shape of the log.
LogOf(t) ==
    LET live == run[t] \in {"stream", "slot", "busy", "uncount", "synth"} IN
    /\ WellFormed(log[t])
    /\ run[t] \in {"none", "start", "dead"} =>
           log[t] = <<>> /\ outcome[t].success /\ ~ outcome[t].terminal
    /\ live /\ ~ outcome[t].terminal =>
           IF outcome[t].success THEN Plain(log[t])
           ELSE run[t] # "stream" /\ Ended(log[t]) /\ LastIs(log[t], "task_failed")
    /\ outcome[t].terminal => LastIs(log[t], Verdict(t, "task_completed", "task_failed"))
    /\ run[t] = "stream" /\ outcome[t].terminal => Ended(log[t])
    /\ run[t] = "synth" => ~ outcome[t].terminal
    /\ run[t] \in {"synth", "done"} => status[t] = Verdict(t, "completed", "failed")
    /\ run[t] = "done" => LastIs(log[t], Verdict(t, "task_completed", "task_failed"))

LogInv == \A t \in Tasks : LogOf(t)

LEMMA InitLog == Init => LogInv
  BY DEF Init, LogInv, LogOf, WellFormed

\* A task whose four variables did not change.
LEMMA SameLog ==
  ASSUME NEW t \in Tasks, LogOf(t),
         run'[t] = run[t], log'[t] = log[t], outcome'[t] = outcome[t], status'[t] = status[t]
  PROVE  LogOf(t)'
  BY DEF LogOf, Verdict

LEMMA DispatchLog ==
  ASSUME TInv, PlaceInv, LogInv, Dispatch
  PROVE  LogInv'
<1>1. UNCHANGED <<log, outcome>>
  BY DEF Dispatch, DispatchScan, DispatchEndPass, DispatchPick, DispatchCheckBusy, DispatchClaimSlot, DispatchTake, DispatchMarkBusy, DispatchStart, DispatchStartFails, DispatcherDies, LeaveIteration, othersOfScan, othersOfDispatch
<1>2. CASE DispatchTake
  <2>1. dpc = "take" /\ UNCHANGED run
    BY <1>2 DEF DispatchTake
  <2>2. CASE queues[Head(todo)] = <<>>
    <3>1. UNCHANGED status
      BY <1>2, <2>2 DEF DispatchTake
    <3> QED
      BY <1>1, <2>1, <3>1, SameLog DEF LogInv
  <2>3. CASE queues[Head(todo)] # <<>>
    <3> DEFINE q == queues[Head(todo)]
    <3>1. status' = [status EXCEPT ![Head(q)] = "running"]
      BY <1>2, <2>3 DEF DispatchTake
    <3>2. Head(todo) \in Users /\ q \in Seq(Tasks)
      BY <2>1 DEF TInv, TypeOK, DispatcherOK
    <3>3. PICK t \in Tasks : t = Head(q) /\ t = q[1] /\ 1 \in 1..Len(q)
      <4>1. q # <<>> BY <2>3
      <4> HIDE DEF q
      <4>2. Len(q) \in Nat /\ Len(q) > 0 BY <3>2, <4>1
      <4>3. q[1] \in Tasks /\ Head(q) = q[1] BY <3>2, <4>2
      <4> QED BY <4>2, <4>3
    <3>4. run[t] = "none"
      BY <3>2, <3>3 DEF PlaceInv
    <3>5. \A s \in Tasks : s # t => status'[s] = status[s]
      BY <3>1, <3>3 DEF TInv, TypeOK
    <3>6. LogOf(t)'
      BY <1>1, <2>1, <3>3, <3>4 DEF LogInv, LogOf, Verdict
    <3> QED
      BY <1>1, <2>1, <3>5, <3>6, SameLog DEF LogInv
  <2> QED
    BY <2>2, <2>3
<1>3. CASE DispatchStart \/ DispatchStartFails \/ DispatcherDies
  <2>1. PICK state \in {"start", "dead"}, next \in {"pick", "dead"} : LeaveIteration(state, next)
    BY <1>3 DEF DispatchStart, DispatchStartFails, DispatcherDies
  <2>2. dpc = "start" /\ run' = [run EXCEPT ![dtask] = state] /\ UNCHANGED status
    BY <2>1 DEF LeaveIteration
  <2>3. dtask \in Tasks /\ run[dtask] = "none"
    BY <2>2 DEF TInv, DispatcherOK, PlaceInv
  <2>4. run'[dtask] = state /\ \A s \in Tasks : s # dtask => run'[s] = run[s]
    BY <2>2, <2>3 DEF TInv, TypeOK
  <2>5. PICK d \in Tasks : d = dtask
    BY <2>3
  <2>6. LogOf(d)'
    BY <1>1, <2>2, <2>3, <2>4, <2>5 DEF LogInv, LogOf, Verdict
  <2> QED
    BY <1>1, <2>2, <2>4, <2>5, <2>6, SameLog DEF LogInv
<1>4. CASE ~ (DispatchTake \/ DispatchStart \/ DispatchStartFails \/ DispatcherDies)
  <2>1. UNCHANGED <<run, status>>
    BY <1>4 DEF Dispatch, DispatchScan, DispatchEndPass, DispatchPick, DispatchCheckBusy, DispatchClaimSlot, DispatchMarkBusy, othersOfScan
  <2> QED
    BY <1>1, <2>1, SameLog DEF LogInv
<1> QED
  BY <1>2, <1>3, <1>4

LEMMA RunLog ==
  ASSUME TInv, LogInv, NEW t \in Tasks, Run(t)
  PROVE  LogInv'
<1> DEFINE l == log[t]
<1>0. /\ l \in Seq(EventTypes) /\ log \in [Tasks -> Seq(EventTypes)]
      /\ run \in [Tasks -> {"none", "start", "stream", "slot", "busy", "uncount", "synth", "done", "dead"}]
      /\ status \in [Tasks -> {"queued", "running", "completed", "failed"}]
      /\ outcome \in [Tasks -> [success : BOOLEAN, terminal : BOOLEAN]]
  BY DEF TInv, TypeOK
<1>1. LogOf(t)
  BY DEF LogInv
<1>2. ASSUME NEW s \in Tasks, s # t PROVE LogOf(s)'
  <2>1. run'[s] = run[s] /\ log'[s] = log[s] /\ outcome'[s] = outcome[s] /\ status'[s] = status[s]
    BY <1>0, <1>2 DEF Run, RunStart, RunStartFails, StreamStarted, StreamProgress, StreamTerminal, StreamEnds, StreamBreaks, StreamRaises, RunFreeSlot, RunFreeUser, RunUncount, RunSynthesize, Publish
  <2> QED
    BY <2>1, SameLog DEF LogInv
<1>3. LogOf(t)'
  <2>1. CASE RunStart(t)
    <3>1. /\ run[t] = "start" /\ run'[t] = "stream" /\ log'[t] = Append(l, "task_started")
          /\ UNCHANGED <<status, outcome>>
      BY <1>0, <2>1 DEF RunStart, Publish
    <3>2. l = <<>> /\ outcome[t].success /\ ~ outcome[t].terminal
      BY <1>1, <3>1 DEF LogOf
    <3>3. Plain(log'[t]) /\ WellFormed(log'[t])
      <4>1. log'[t] \in Seq(EventTypes)
        BY <1>0, <3>1, Appended DEF EventTypes
      <4>2. Plain(log'[t])
        BY <3>1, <3>2, StartedPlain
      <4> QED
        BY <4>1, <4>2, PlainWellFormed
    <3> QED
      BY <3>1, <3>2, <3>3 DEF LogOf
  <2>2. CASE RunStartFails(t)
    <3>1. /\ run[t] = "start" /\ run'[t] = "dead"
          /\ UNCHANGED <<status, outcome, log>>
      BY <1>0, <2>2 DEF RunStartFails
    <3> QED
      BY <1>1, <3>1 DEF LogOf
  <2>3. CASE StreamStarted(t) \/ StreamProgress(t)
    <3>1. PICK e \in {"task_started", "progress"} :
             /\ run[t] = "stream" /\ run'[t] = "stream" /\ log'[t] = Append(l, e)
             /\ e = "task_started" => Len(l) = 1
             /\ ~ outcome[t].terminal
             /\ UNCHANGED <<status, outcome>>
      BY <1>0, <2>3 DEF StreamStarted, StreamProgress, Publish
    <3>2. Plain(l) /\ outcome[t].success
      BY <1>1, <3>1 DEF LogOf
    <3>3. Plain(log'[t]) /\ WellFormed(log'[t])
      <4>1. log'[t] \in Seq(EventTypes)
        BY <1>0, <3>1, Appended DEF EventTypes
      <4>2. Plain(log'[t])
        BY <1>0, <3>1, <3>2, ProgressPlain
      <4> QED
        BY <4>1, <4>2, PlainWellFormed
    <3> QED
      BY <3>1, <3>2, <3>3 DEF LogOf
  <2>4. ASSUME NEW type \in TerminalEvents, StreamTerminal(t, type) PROVE LogOf(t)'
    <3>1. /\ run[t] = "stream" /\ run'[t] = "stream" /\ log'[t] = Append(l, type)
          /\ ~ outcome[t].terminal
          /\ outcome'[t].terminal /\ (outcome'[t].success <=> type # "task_failed")
          /\ UNCHANGED status
      BY <1>0, <2>4 DEF StreamTerminal, Publish
    <3>2. Plain(l)
      BY <1>1, <3>1 DEF LogOf
    <3>3. Ended(log'[t]) /\ LastIs(log'[t], type) /\ WellFormed(log'[t])
      <4>1. log'[t] \in Seq(EventTypes)
        BY <1>0, <3>1, Appended DEF EventTypes
      <4>2. Ended(log'[t]) /\ LastIs(log'[t], type)
        BY <1>0, <3>1, <3>2, TerminalEnds
      <4> QED
        BY <4>1, <4>2, EndedWellFormed
    <3> QED
      BY <3>1, <3>3 DEF LogOf, Verdict, TerminalEvents
  <2>5. CASE StreamEnds(t)
    <3>1. /\ run[t] = "stream" /\ run'[t] = "slot"
          /\ UNCHANGED <<status, outcome, log>>
      BY <1>0, <2>5 DEF StreamEnds
    <3> QED
      BY <1>1, <3>1 DEF LogOf, Verdict
  <2>6. CASE StreamBreaks(t)
    <3>1. /\ run[t] = "stream" /\ run'[t] = "slot" /\ log'[t] = Append(l, "task_failed")
          /\ outcome'[t].terminal /\ ~ outcome'[t].success
          /\ UNCHANGED status
      BY <1>0, <2>6 DEF StreamBreaks, Publish
    <3>2. Plain(l) \/ Ended(l)
      BY <1>1, <3>1 DEF LogOf
    <3>3. LastIs(log'[t], "task_failed") /\ WellFormed(log'[t])
      <4>1. log'[t] \in Seq(EventTypes)
        BY <1>0, <3>1, Appended DEF EventTypes, TerminalEvents
      <4>2. CASE Plain(l)
        <5>1. Ended(log'[t]) /\ LastIs(log'[t], "task_failed")
          BY <1>0, <3>1, <4>2, TerminalEnds DEF TerminalEvents
        <5> QED
          BY <4>1, <5>1, EndedWellFormed
      <4>3. CASE Ended(l)
        BY <1>0, <3>1, <4>3, FailedTwice
      <4> QED
        BY <3>2, <4>2, <4>3
    <3> QED
      BY <3>1, <3>3 DEF LogOf, Verdict
  <2>7. CASE StreamRaises(t)
    <3>1. /\ run[t] = "stream" /\ run'[t] = "slot" /\ log'[t] = Append(l, "task_failed")
          /\ ~ outcome[t].terminal
          /\ ~ outcome'[t].terminal /\ ~ outcome'[t].success
          /\ UNCHANGED status
      BY <1>0, <2>7 DEF StreamRaises, Publish
    <3>2. Plain(l)
      BY <1>1, <3>1 DEF LogOf
    <3>3. Ended(log'[t]) /\ LastIs(log'[t], "task_failed") /\ WellFormed(log'[t])
      <4>1. log'[t] \in Seq(EventTypes)
        BY <1>0, <3>1, Appended DEF EventTypes, TerminalEvents
      <4>2. Ended(log'[t]) /\ LastIs(log'[t], "task_failed")
        BY <1>0, <3>1, <3>2, TerminalEnds DEF TerminalEvents
      <4> QED
        BY <4>1, <4>2, EndedWellFormed
    <3> QED
      BY <3>1, <3>3 DEF LogOf, Verdict
  <2>8. CASE RunFreeSlot(t) \/ RunFreeUser(t)
    <3>1. /\ run[t] \in {"slot", "busy"} /\ run'[t] \in {"busy", "uncount"}
          /\ UNCHANGED <<status, outcome, log>>
      BY <1>0, <2>8 DEF RunFreeSlot, RunFreeUser
    <3> QED
      BY <1>1, <3>1 DEF LogOf, Verdict
  <2>9. CASE RunUncount(t)
    <3>1. /\ run[t] = "uncount"
          /\ run'[t] = IF outcome[t].terminal THEN "done" ELSE "synth"
          /\ status'[t] = Verdict(t, "completed", "failed")
          /\ UNCHANGED <<outcome, log>>
      BY <1>0, <2>9 DEF RunUncount, SynthesisNeeded
    <3> QED
      BY <1>1, <3>1 DEF LogOf, Verdict
  <2>10. CASE RunSynthesize(t)
    <3>1. /\ run[t] = "synth" /\ run'[t] = "done"
          /\ log'[t] = Append(l, Verdict(t, "task_completed", "task_failed"))
          /\ UNCHANGED <<status, outcome>>
      BY <1>0, <2>10 DEF RunSynthesize, Publish
    <3>2. /\ ~ outcome[t].terminal /\ status[t] = Verdict(t, "completed", "failed")
          /\ IF outcome[t].success THEN Plain(l) ELSE Ended(l)
      BY <1>1, <3>1 DEF LogOf
    <3>3. LastIs(log'[t], Verdict(t, "task_completed", "task_failed")) /\ WellFormed(log'[t])
      <4>1. CASE outcome[t].success
        <5>1. log'[t] = Append(l, "task_completed") /\ Plain(l)
          BY <3>1, <3>2, <4>1 DEF Verdict
        <5>2. log'[t] \in Seq(EventTypes)
          BY <1>0, <5>1, Appended DEF EventTypes, TerminalEvents
        <5>3. Ended(log'[t]) /\ LastIs(log'[t], "task_completed")
          BY <1>0, <5>1, TerminalEnds DEF TerminalEvents
        <5> QED
          BY <4>1, <5>2, <5>3, EndedWellFormed DEF Verdict
      <4>2. CASE ~ outcome[t].success
        <5>1. log'[t] = Append(l, "task_failed") /\ Ended(l)
          BY <3>1, <3>2, <4>2 DEF Verdict
        <5> QED
          BY <1>0, <4>2, <5>1, FailedTwice DEF Verdict
      <4> QED
        BY <4>1, <4>2
    <3> QED
      BY <3>1, <3>2, <3>3 DEF LogOf, Verdict
  <2> QED
    BY <2>1, <2>2, <2>3, <2>4, <2>5, <2>6, <2>7, <2>8, <2>9, <2>10 DEF Run
<1> QED
  BY <1>2, <1>3 DEF LogInv

LEMMA LogStep == TInv /\ PlaceInv /\ LogInv /\ [Next]_vars => LogInv'
<1> SUFFICES ASSUME TInv, PlaceInv, LogInv, [Next]_vars PROVE LogInv'
  OBVIOUS
<1>1. CASE DispatchIdle \/ UNCHANGED vars
  BY <1>1, SameLog DEF DispatchIdle, vars, LogInv
<1>2. ASSUME NEW t \in Tasks, Submit(t) PROVE LogInv'
  BY <1>2, SubmitOthers, SameLog DEF othersOfSubmit, runVars, LogInv
<1> QED
  BY <1>1, <1>2, DispatchLog, RunLog DEF Next

-----------------------------------------------------------------------------
(* The events of a user.                                                   *)

Over(r, t) == r[t] \in {"uncount", "synth", "done"}

\* Position j is the first of a task that began after the one at i < j.
Overtakes(q, i, j) == i < j /\ q[j] # q[i] /\ \A l \in 1..i : q[l] # q[j]

\* A task that was overtaken has given its user back, and has nothing left to publish
\* once it has published after that.
TurnsOf(r, q, u) ==
    /\ \A k \in 1..Len(q) : UserOf[q[k]] = u /\ r[q[k]] \notin {"none", "start", "dead"}
    /\ \A i, j \in 1..Len(q) : Overtakes(q, i, j) => Over(r, q[i])
    /\ \A i, j, k \in 1..Len(q) : Overtakes(q, i, j) /\ j < k /\ q[k] = q[i] =>
           r[q[k]] = "done" /\ \A m \in (k + 1)..Len(q) : q[m] # q[k]

TurnsInv ==
    /\ \A u \in Users : TurnsOf(run, turns[u], u)
    /\ \A t \in Tasks : run[t] \notin {"none", "start", "dead"} =>
           \E k \in 1..Len(turns[UserOf[t]]) : turns[UserOf[t]][k] = t

LEMMA InitTurns == Init => TurnsInv
  BY DEF Init, TurnsInv, TurnsOf

\* Nothing is published and no thread goes back.
LEMMA QuietTurns ==
  ASSUME TurnsInv, UNCHANGED turns,
         \A t \in Tasks : /\ Over(run, t) => Over(run', t)
                          /\ run[t] = "done" => run'[t] = "done"
                          /\ run[t] \in {"none", "start", "dead"} <=> run'[t] \in {"none", "start", "dead"},
         TInv
  PROVE  TurnsInv'
<1>1. turns \in [Users -> Seq(Tasks)] /\ UserOf \in [Tasks -> Users]
  BY TasksAssumption DEF TInv, TypeOK
<1>2. ASSUME NEW u \in Users PROVE TurnsOf(run', turns'[u], u)
  <2> DEFINE q == turns[u]
  <2>1. q \in Seq(Tasks) /\ turns'[u] = q /\ TurnsOf(run, q, u)
    BY <1>1 DEF TurnsInv
  <2>2. \A k \in 1..Len(q) : q[k] \in Tasks
    BY <2>1
  <2> HIDE DEF q
  <2>3. TurnsOf(run', q, u)
    BY <2>1, <2>2 DEF TurnsOf, Overtakes
  <2> QED
    BY <2>1, <2>3
<1>3. \A t \in Tasks : run'[t] \notin {"none", "start", "dead"} =>
          \E k \in 1..Len(turns'[UserOf[t]]) : turns'[UserOf[t]][k] = t
  BY DEF TurnsInv
<1> QED
  BY <1>2, <1>3 DEF TurnsInv

\* A thread that holds its user, or one about to add its last event, publishes.
LEMMA PublishTurns ==
  ASSUME TInv, OneTaskPerUser, TurnsInv, NEW t \in Tasks, NEW next,
         \/ run[t] \in {"start", "stream"} /\ next \in {"stream", "slot"}
         \/ run[t] = "synth" /\ next = "done",
         run' = [run EXCEPT ![t] = next],
         turns' = [turns EXCEPT ![UserOf[t]] = Append(turns[UserOf[t]], t)]
  PROVE  TurnsInv'
<1> DEFINE u == UserOf[t]
           q == turns[u]
           n == Len(q)
           m == Append(q, t)
<1>1. turns \in [Users -> Seq(Tasks)] /\ UserOf \in [Tasks -> Users] /\ u \in Users
  BY TasksAssumption DEF TInv, TypeOK
<1>2. /\ q \in Seq(Tasks) /\ n \in Nat /\ Len(m) = n + 1 /\ m[n + 1] = t
      /\ \A i \in 1..n : m[i] = q[i] /\ q[i] \in Tasks
  BY <1>1
<1>3. /\ turns'[u] = m
      /\ \A v \in Users : v # u => turns'[v] = turns[v]
  BY <1>1
<1>4. run'[t] = next /\ \A s \in Tasks : s # t => run'[s] = run[s]
  BY DEF TInv, TypeOK
<1>5. /\ \A k \in 1..n : UserOf[q[k]] = u /\ run[q[k]] \notin {"none", "start", "dead"}
      /\ \A i, j \in 1..n : Overtakes(q, i, j) => Over(run, q[i])
      /\ \A i, j, k \in 1..n : Overtakes(q, i, j) /\ j < k /\ q[k] = q[i] =>
             run[q[k]] = "done" /\ \A x \in (k + 1)..n : q[x] # q[k]
  BY <1>1 DEF TurnsInv, TurnsOf
<1>6. run[t] = "synth" => \E k \in 1..n : q[k] = t
  BY DEF TurnsInv
<1>7. ASSUME NEW s \in Tasks, s # t, UserOf[s] = u, run[t] \in {"start", "stream"},
             run[s] \notin {"none", "start", "dead"}
      PROVE  Over(run, s)
  <2>1. ~ HoldsUser(s)
    BY <1>7 DEF OneTaskPerUser, HoldsUser, HoldsSlot
  <2>2. run[s] \in {"none", "start", "stream", "slot", "busy", "uncount", "synth", "done", "dead"}
    BY DEF TInv, TypeOK
  <2> QED
    BY <1>7, <2>1, <2>2 DEF HoldsUser, HoldsSlot, Over
<1>8. \A s \in Tasks : (Over(run, s) => Over(run', s)) /\ (run[s] = "done" => s # t /\ run'[s] = "done")
  BY <1>4 DEF Over
<1> HIDE DEF u, q, n, m
<1>9. \A i \in 1..(n + 1) : \A j \in 1..n : Overtakes(m, i, j) => i \in 1..n /\ Overtakes(q, i, j)
  BY <1>2 DEF Overtakes
<1>10. ASSUME NEW i \in 1..(n + 1), NEW j \in 1..(n + 1), Overtakes(m, i, j)
       PROVE  i \in 1..n /\ Over(run, q[i])
  <2>1. CASE j \in 1..n
    BY <1>5, <1>9, <1>10, <2>1
  <2>2. CASE j = n + 1
    <3>1. i \in 1..n /\ q[i] \in Tasks /\ q[i] # t /\ \A l \in 1..i : q[l] # t
      BY <1>2, <1>10, <2>2 DEF Overtakes
    <3>2. CASE run[t] \in {"start", "stream"}
      BY <1>5, <1>7, <3>1, <3>2
    <3>3. CASE run[t] = "synth"
      <4>1. PICK k \in 1..n : q[k] = t
        BY <1>6, <3>3
      <4>2. Overtakes(q, i, k)
        BY <1>2, <3>1, <4>1 DEF Overtakes
      <4> QED
        BY <1>5, <3>1, <4>2
    <3> QED
      BY <3>2, <3>3
  <2> QED
    BY <1>2, <2>1, <2>2
<1>11. TurnsOf(run', m, u)
  <2>1. ASSUME NEW k \in 1..(n + 1)
        PROVE  UserOf[m[k]] = u /\ run'[m[k]] \notin {"none", "start", "dead"}
    <3>1. CASE k = n + 1
      <4>1. next \notin {"none", "start", "dead"}
        OBVIOUS
      <4>2. m[k] = t
        BY <1>2, <3>1
      <4> QED
        BY <1>4, <4>1, <4>2 DEF u
    <3>2. CASE k \in 1..n
      <4>1. m[k] = q[k] /\ q[k] \in Tasks /\ UserOf[q[k]] = u /\ run[q[k]] \notin {"none", "start", "dead"}
        BY <1>2, <1>5, <3>2
      <4>2. next \notin {"none", "start", "dead"}
        OBVIOUS
      <4> QED
        BY <1>4, <4>1, <4>2
    <3> QED
      BY <1>2, <3>1, <3>2
  <2>2. \A i, j \in 1..(n + 1) : Overtakes(m, i, j) => Over(run', m[i])
    BY <1>2, <1>8, <1>10 DEF Over
  <2>3. ASSUME NEW i \in 1..(n + 1), NEW j \in 1..(n + 1), NEW k \in 1..(n + 1),
               Overtakes(m, i, j), j < k, m[k] = m[i]
        PROVE  run'[m[k]] = "done" /\ \A x \in (k + 1)..(n + 1) : m[x] # m[k]
    <3>1. j \in 1..n /\ i \in 1..n /\ Overtakes(q, i, j) /\ Over(run, q[i])
      BY <1>2, <1>9, <1>10, <2>3
    <3>2. CASE k \in 1..n
      <4>1. run[q[k]] = "done" /\ \A x \in (k + 1)..n : q[x] # q[k]
        BY <1>2, <1>5, <2>3, <3>1, <3>2
      <4>2. q[k] # t /\ run'[q[k]] = "done"
        BY <1>2, <1>8, <3>2, <4>1
      <4> QED
        BY <1>2, <3>2, <4>1, <4>2
    <3>3. CASE k = n + 1
      <4>1. q[i] = t
        BY <1>2, <2>3, <3>1, <3>3
      <4> QED
        BY <1>2, <1>4, <3>1, <3>3, <4>1 DEF Over
    <3> QED
      BY <1>2, <3>2, <3>3
  <2> QED
    <3>1. Len(m) = n + 1
      BY <1>2
    <3>2. \A i, j, k \in 1..(n + 1) : Overtakes(m, i, j) /\ j < k /\ m[k] = m[i] =>
              run'[m[k]] = "done" /\ \A x \in (k + 1)..(n + 1) : m[x] # m[k]
      BY <2>3
    <3> QED
      BY <2>1, <2>2, <3>1, <3>2 DEF TurnsOf
<1>12. ASSUME NEW v \in Users, v # u PROVE TurnsOf(run', turns[v], v)
  <2> DEFINE p == turns[v]
  <2>1. p \in Seq(Tasks) /\ TurnsOf(run, p, v)
    BY <1>1 DEF TurnsInv
  <2>2. \A k \in 1..Len(p) : p[k] \in Tasks
    BY <2>1
  <2> HIDE DEF p
  <2>3. \A k \in 1..Len(p) : run'[p[k]] = run[p[k]]
    BY <1>4, <1>12, <2>1, <2>2 DEF TurnsOf, u
  <2>4. TurnsOf(run', p, v)
    BY <2>1, <2>3 DEF TurnsOf, Overtakes, Over
  <2> QED
    BY <2>4 DEF p
<1>13. \A v \in Users : TurnsOf(run', turns'[v], v)
  BY <1>3, <1>11, <1>12
<1>14. ASSUME NEW s \in Tasks, run'[s] \notin {"none", "start", "dead"}
       PROVE  \E k \in 1..Len(turns'[UserOf[s]]) : turns'[UserOf[s]][k] = s
  <2>1. CASE s = t
    BY <1>2, <1>3, <2>1 DEF u
  <2>2. CASE s # t
    <3>1. PICK k \in 1..Len(turns[UserOf[s]]) : turns[UserOf[s]][k] = s
      BY <1>4, <1>14, <2>2 DEF TurnsInv
    <3>2. CASE UserOf[s] = u
      BY <1>2, <1>3, <3>1, <3>2 DEF q, n
    <3>3. CASE UserOf[s] # u
      BY <1>1, <1>3, <3>1, <3>3
    <3> QED
      BY <3>2, <3>3
  <2> QED
    BY <2>1, <2>2
<1> QED
  BY <1>13, <1>14 DEF TurnsInv

LEMMA RunTurns ==
  ASSUME TInv, OneTaskPerUser, TurnsInv, NEW t \in Tasks, Run(t)
  PROVE  TurnsInv'
<1>0. run \in [Tasks -> {"none", "start", "stream", "slot", "busy", "uncount", "synth", "done", "dead"}]
  BY DEF TInv, TypeOK
<1>1. CASE RunStart(t)
  <2>1. run[t] = "start" /\ run' = [run EXCEPT ![t] = "stream"]
        /\ turns' = [turns EXCEPT ![UserOf[t]] = Append(turns[UserOf[t]], t)]
    BY <1>1 DEF RunStart, Publish
  <2> QED
    BY <2>1, PublishTurns
<1>2. CASE StreamStarted(t) \/ StreamProgress(t) \/ \E type \in TerminalEvents : StreamTerminal(t, type)
  <2>1. run[t] = "stream" /\ run' = [run EXCEPT ![t] = "stream"]
        /\ turns' = [turns EXCEPT ![UserOf[t]] = Append(turns[UserOf[t]], t)]
    BY <1>0, <1>2 DEF StreamStarted, StreamProgress, StreamTerminal, Publish
  <2> QED
    BY <2>1, PublishTurns
<1>3. CASE StreamBreaks(t) \/ StreamRaises(t)
  <2>1. run[t] = "stream" /\ run' = [run EXCEPT ![t] = "slot"]
        /\ turns' = [turns EXCEPT ![UserOf[t]] = Append(turns[UserOf[t]], t)]
    BY <1>3 DEF StreamBreaks, StreamRaises, Publish
  <2> QED
    BY <2>1, PublishTurns
<1>4. CASE RunSynthesize(t)
  <2>1. run[t] = "synth" /\ run' = [run EXCEPT ![t] = "done"]
        /\ turns' = [turns EXCEPT ![UserOf[t]] = Append(turns[UserOf[t]], t)]
    BY <1>4 DEF RunSynthesize, Publish
  <2> QED
    BY <2>1, PublishTurns
<1>5. CASE RunStartFails(t) \/ StreamEnds(t) \/ RunFreeSlot(t) \/ RunFreeUser(t) \/ RunUncount(t)
  <2>1. UNCHANGED turns
    BY <1>5 DEF RunStartFails, StreamEnds, RunFreeSlot, RunFreeUser, RunUncount
  <2>2. \/ run[t] = "start" /\ run' = [run EXCEPT ![t] = "dead"]
        \/ run[t] = "stream" /\ run' = [run EXCEPT ![t] = "slot"]
        \/ run[t] = "slot" /\ run' = [run EXCEPT ![t] = "busy"]
        \/ run[t] = "busy" /\ run' = [run EXCEPT ![t] = "uncount"]
        \/ run[t] = "uncount" /\ \E state \in {"synth", "done"} : run' = [run EXCEPT ![t] = state]
    BY <1>5 DEF RunStartFails, StreamEnds, RunFreeSlot, RunFreeUser, RunUncount
  <2>3. \A s \in Tasks : /\ Over(run, s) => Over(run', s)
                         /\ run[s] = "done" => run'[s] = "done"
                         /\ run[s] \in {"none", "start", "dead"} <=> run'[s] \in {"none", "start", "dead"}
    BY <1>0, <2>2 DEF Over
  <2> QED
    BY <2>1, <2>3, QuietTurns
<1> QED
  BY <1>1, <1>2, <1>3, <1>4, <1>5 DEF Run

LEMMA TurnsStep == IInv /\ TurnsInv /\ [Next]_vars => TurnsInv'
<1> SUFFICES ASSUME IInv, TurnsInv, [Next]_vars PROVE TurnsInv'
  OBVIOUS
<1>0. TInv /\ PlaceInv /\ OneTaskPerUser
  BY DEF IInv, SerialInv
<1>1. CASE UNCHANGED <<run, turns>>
  BY <1>0, <1>1, QuietTurns DEF Over
<1>2. ASSUME NEW t \in Tasks, Submit(t) PROVE TurnsInv'
  BY <1>1, <1>2, SubmitOthers DEF othersOfSubmit, runVars
<1>3. CASE Dispatch
  <2>1. UNCHANGED turns
    BY <1>3 DEF Dispatch, DispatchScan, DispatchEndPass, DispatchPick, DispatchCheckBusy, DispatchClaimSlot, DispatchTake, DispatchMarkBusy, DispatchStart, DispatchStartFails, DispatcherDies, LeaveIteration, othersOfScan, othersOfDispatch
  <2>2. CASE DispatchStart \/ DispatchStartFails \/ DispatcherDies
    <3>1. PICK state \in {"start", "dead"}, next \in {"pick", "dead"} : LeaveIteration(state, next)
      BY <2>2 DEF DispatchStart, DispatchStartFails, DispatcherDies
    <3>2. dpc = "start" /\ run' = [run EXCEPT ![dtask] = state]
      BY <3>1 DEF LeaveIteration
    <3>3. run[dtask] = "none" /\ dtask \in Tasks
      BY <1>0, <3>2 DEF TInv, DispatcherOK, PlaceInv
    <3>4. \A s \in Tasks : /\ Over(run, s) => Over(run', s)
                           /\ run[s] = "done" => run'[s] = "done"
                           /\ run[s] \in {"none", "start", "dead"} <=> run'[s] \in {"none", "start", "dead"}
      <4>1. run \in [Tasks -> {"none", "start", "stream", "slot", "busy", "uncount", "synth", "done", "dead"}]
        BY <1>0 DEF TInv, TypeOK
      <4> QED
        BY <3>2, <3>3, <4>1 DEF Over
    <3> QED
      BY <1>0, <2>1, <3>4, QuietTurns
  <2>3. CASE ~ (DispatchStart \/ DispatchStartFails \/ DispatcherDies)
    <3>1. UNCHANGED run
      BY <1>3, <2>3 DEF Dispatch, DispatchScan, DispatchEndPass, DispatchPick, DispatchCheckBusy, DispatchClaimSlot, DispatchTake, DispatchMarkBusy, othersOfScan
    <3> QED
      BY <1>1, <2>1, <3>1
  <2> QED
    BY <2>2, <2>3
<1> QED
  BY <1>0, <1>1, <1>2, <1>3, RunTurns DEF Next, DispatchIdle, vars

\* What run_task publishes is in order, each task's events for streams of any length
\* that end, break or raise at any point, and one user's tasks one after the other but
\* for the event that run_task may have to add when the next task has begun.
THEOREM EventsInOrder == Spec => []EventsWellFormed
<1>1. Init => IInv /\ LogInv /\ TurnsInv
  BY IInvInit, InitLog, InitTurns
<1>2. IInv /\ LogInv /\ TurnsInv /\ [Next]_vars => (IInv /\ LogInv /\ TurnsInv)'
  BY IInvStep, LogStep, TurnsStep DEF IInv
<1>3. ASSUME IInv, LogInv, TurnsInv PROVE EventsWellFormed
  <2>0. /\ log \in [Tasks -> Seq(EventTypes)] /\ turns \in [Users -> Seq(Tasks)]
        /\ \A t \in Tasks : DOMAIN log[t] = 1..Len(log[t])
        /\ \A u \in Users : DOMAIN turns[u] = 1..Len(turns[u])
    BY <1>3, LenProperties DEF IInv, TInv, TypeOK
  <2>1. \A t \in Tasks : InOrder(log[t])
    <3>1. \A t \in Tasks : WellFormed(log[t])
      BY <1>3 DEF LogInv, LogOf
    <3> QED
      BY <2>0, <3>1 DEF WellFormed, InOrder
  <2>2. ASSUME NEW u \in Users, NEW k \in DOMAIN turns[u], Late(turns[u], k)
        PROVE  /\ \A m \in (k + 1)..Len(turns[u]) : turns[u][m] # turns[u][k]
               /\ log[turns[u][k]][Len(log[turns[u][k]])] \in TerminalEvents
    <3> DEFINE q == turns[u]
    <3>1. q \in Seq(Tasks) /\ TurnsOf(run, q, u) /\ k \in 1..Len(q) /\ Len(q) \in Nat /\ q[k] \in Tasks
      BY <1>3, <2>0, <2>2 DEF TurnsInv
    <3> HIDE DEF q
    <3>2. PICK i, j \in 1..(k - 1) : i < j /\ q[i] = q[k] /\ q[j] # q[k] /\ \A l \in 1..i : q[l] # q[j]
      BY <2>2 DEF Late, q
    <3>3. i \in 1..Len(q) /\ j \in 1..Len(q) /\ j < k /\ Overtakes(q, i, j)
      BY <3>1, <3>2 DEF Overtakes
    <3>4. run[q[k]] = "done" /\ \A m \in (k + 1)..Len(q) : q[m] # q[k]
      BY <3>1, <3>2, <3>3 DEF TurnsOf
    <3>5. log[q[k]][Len(log[q[k]])] \in TerminalEvents
      BY <1>3, <3>1, <3>4 DEF LogInv, LogOf, LastIs, Verdict, TerminalEvents
    <3> QED
      BY <3>4, <3>5 DEF q
  <2> QED
    BY <2>1, <2>2 DEF EventsWellFormed
<1> QED
  BY <1>1, <1>2, <1>3, PTL DEF Spec

\* The verdict a gateway saw last is the one GetTaskStatus gives.
THEOREM VerdictAgrees == Spec => []VerdictIsLastEvent
<1>1. Init => IInv /\ LogInv
  BY IInvInit, InitLog
<1>2. IInv /\ LogInv /\ [Next]_vars => (IInv /\ LogInv)'
  BY IInvStep, LogStep DEF IInv
<1>3. LogInv => VerdictIsLastEvent
  BY DEF LogInv, LogOf, LastIs, Verdict, VerdictIsLastEvent
<1> QED
  BY <1>1, <1>2, <1>3, PTL DEF Spec

-----------------------------------------------------------------------------
(* Who waits for whom.  The two locks that are held across a step are the  *)
(* only ones a thread may wait for without end.                            *)

\* IDEMPOTENCY_LOCK is held by a thread whose next step gives it back, USER_LOCK by one
\* that has found its queue full.
LockInv ==
    /\ idemLock # NoTask => idemLock \in Tasks /\ sub[idemLock] = "dup"
    /\ userLock # NoTask => userLock \in Tasks /\ sub[userLock] = "full"
    /\ \A t \in Tasks : sub[t] = "dup" => idemLock = t
    /\ \A t \in Tasks : sub[t] = "full" => userLock = t

LEMMA InitLock == Init => LockInv
  BY DEF Init, LockInv

LEMMA LockStep == TInv /\ LockInv /\ [Next]_vars => LockInv'
<1> SUFFICES ASSUME TInv, LockInv, [Next]_vars PROVE LockInv'
  OBVIOUS
<1>0. sub \in [Tasks -> {"idle", "dup", "put", "full", "announce", "done"}]
  BY DEF TInv, TypeOK
<1>1. CASE UNCHANGED submitVars
  BY <1>1 DEF submitVars, LockInv
<1>2. ASSUME NEW t \in Tasks, Submit(t) PROVE LockInv'
  <2> USE <1>0, SentinelsAssumption DEF LockInv, AtQueue
  <2>1. CASE SubmitReserveKey(t) BY <2>1 DEF SubmitReserveKey
  <2>2. CASE SubmitFindKey(t) BY <2>2 DEF SubmitFindKey
  <2>3. CASE SubmitDuplicate(t) BY <2>3 DEF SubmitDuplicate
  <2>4. CASE SubmitPut(t) BY <2>4 DEF SubmitPut
  <2>5. CASE SubmitFull(t) BY <2>5 DEF SubmitFull
  <2>6. CASE SubmitAnnounce(t) BY <2>6 DEF SubmitAnnounce
  <2> QED BY <1>2, <2>1, <2>2, <2>3, <2>4, <2>5, <2>6 DEF Submit
<1>3. UNCHANGED submitVars \/ \E t \in Tasks : Submit(t)
  BY DispatchSubmitVars, RunOthers DEF Next, DispatchIdle, vars, submitVars, othersOfRun
<1> QED
  BY <1>1, <1>2, <1>3

\* No two of the tasks are one message.
DifferentKeys(T) == \A s, t \in T : s # t => KeyOf[s] = NoKey \/ KeyOf[s] # KeyOf[t]

\* All messages of a user together fit in the user's queue.
Room ==
    \A u \in Users : \A T \in SUBSET {t \in Tasks : UserOf[t] = u} :
        DifferentKeys(T) => Cardinality(T) <= UserQueueSize

\* The queue a task is about to enter holds other messages of its user, each once.
LEMMA RoomForOne ==
  ASSUME Room, WhereInv, NEW t \in Tasks, AtQueue(t)
  PROVE  ~ QueueFull(UserOf[t])
<1> DEFINE q == queues[UserOf[t]]
           T == {s \in Tasks : UserOf[s] = UserOf[t] /\ (s = t \/ InQueue(s))}
<1>1. q \in Seq(Tasks) /\ UserOf[t] \in Users
  BY TasksAssumption DEF WhereInv, IInv, TInv, TypeOK
<1>2. \A i \in 1..Len(q) : q[i] \in T
  <2>1. ASSUME NEW i \in 1..Len(q) PROVE q[i] \in T
    <3>1. q[i] \in Tasks /\ UserOf[q[i]] = UserOf[t]
      BY <1>1 DEF WhereInv, IInv, SerialInv, QueuesByUser
    <3>2. InQueue(q[i]) BY <3>1 DEF InQueue
    <3> QED BY <3>1, <3>2
  <2> QED BY <2>1
<1>3. \A i, j \in 1..Len(q) : q[i] = q[j] => i = j
  BY <1>1, <1>2 DEF WhereInv, IInv, PlaceInv
<1>a. sub[t] \in {"put", "idle"} /\ (sub[t] = "put" \/ KeyOf[t] = NoKey)
  BY DEF AtQueue
<1>4. \A i \in 1..Len(q) : q[i] # t
  <2>1. ~ Enqueued(t)
    <3>1. answer[t] = NoTask BY <1>a DEF WhereInv, KeyInv
    <3> QED BY <1>a, <3>1, SentinelsAssumption DEF Enqueued
  <2>2. ~ InQueue(t) BY <2>1 DEF WhereInv, PlacedInv, Placed
  <2> QED BY <2>2 DEF InQueue
<1>b. ASSUME NEW s \in T, KeyOf[s] # NoKey PROVE index[KeyOf[s]] = s
  <2>1. CASE s = t BY <1>a, <1>b, <2>1 DEF WhereInv, KeyInv
  <2>2. CASE s # t
    <3>1. Enqueued(s) BY <1>b, <2>2 DEF WhereInv, PlacedInv, Placed
    <3>2. s \in Tasks /\ s # NoTask BY <1>b, SentinelsAssumption
    <3> QED BY <1>b, <3>1, <3>2 DEF Enqueued, WhereInv, KeyInv
  <2> QED BY <2>1, <2>2
<1>c. DifferentKeys(T)
  BY <1>b DEF DifferentKeys
<1>d. T \in SUBSET {s \in Tasks : UserOf[s] = UserOf[t]}
  OBVIOUS
<1>5. /\ IsFiniteSet(T) /\ IsFiniteSet(T \ {t})
      /\ Cardinality(T) \in Nat /\ Cardinality(T \ {t}) = Cardinality(T) - 1
  <2>1. IsFiniteSet(T) BY TasksAssumption, FS_Subset
  <2>2. t \in T OBVIOUS
  <2> HIDE DEF T
  <2> QED BY <2>1, <2>2, FS_RemoveElement, FS_CardinalityType
<1>6. Len(q) \in Nat /\ IsFiniteSet(1..Len(q)) /\ Cardinality(1..Len(q)) = Len(q)
  <2>1. Len(q) \in Nat BY <1>1
  <2> HIDE DEF q
  <2>2. Cardinality(1..Len(q)) = (IF 1 > Len(q) THEN 0 ELSE Len(q) - 1 + 1) /\ IsFiniteSet(1..Len(q))
    BY <2>1, FS_Interval
  <2> QED BY <2>1, <2>2
<1>7. ~ (Cardinality(T \ {t}) < Len(q))
  <2>1. SUFFICES ASSUME Cardinality(T \ {t}) < Len(q) PROVE FALSE
    OBVIOUS
  <2> DEFINE f == [i \in 1..Len(q) |-> q[i]]
  <2>2. f \in [1..Len(q) -> T \ {t}] BY <1>2, <1>4
  <2>3. \A i, j \in 1..Len(q) : f[i] = f[j] => i = j BY <1>3
  <2> HIDE DEF f, q, T
  <2>4. \E i, j \in 1..Len(q) : i # j /\ f[i] = f[j]
    BY <1>5, <1>6, <2>1, <2>2, FS_PigeonHole
  <2> QED BY <2>3, <2>4
<1>8. Cardinality(T) <= UserQueueSize /\ UserQueueSize \in Nat
  <2> HIDE DEF T
  <2> QED BY <1>1, <1>c, <1>d, SizesAssumption DEF Room
<1> HIDE DEF q, T
<1>9. Len(q) < UserQueueSize BY <1>5, <1>6, <1>7, <1>8
<1> QED BY <1>6, <1>8, <1>9 DEF q, QueueFull

\* Nobody holds a lock without giving it back with the next step.
NobodyHangs ==
    /\ userLock = NoTask
    /\ idemLock # NoTask => sub[idemLock] = "dup"
    /\ \A t \in Tasks : sub[t] # "full"

\* The deadlock of submit_task at a full queue is the only one: where the messages of
\* each user fit in the queue, repeated or not, USER_LOCK is never held across a step,
\* however the threads interleave, and IDEMPOTENCY_LOCK only by a thread that is about
\* to answer.
THEOREM RoomMeansNoDeadlock == Room => (Spec => []NobodyHangs)
<1> SUFFICES ASSUME Room PROVE Spec => []NobodyHangs
  OBVIOUS
<1>1. Init => LockInv /\ NobodyHangs
  BY InitLock DEF Init, NobodyHangs
<1>2. WhereInv /\ LockInv /\ NobodyHangs /\ [Next]_vars => LockInv' /\ NobodyHangs'
  <2> SUFFICES ASSUME WhereInv, LockInv, NobodyHangs, [Next]_vars PROVE LockInv' /\ NobodyHangs'
    OBVIOUS
  <2>1. LockInv' BY LockStep DEF WhereInv, IInv
  <2>2. userLock' = userLock
    <3>1. ASSUME NEW t \in Tasks, Submit(t) PROVE userLock' = userLock
      <4>1. ~ SubmitFull(t) BY RoomForOne DEF SubmitFull
      <4> QED
        BY <3>1, <4>1 DEF Submit, SubmitReserveKey, SubmitFindKey, SubmitDuplicate, SubmitPut, SubmitAnnounce
    <3> QED
      BY <3>1, DispatchSubmitVars, RunOthers DEF Next, DispatchIdle, vars, submitVars, othersOfRun
  <2> QED BY <2>1, <2>2, SentinelsAssumption DEF LockInv, NobodyHangs
<1> QED
  BY <1>1, <1>2, WhereAlways, PTL DEF Spec
=============================================================================
