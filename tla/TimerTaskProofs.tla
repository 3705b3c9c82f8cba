-------------------------- MODULE TimerTaskProofs --------------------------
(***************************************************************************)
(* Safety of the timer tasks for any number of timers and of failures, by  *)
(* one inductive invariant, and then how late a timer may be.              *)
(***************************************************************************)
EXTENDS TimerTask, TLAPS

\* Before its file is written a timer is known to nobody.
Unknown(k) == file[k] # "whole" /\ runs[k] = 0 /\ cur # k /\ del[k] = "idle"

\* The scan has executed k and has not come to the removal of its file.
Executed(k) == scan \in {"remove", "hung"} /\ cur = k

AddInv == \A k \in Timers :
    /\ add[k] \in {"idle", "dump"} => Unknown(k)
    /\ add[k] = "idle" => file[k] = "none"

DelInv == \A k \in Timers : del[k] = "deleted" => file[k] = "none"

\* Failures account for the executions of a timer whose file is there.
CountInv == \A k \in Timers :
    /\ kept[k] <= faults
    /\ runs[k] <= 1 + kept[k]
    /\ (file[k] # "none" /\ ~ Executed(k)) => runs[k] <= kept[k]

ScanInv ==
    /\ scan = "execute" => due[cur] <= now /\ runs[cur] <= kept[cur]
    /\ scan \in {"remove", "hung"} => runs[cur] > 0

Inv == TypeOK /\ AddInv /\ DelInv /\ CountInv /\ ScanInv /\ NoneForgotten

LEMMA InitInv == Init => Inv
<1> SUFFICES ASSUME Init PROVE Inv
    OBVIOUS
<1>1. TypeOK
  <2>1. MaxTime \in Nat /\ Slow \in Nat /\ MaxFaults \in Nat BY TimerAssumption
  <2>2. 0 \in 0..MaxTime /\ 0 \in 0..(MaxTime + Slow) /\ 0 \in 0..(1 + MaxFaults)
        /\ 0 \in 0..MaxFaults
    BY <2>1
  <2>3. runs \in [Timers -> 0..(1 + MaxFaults)] /\ kept \in [Timers -> 0..MaxFaults]
        /\ since \in [Timers -> 0..MaxTime]
    BY <2>2 DEF Init
  <2> QED BY TimerAssumption, <2>2, <2>3 DEF Init, TypeOK
<1>2. AddInv /\ DelInv BY TimerAssumption DEF Init, AddInv, Unknown, DelInv
<1>3. ASSUME NEW k \in Timers
      PROVE  runs[k] = 0 /\ kept[k] = 0 /\ faults = 0 /\ add[k] = "idle"
  BY DEF Init
<1>4. ASSUME NEW k \in Timers
      PROVE  kept[k] <= faults /\ runs[k] <= kept[k] /\ runs[k] <= 1 + kept[k]
  BY <1>3
<1>5. ScanInv BY DEF Init, ScanInv
<1>6. ASSUME NEW k \in Timers
      PROVE  ~ runs[k] > 0 /\ add[k] \notin {"flag", "stamp", "done"}
  BY <1>3
<1> QED BY <1>1, <1>2, <1>4, <1>5, <1>6 DEF Inv, CountInv, NoneForgotten

\* Steps of add_timer_task and delete_user_task.
LEMMA UserInv == ASSUME Inv, NEW k \in Timers, User(k) PROVE Inv'
<1> USE TimerAssumption DEF Inv, TypeOK, AddInv, Unknown, DelInv, CountInv, Executed, ScanInv,
        NoneForgotten, loop, counts, Never, Fault
<1>1. CASE Opens(k) BY <1>1 DEF Opens
<1>2. CASE Writes(k) BY <1>2 DEF Writes
<1>3. CASE WriteFails(k) BY <1>3 DEF WriteFails
<1>4. CASE AsksFastScan(k) BY <1>4 DEF AsksFastScan
<1>5. CASE Stamps(k) BY <1>5 DEF Stamps
<1>6. CASE Searches(k) BY <1>6 DEF Searches
<1>7. CASE Deletes(k) BY <1>7 DEF Deletes
<1> QED BY <1>1, <1>2, <1>3, <1>4, <1>5, <1>6, <1>7 DEF User

\* Steps of timer_scan_loop.
LEMMA ScanStepInv == ASSUME Inv, Scan PROVE Inv'
<1> USE TimerAssumption DEF Inv, TypeOK, AddInv, Unknown, DelInv, CountInv, Executed, ScanInv,
        NoneForgotten, users, counts, Never, Fault
<1>1. CASE StartScan BY <1>1 DEF StartScan, Present
<1>a. CASE CheckNearby
  <2>1. scan = "near" /\ scan' \in {"near", "list"} /\ interval' \in {interval, Fast, Slow}
        /\ blind' \in BOOLEAN /\ todo' \subseteq Timers
    BY <1>a DEF CheckNearby, Chooses
  <2>2. UNCHANGED <<now, file, users, needFast, cur, wake, counts>> BY <1>a DEF CheckNearby
  <2> QED BY <2>1, <2>2
<1>2. CASE ResetFlag BY <1>2 DEF ResetFlag
<1>3. CASE ListFiles BY <1>3 DEF ListFiles, Present
<1>4. CASE LoadFile BY <1>4 DEF LoadFile, ReadableAndDue
<1>5. CASE Execute BY <1>5 DEF Execute, Runs
<1>6. CASE FileStays BY <1>6 DEF FileStays, Runs
<1>7. CASE ExecuteHangs BY <1>7 DEF ExecuteHangs, Runs
<1>8. CASE RemoveFile BY <1>8 DEF RemoveFile, WithoutFile
<1>9. CASE EndScan BY <1>9 DEF EndScan
<1> QED BY <1>1, <1>a, <1>2, <1>3, <1>4, <1>5, <1>6, <1>7, <1>8, <1>9 DEF Scan

LEMMA RestartInv == ASSUME Inv, Restart PROVE Inv'
<1> USE DEF Restart, Inv, Fault
<1>1. TypeOK'
  <2>1. kept' \in [Timers -> 0..MaxFaults]
    BY TimerAssumption DEF TypeOK, CountInv
  <2>2. now \in 0..(MaxTime + Slow) /\ faults' \in 0..MaxFaults BY TimerAssumption DEF TypeOK
  <2> QED BY <2>1, <2>2 DEF TypeOK
<1>2. AddInv' /\ DelInv'
  BY TimerAssumption DEF TypeOK, AddInv, Unknown, DelInv
<1>3. CountInv' /\ ScanInv'
  BY DEF TypeOK, CountInv, Executed, ScanInv
<1>4. NoneForgotten' BY DEF TypeOK, NoneForgotten, AddInv, Unknown
<1> QED BY <1>1, <1>2, <1>3, <1>4

LEMMA NextInv == ASSUME Inv, [Next]_vars PROVE Inv'
<1> USE TimerAssumption DEF Inv, TypeOK, AddInv, Unknown, DelInv, CountInv, Executed, ScanInv,
        NoneForgotten, users, loop, counts
<1>1. CASE \E k \in Timers : User(k) BY <1>1, UserInv
<1>2. CASE Scan BY <1>2, ScanStepInv
<1>3. CASE Restart BY <1>3, RestartInv
<1>4. CASE Tick
  <2>1. now \in Nat /\ now' = now + 1 /\ \A k \in Timers : due[k] \in Int
    <3>1. 1..MaxTime \subseteq Int OBVIOUS
    <3>2. \A k \in Timers : due[k] \in Triggers BY <1>4
    <3>3. now \in Nat BY <1>4
    <3> QED BY <1>4, <3>1, <3>2, <3>3 DEF Tick
  <2>2. NoneForgotten' /\ ScanInv' BY <1>4, <2>1 DEF Tick
  <2> QED BY <1>4, <2>2 DEF Tick
<1>5. CASE UNCHANGED vars BY <1>5 DEF vars
<1> QED BY <1>1, <1>2, <1>3, <1>4, <1>5 DEF Next

LEMMA InvHolds == Spec => []Inv
BY InitInv, NextInv, PTL DEF Spec

\* The variables of the timer tasks keep their types, and a timer is executed at most
\* MaxFaults + 1 times.
THEOREM TypeCorrect == Spec => []TypeOK
BY InvHolds, PTL DEF Inv

\* A timer is executed once, and once more for every failure that kept its file.
THEOREM TimerFiresOnce == Spec => []FiresOnce
<1>1. Inv => FiresOnce BY DEF Inv, CountInv, FiresOnce
<1> QED BY <1>1, InvHolds, PTL

\* No complete file goes away but by its user's deletion or after an execution in time.
THEOREM TimerNotForgotten == Spec => []NoneForgotten
BY InvHolds, PTL DEF Inv

\* The scan takes up no timer whose deletion was answered with success.
THEOREM DeletedTimerStaysQuiet == Spec => DeletedStaysQuiet
<1>1. ASSUME Inv, Next, NEW k \in Timers, cur' = k, cur # k, del[k] = "deleted"
      PROVE  FALSE
  <2>1. k # NoTimer BY TimerAssumption
  <2>2. LoadFile
    <3> USE <1>1, <2>1 DEF loop
    <3>1. CASE \E j \in Timers : User(j)
      BY <3>1 DEF User, Opens, Writes, WriteFails, AsksFastScan, Stamps, Searches, Deletes
    <3>2. CASE Scan
      BY <3>2 DEF Scan, StartScan, CheckNearby, ResetFlag, ListFiles, Execute, FileStays,
         ExecuteHangs, RemoveFile, EndScan
    <3>3. CASE Restart BY <3>3 DEF Restart
    <3>4. CASE Tick BY <3>4 DEF Tick
    <3> QED BY <3>1, <3>2, <3>3, <3>4 DEF Next
  <2>3. file[k] = "whole" BY <1>1, <2>2 DEF LoadFile, ReadableAndDue
  <2> QED BY <1>1, <2>3 DEF Inv, DelInv
<1>2. Inv /\ [Next]_vars =>
          [\A k \in Timers : cur' = k /\ cur # k => del[k] # "deleted"]_vars
  BY <1>1 DEF vars
<1> QED BY <1>2, InvHolds, PTL DEF Spec, DeletedStaysQuiet

-----------------------------------------------------------------------------
(* How late a timer may be.  A scan takes no time: what it has found or    *)
(* missed, it has found or missed at the time it goes to sleep.            *)

Scanning == scan \in {"reset", "list", "load", "execute", "remove"}

\* A file that is executed if it is due, or of a timer executed before.
Waits(k) == file[k] = "whole" /\ runs[k] = 0

\* The interval is the slow one only if no timer was near, as far as could be seen.
AheadInv ==
    Scanning /\ interval # Fast /\ ~ blind =>
        \A k \in Timers : file[k] = "whole" => since[k] = now \/ now + Near < due[k]

\* While has_nearby_task reads, it has not come to the near ones, or they are new.
NearbyInv ==
    scan = "near" =>
        \A k \in Timers : file[k] = "whole" =>
            k \in todo \/ since[k] = now \/ now + Near < due[k]

\* A timer that waits is on the list, or came after it was made, or was not due.
TreatedInv ==
    scan \in {"load", "execute", "remove"} =>
        \A k \in Timers : Waits(k) =>
            k \in todo \/ since[k] = now \/ now < due[k] \/ (scan = "execute" /\ cur = k)

\* Prompt, for intervals of any length.
SleepInv ==
    scan = "sleep" /\ now < wake =>
        \A k \in Timers : Waits(k) =>
            /\ wake < due[k] + Slow \/ wake <= since[k] + Slow
            /\ since[k] + Slow <= due[k] /\ ~ blind =>
                   wake < due[k] + Fast \/ wake + Near < due[k] + Slow

LateInv == wake <= now + Slow /\ NearbyInv /\ AheadInv /\ TreatedInv /\ SleepInv

\* Times are numbers.
LEMMA Times ==
    ASSUME TypeOK
    PROVE  /\ now \in Nat /\ wake \in Nat /\ interval \in {Fast, Slow}
           /\ Fast \in Nat /\ Slow \in Nat /\ Near \in Nat /\ 0 < Fast /\ Fast <= Slow
           /\ \A k \in Timers : due[k] \in Nat /\ since[k] \in Nat
<1>1. MaxTime \in Nat /\ Fast \in Nat /\ Slow \in Nat /\ Near \in Nat /\ 0 < Fast /\ Fast <= Slow
  BY TimerAssumption
<1>2. 0..MaxTime \subseteq Nat /\ 0..(MaxTime + Slow) \subseteq Nat /\ 1..MaxTime \subseteq Nat
  BY <1>1
<1>3. now \in Nat /\ wake \in Nat /\ interval \in {Fast, Slow}
  BY <1>2 DEF TypeOK
<1>4. \A k \in Timers : due[k] \in Nat /\ since[k] \in Nat
  BY <1>2, TimerAssumption DEF TypeOK
<1> QED BY <1>1, <1>3, <1>4

LEMMA LateInit == Init => LateInv
<1> SUFFICES ASSUME Init PROVE LateInv
  OBVIOUS
<1>1. wake <= now + Slow BY TimerAssumption DEF Init
<1>2. NearbyInv /\ AheadInv /\ TreatedInv
  BY DEF Init, NearbyInv, AheadInv, TreatedInv, Scanning
<1>3. SleepInv BY DEF Init, SleepInv, Waits
<1> QED BY <1>1, <1>2, <1>3 DEF LateInv

\* What the users do to the files: a file of theirs is complete now, or was before.
LEMMA LateUser == ASSUME Inv, LateInv, NEW j \in Timers, User(j) PROVE LateInv'
<1>1. TypeOK BY DEF Inv
<1>2. UNCHANGED <<now, due, runs, interval, scan, todo, cur, wake, blind>>
  BY DEF User, Opens, Writes, WriteFails, AsksFastScan, Stamps, Searches, Deletes, loop, counts
<1>3. ASSUME NEW k \in Timers, file'[k] = "whole"
      PROVE  since'[k] = now \/ (file[k] = "whole" /\ since'[k] = since[k])
  <2> USE <1>1, <1>3 DEF TypeOK
  <2>1. CASE Opens(j) BY <2>1 DEF Opens
  <2>2. CASE Writes(j) BY <2>2 DEF Writes
  <2>3. CASE WriteFails(j) BY <2>3 DEF WriteFails
  <2>4. CASE AsksFastScan(j) BY <2>4 DEF AsksFastScan
  <2>5. CASE Stamps(j) BY <2>5 DEF Stamps
  <2>6. CASE Searches(j) BY <2>6 DEF Searches
  <2>7. CASE Deletes(j) BY <2>7 DEF Deletes
  <2> QED BY <2>1, <2>2, <2>3, <2>4, <2>5, <2>6, <2>7 DEF User
<1>4. AheadInv' BY <1>2, <1>3 DEF LateInv, AheadInv, Scanning
<1>5. TreatedInv' BY <1>2, <1>3 DEF LateInv, TreatedInv, Waits
<1>6. SleepInv'
  <2>1. SUFFICES ASSUME scan = "sleep", now < wake, NEW k \in Timers, Waits(k)'
        PROVE  /\ wake < due[k] + Slow \/ wake <= since'[k] + Slow
               /\ since'[k] + Slow <= due[k] /\ ~ blind =>
                      wake < due[k] + Fast \/ wake + Near < due[k] + Slow
    BY <1>2 DEF SleepInv
  <2>2. file'[k] = "whole" /\ runs[k] = 0 BY <1>2, <2>1 DEF Waits
  <2>3. CASE since'[k] = now BY <1>1, <2>3, Times DEF LateInv
  <2>4. CASE file[k] = "whole" /\ since'[k] = since[k]
    BY <2>1, <2>2, <2>4 DEF LateInv, SleepInv, Waits
  <2> QED BY <1>3, <2>2, <2>3, <2>4
<1>7. NearbyInv' BY <1>2, <1>3 DEF LateInv, NearbyInv
<1> QED BY <1>2, <1>4, <1>5, <1>6, <1>7 DEF LateInv

LEMMA LateScan == ASSUME Inv, LateInv, Scan PROVE LateInv'
<1>1. TypeOK BY DEF Inv
<1>2. UNCHANGED <<now, due, since>> /\ (scan' = "sleep" \/ wake' = wake)
  BY DEF Scan, StartScan, CheckNearby, ResetFlag, ListFiles, LoadFile, Execute, FileStays,
     ExecuteHangs, RemoveFile, EndScan, users, counts
<1>3. CASE StartScan
  <2>1. /\ UNCHANGED <<now, file, due, since, wake>>
        /\ \/ scan' \in {"reset", "list"} /\ interval' = Fast
           \/ scan' = "near" /\ todo' = Present
    BY <1>3 DEF StartScan, users
  <2>2. NearbyInv' BY <2>1 DEF NearbyInv, Present
  <2>3. AheadInv' BY <2>1 DEF AheadInv, Scanning
  <2>4. TreatedInv' /\ SleepInv' BY <2>1 DEF TreatedInv, SleepInv
  <2> QED BY <2>1, <2>2, <2>3, <2>4 DEF LateInv
<1>a. CASE CheckNearby
  <2>1. /\ UNCHANGED <<now, file, due, since, wake>>
        /\ scan = "near" /\ scan' \in {"near", "list"}
    BY <1>a DEF CheckNearby, Chooses, users
  <2>2. ASSUME scan' = "near"
        PROVE  \E j \in todo : todo' = todo \ {j} /\ ~ IsNear(j)
    BY <1>a, <2>2 DEF CheckNearby, Chooses
  <2>3. NearbyInv'
    <3>1. ASSUME scan' = "near", NEW k \in Timers, file[k] = "whole"
          PROVE  k \in todo' \/ since[k] = now \/ now + Near < due[k]
      <4>1. PICK j \in todo : todo' = todo \ {j} /\ ~ IsNear(j) BY <2>2, <3>1
      <4>2. k \in todo \/ since[k] = now \/ now + Near < due[k]
        BY <2>1, <3>1 DEF LateInv, NearbyInv
      <4>3. CASE k = j
        <5>1. ~ (due[k] <= now + Near) BY <4>1, <4>3 DEF IsNear
        <5> QED BY <1>1, <5>1, Times
      <4> QED BY <4>1, <4>2, <4>3
    <3> QED BY <2>1, <3>1 DEF NearbyInv
  <2>4. AheadInv'
    <3>1. SUFFICES ASSUME scan' = "list", interval' # Fast, ~ blind', NEW k \in Timers,
                          file[k] = "whole"
          PROVE  since[k] = now \/ now + Near < due[k]
      BY <2>1 DEF AheadInv, Scanning
    <3>2. todo = {} BY <1>a, <3>1 DEF CheckNearby, Chooses
    <3> QED BY <2>1, <3>1, <3>2 DEF LateInv, NearbyInv
  <2>5. TreatedInv' /\ SleepInv' BY <2>1 DEF TreatedInv, SleepInv
  <2> QED BY <2>1, <2>3, <2>4, <2>5 DEF LateInv
<1>4. CASE ResetFlag
  <2>1. UNCHANGED <<now, file, due, since, wake, interval, blind>> /\ scan = "reset" /\ scan' = "list"
    BY <1>4 DEF ResetFlag, users
  <2>2. AheadInv' BY <2>1 DEF LateInv, AheadInv, Scanning
  <2>3. TreatedInv' /\ SleepInv' BY <2>1 DEF TreatedInv, SleepInv
  <2> QED BY <2>1, <2>2, <2>3 DEF LateInv, NearbyInv
<1>5. CASE ListFiles
  <2>1. /\ UNCHANGED <<now, file, due, since, wake, interval, blind>>
        /\ scan = "list" /\ scan' = "load" /\ todo' = Present
    BY <1>5 DEF ListFiles, users
  <2>2. AheadInv' BY <2>1 DEF LateInv, AheadInv, Scanning
  <2>3. TreatedInv' BY <2>1 DEF TreatedInv, Waits, Present
  <2>4. SleepInv' BY <2>1 DEF SleepInv
  <2> QED BY <2>1, <2>2, <2>3, <2>4 DEF LateInv, NearbyInv
<1>6. CASE LoadFile
  <2>1. /\ UNCHANGED <<now, file, due, since, wake, interval, blind, runs>>
        /\ scan = "load" /\ scan' \in {"load", "execute"}
    BY <1>6 DEF LoadFile, users, counts
  <2>2. AheadInv' BY <2>1 DEF LateInv, AheadInv, Scanning
  <2>3. PICK j \in todo : /\ todo' = todo \ {j}
                          /\ ReadableAndDue(j) => cur' = j /\ scan' = "execute"
    BY <1>6 DEF LoadFile
  <2>4. TreatedInv'
    <3>1. ASSUME NEW k \in Timers, Waits(k)
          PROVE  k \in todo' \/ since[k] = now \/ now < due[k] \/ (scan' = "execute" /\ cur' = k)
      <4>1. k \in todo \/ since[k] = now \/ now < due[k]
        BY <2>1, <3>1 DEF LateInv, TreatedInv
      <4>2. CASE k = j
        <5>1. ReadableAndDue(k) \/ ~ (due[k] <= now) BY <3>1 DEF Waits, ReadableAndDue
        <5> QED BY <1>1, <2>3, <4>2, <5>1, Times
      <4> QED BY <2>3, <4>1, <4>2
    <3> QED BY <2>1, <3>1 DEF TreatedInv, Waits
  <2>5. SleepInv' BY <2>1 DEF SleepInv
  <2> QED BY <2>1, <2>2, <2>4, <2>5 DEF LateInv, NearbyInv
<1>7. ASSUME Execute \/ FileStays \/ RemoveFile PROVE LateInv'
  <2>1. /\ UNCHANGED <<now, due, since, wake, interval, blind, todo>>
        /\ scan \in {"execute", "remove"} /\ scan' \in {"load", "remove"}
    BY <1>7 DEF Execute, FileStays, RemoveFile, users, counts
  <2>2. \A k \in Timers : file'[k] = "whole" => file[k] = "whole"
    BY <1>1, <1>7 DEF Execute, FileStays, RemoveFile, WithoutFile, TypeOK
  <2>3. AheadInv' BY <2>1, <2>2 DEF LateInv, AheadInv, Scanning
  <2>4. ASSUME NEW k \in Timers, Waits(k)' PROVE Waits(k) /\ ~ (scan = "execute" /\ cur = k)
    <3> USE <1>1 DEF TypeOK, Waits
    <3>1. CASE Execute \/ (FileStays /\ scan = "execute")
      <4>1. cur \in Timers /\ file' = file /\ runs' = [runs EXCEPT ![cur] = @ + 1]
        BY <3>1 DEF Execute, FileStays, Runs
      <4>2. runs[cur] \in Nat BY <4>1, TimerAssumption
      <4> QED BY <2>4, <4>1, <4>2
    <3>2. CASE RemoveFile \/ (FileStays /\ scan # "execute")
      BY <2>2, <2>4, <3>2 DEF RemoveFile, FileStays, counts
    <3> QED BY <1>7, <3>1, <3>2
  <2>5. TreatedInv' BY <2>1, <2>4 DEF LateInv, TreatedInv
  <2>6. SleepInv' BY <2>1 DEF SleepInv
  <2> QED BY <2>1, <2>3, <2>5, <2>6 DEF LateInv, NearbyInv
<1>8. CASE ExecuteHangs
  <2>1. UNCHANGED <<now, wake>> /\ scan' = "hung" BY <1>8 DEF ExecuteHangs
  <2> QED BY <2>1 DEF LateInv, NearbyInv, AheadInv, TreatedInv, SleepInv, Scanning
<1>9. CASE EndScan
  <2>1. /\ UNCHANGED <<now, file, due, since, interval, blind, runs>>
        /\ scan = "load" /\ todo = {} /\ scan' = "sleep" /\ wake' = now + interval
    BY <1>9 DEF EndScan, users, counts
  <2>2. AheadInv' /\ TreatedInv' BY <2>1 DEF AheadInv, TreatedInv, Scanning
  <2>3. ASSUME NEW k \in Timers, Waits(k)
        PROVE  /\ wake' < due[k] + Slow \/ wake' <= since[k] + Slow
               /\ since[k] + Slow <= due[k] /\ ~ blind =>
                      wake' < due[k] + Fast \/ wake' + Near < due[k] + Slow
    <3>1. since[k] = now \/ now < due[k] BY <2>1, <2>3 DEF LateInv, TreatedInv
    <3>2. interval # Fast /\ ~ blind => since[k] = now \/ now + Near < due[k]
      BY <2>1, <2>3 DEF LateInv, AheadInv, Scanning, Waits
    <3>3. /\ now \in Nat /\ interval \in {Fast, Slow} /\ Fast \in Nat /\ Slow \in Nat
          /\ Near \in Nat /\ 0 < Fast /\ Fast <= Slow /\ due[k] \in Nat /\ since[k] \in Nat
      BY <1>1, Times
    <3> QED BY <2>1, <3>1, <3>2, <3>3
  <2>4. SleepInv' BY <2>1, <2>3 DEF SleepInv, Waits
  <2>5. wake' <= now' + Slow BY <1>1, <2>1, Times
  <2> QED BY <2>1, <2>2, <2>4, <2>5 DEF LateInv, NearbyInv
<1> QED BY <1>3, <1>4, <1>5, <1>6, <1>7, <1>8, <1>9, <1>a DEF Scan

LEMMA LateStep == ASSUME Inv, LateInv, [Next]_vars PROVE LateInv'
<1>1. TypeOK BY DEF Inv
<1>2. CASE Restart
  <2>1. now' = now /\ wake' = now /\ scan' = "sleep" BY <1>2 DEF Restart
  <2>2. wake' <= now' + Slow /\ ~ (now' < wake') BY <1>1, <2>1, Times
  <2> QED BY <2>1, <2>2 DEF LateInv, NearbyInv, AheadInv, TreatedInv, SleepInv, Scanning
<1>3. CASE Tick
  <2>1. now' = now + 1 /\ scan' \in {"sleep", "hung"} /\ UNCHANGED <<file, due, since, runs>>
        /\ UNCHANGED <<scan, wake, blind>>
    BY <1>3 DEF Tick, users, loop, counts
  <2>2. now' < wake' => now < wake BY <1>1, <2>1, Times
  <2>3. SleepInv' BY <2>1, <2>2 DEF LateInv, SleepInv, Waits
  <2>4. wake' <= now' + Slow BY <1>1, <2>1, Times DEF LateInv
  <2> QED BY <2>1, <2>3, <2>4 DEF LateInv, NearbyInv, AheadInv, TreatedInv, Scanning
<1>4. CASE UNCHANGED vars
  BY <1>4 DEF vars, users, loop, counts, LateInv, NearbyInv, AheadInv, TreatedInv, SleepInv, Scanning, Waits
<1> QED BY <1>2, <1>3, <1>4, LateUser, LateScan DEF Next

LEMMA LateAlways == Spec => []LateInv
<1>1. Inv /\ LateInv /\ [Next]_vars => LateInv' BY LateStep
<1> QED BY <1>1, LateInit, InvHolds, PTL DEF Spec

\* A timer is no later than Prompt allows, for any number of timers, whenever they are
\* added, as long as the slow interval of timer_scan_loop is no longer than what
\* has_nearby_task looks ahead and the fast interval: as deployed, 60 s and 180 s + 5 s.
THEOREM TimersArePrompt == Slow <= Near + Fast => (Spec => []Prompt)
<1> SUFFICES ASSUME Slow <= Near + Fast PROVE Spec => []Prompt
  OBVIOUS
<1>1. Inv /\ LateInv => Prompt
  <2> SUFFICES ASSUME Inv, LateInv, NEW k \in Timers,
                      file[k] = "whole", runs[k] = 0, scan = "sleep", now < wake
               PROVE  /\ wake < due[k] + Slow \/ wake <= since[k] + Slow
                      /\ since[k] + Slow <= due[k] /\ ~ blind => wake < due[k] + Fast
    BY DEF Prompt
  <2>1. /\ wake < due[k] + Slow \/ wake <= since[k] + Slow
        /\ since[k] + Slow <= due[k] /\ ~ blind =>
               wake < due[k] + Fast \/ wake + Near < due[k] + Slow
    BY DEF LateInv, SleepInv, Waits
  <2>2. wake + Near < due[k] + Slow => wake < due[k] + Fast
    BY Times, TimerAssumption DEF Inv
  <2> QED BY <2>1, <2>2
<1> QED BY <1>1, InvHolds, LateAlways, PTL
=============================================================================
